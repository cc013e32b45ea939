-------------------------- MODULE RequestFeedProofs --------------------------
(***************************************************************************)
(* Theorems about RequestFeed: no stored event is sent twice, the newest   *)
(* ones are sent, and what is published meanwhile is lost in one gap only. *)
(***************************************************************************)
EXTENDS RequestFeed, SequenceFacts, FiniteSetTheorems

(* What is put into the channel. *)
Messages == [src : {"stored", "eose", "live"}, event : Events \cup {Never},
             nr : 0..MaxRequests, filter : Nat \cup {Never}]

Requests == [pc : {"idle", "query", "eose", "remove", "add"},
             filters : FilterLists \cup {<<>>}, i : Nat \ {0}, until : Nat,
             sent : 0..MaxLimit, last : Nat \cup {Never}, attempts : 0..MaxAttempts]

(* Types, and what the variables' values have to do with each other: sent  *)
(* and missed events are stored ones, a request being handled has filters. *)
Shape ==
    /\ Stored \subseteq db /\ db \subseteq Events
    /\ out \in Seq(Messages) /\ unread \in 0..ChannelSize /\ unread <= Len(out)
    /\ req \in Requests
    /\ req.pc # "idle" => req.filters # <<>> /\ req.i \in 1..Len(req.filters)
    /\ sentEvents \subseteq db /\ \A e \in sentEvents : e.visible
    /\ missed \subseteq db /\ before \subseteq db
    /\ live \in FilterLists \cup {<<>>}
    /\ DOMAIN pub = Publishers
    /\ \A p \in Publishers : pub[p].pc \in {"idle", "saved"}
    /\ \A p \in Publishers : pub[p].pc = "saved" => pub[p].event \in db
    /\ requests \in 0..MaxRequests /\ faults \in 0..MaxFaults

(* The events sent in answer to the last request are in sent_events. *)
AnswerRecorded ==
    \A n \in 1..Len(out) :
       /\ out[n].nr <= requests
       /\ out[n].src = "stored" /\ out[n].nr = requests => out[n].event \in sentEvents

(* An event stored since the request came waits for its distribution until *)
(* the subscription is in force.                                           *)
Pending(e) == \E p \in Publishers : pub[p].pc = "saved" /\ pub[p].event = e

SentLive(e) ==
    \E n \in 1..Len(out) : out[n].nr = requests /\ out[n].src = "live" /\ out[n].event = e

Accounted ==
    /\ InForce => live = req.filters
    /\ req.filters # <<>> =>
          \A e \in db \ (before \cup missed) :
             \/ Pending(e)
             \/ InForce /\ (e.visible /\ MatchesAny(req.filters, e) => SentLive(e))

(* The events a filter of the request has to find, but for those of a      *)
(* second in which a page ended, and those that come before such an event. *)
Wanted(i) ==
    {e \in before : Matches(req.filters[i], e) /\ e.visible /\ e.at \notin edges[i]}

Ahead(i, e) == {f \in db : Matches(req.filters[i], f) /\ f.visible /\ Newer(f, e)}

(* A filter that was read to the end: what it did not find is beyond the   *)
(* limit.                                                                  *)
Settled(i) ==
    \A e \in Wanted(i) \ sentEvents : Cardinality(Ahead(i, e)) >= Limit(req.filters)

(* The filter being read: everything after the window was found; the       *)
(* events counted by sent came after the window, unless it ended at the    *)
(* first second, which can be read twice since timestamps saturate.        *)
Counted ==
    \E K \in SUBSET {f \in db : /\ Matches(req.filters[req.i], f) /\ f.visible
                                /\ f.at > req.until} :
       Cardinality(K) = req.sent

Paging ==
    /\ \A e \in Wanted(req.i) : e.at > req.until => e \in sentEvents
    /\ (req.until = 0 /\ 0 \in edges[req.i]) \/ Counted
    /\ IF req.last = Never THEN req.until = Now ELSE req.until = NextWindow(req.last)
    /\ req.sent < Limit(req.filters)

(* How far the answer to the request has come. *)
Progress ==
    req.filters # <<>> =>
       /\ DOMAIN edges = DOMAIN req.filters
       /\ \A i \in DOMAIN req.filters \ cut :
             i < req.i \/ req.pc # "query" => Settled(i)
       /\ req.pc = "query" => Paging

(***************************************************************************)
(* The inductive invariant.  The properties say nothing of a request that  *)
(* is still being handled; Accounted and Progress do.                      *)
(***************************************************************************)
FeedInv == Shape /\ AnswerRecorded /\ StoredOnce /\ Accounted /\ Progress

-----------------------------------------------------------------------------
(* Numbers. *)

(* A finite set of naturals that is not empty has a greatest element. *)
LEMMA GreatestNat ==
    ASSUME NEW S \in SUBSET Nat, IsFiniteSet(S), S # {}
    PROVE  \E n \in S : \A m \in S : n >= m
<1> DEFINE Good(T) == \E n \in T : \A m \in T : n >= m
           Bad == {k \in Nat : \E T \in SUBSET Nat :
                      IsFiniteSet(T) /\ T # {} /\ Cardinality(T) = k /\ ~Good(T)}
<1> SUFFICES ASSUME ~Good(S) PROVE FALSE
  OBVIOUS
<1>1. Cardinality(S) \in Bad
  <2>1. Cardinality(S) \in Nat
    BY FS_CardinalityType
  <2> QED
    BY <2>1
<1>2. PICK b \in Bad : \A k \in Bad : b <= k
  BY <1>1, LeastNat
<1>3. PICK T \in SUBSET Nat : IsFiniteSet(T) /\ T # {} /\ Cardinality(T) = b /\ ~Good(T)
  OBVIOUS
<1>4. PICK x \in T : TRUE
  BY <1>3
<1>5. IsFiniteSet(T \ {x}) /\ Cardinality(T \ {x}) = b - 1
  BY <1>3, <1>4, FS_RemoveElement
<1>6. b - 1 \in Nat
  BY <1>5, FS_CardinalityType
<1>7. b - 1 \notin Bad
  BY <1>2, <1>6
<1>8. T \ {x} = {} \/ Good(T \ {x})
  BY <1>3, <1>5, <1>6, <1>7
<1>9. CASE T \ {x} = {}
  BY <1>3, <1>4, <1>9
<1>10. CASE Good(T \ {x})
  <2>1. PICK n \in T \ {x} : \A m \in T \ {x} : n >= m
    BY <1>10
  <2>2. CASE n >= x
    <3>1. \A m \in T : n >= m
      BY <2>1, <2>2
    <3> QED
      BY <1>3, <2>1, <3>1
  <2>3. CASE ~(n >= x)
    <3>1. n \in Nat /\ x \in Nat
      BY <1>3, <1>4
    <3>2. ASSUME NEW m \in T PROVE x >= m
      <4>1. m \in Nat
        BY <1>3
      <4>2. m = x \/ n >= m
        BY <2>1
      <4> QED
        BY <2>3, <3>1, <4>1, <4>2
    <3> QED
      BY <1>3, <1>4, <3>2
  <2> QED
    BY <2>2, <2>3
<1> QED
  BY <1>8, <1>9, <1>10

(* No event is later than now. *)
LEMMA NowLatest == Now \in Nat /\ \A e \in Events : e.at <= Now
<1> DEFINE Times == {e.at : e \in Events}
<1>1. Times \in SUBSET Nat /\ Times # {}
  BY FeedAssumption
<1>2. IsFiniteSet(Times)
  <2> DEFINE f == [e \in Events |-> e.at]
  <2>1. f \in Surjection(Events, Times)
    BY DEF Surjection
  <2> QED
    BY <2>1, FS_Surjection, FeedAssumption
<1>3. \E n \in Times : \A m \in Times : n >= m
  BY <1>1, <1>2, GreatestNat
<1>4. Now \in Times /\ \A m \in Times : Now >= m
  BY <1>3 DEF Now, Max
<1> QED
  BY <1>1, <1>4, FeedAssumption

LEMMA LimitType ==
    ASSUME NEW fs \in FilterLists
    PROVE  Limit(fs) \in 1..MaxLimit
<1> DEFINE S == {MaxLimit} \cup ({fs[i].limit : i \in DOMAIN fs} \ {NoLimit})
<1>1. S \in SUBSET (Nat \ {0}) /\ MaxLimit \in S
  BY FeedAssumption
<1>2. \E n \in S : \A m \in S : n <= m
  <2>1. S \in SUBSET Nat /\ S # {}
    BY <1>1
  <2> HIDE DEF S
  <2> QED
    BY <2>1, LeastNat
<1>3. Limit(fs) \in S /\ \A m \in S : Limit(fs) <= m
  BY <1>2 DEF Limit, Min
<1> QED
  BY <1>1, <1>3, FeedAssumption

LEMMA MaxOfTwo ==
    ASSUME NEW n \in Int
    PROVE  Max({n, 0}) = IF n > 0 THEN n ELSE 0
<1>1. \E x \in {n, 0} : \A y \in {n, 0} : x >= y
  OBVIOUS
<1>2. Max({n, 0}) \in {n, 0} /\ \A y \in {n, 0} : Max({n, 0}) >= y
  BY <1>1 DEF Max
<1> QED
  BY <1>2

LEMMA NextWindowIs ==
    ASSUME NEW ts \in Nat
    PROVE  NextWindow(ts) = IF ts > 0 THEN ts - 1 ELSE 0
<1>1. NextWindow(ts) = IF ts - 1 > 0 THEN ts - 1 ELSE 0
  BY MaxOfTwo DEF NextWindow
<1> QED
  BY <1>1

(* OldestOf: no time, or the least of them. *)
LEMMA OldestOfIs ==
    ASSUME NEW T \in SUBSET Nat
    PROVE  /\ T = {} => OldestOf(T) = Never
           /\ T # {} => OldestOf(T) \in T /\ OldestOf(T) # Never /\ \A t \in T : OldestOf(T) <= t
<1>1. CASE T # {}
  <2>1. \E n \in T : \A m \in T : n <= m
    BY <1>1, LeastNat
  <2>2. Min(T) \in T /\ \A t \in T : Min(T) <= t
    BY <2>1 DEF Min
  <2>3. Min(T) \in Nat
    BY <2>2
  <2>4. OldestOf(T) = Min(T)
    BY <1>1 DEF OldestOf
  <2>5. Min(T) # Never
    BY <2>3 DEF Never
  <2> QED
    BY <1>1, <2>2, <2>4, <2>5
<1> QED
  BY <1>1 DEF OldestOf

-----------------------------------------------------------------------------
(* Events, newest first. *)

LEMMA NewerOrder ==
    /\ \A e, f \in Events : e = f \/ Newer(e, f) \/ Newer(f, e)
    /\ \A e, f \in Events : Newer(e, f) => ~Newer(f, e) /\ e # f /\ e.at >= f.at
    /\ \A e, f, g \in Events : Newer(e, f) /\ Newer(f, g) => Newer(e, g)
    /\ \A e, f \in Events : e.at > f.at => Newer(e, f)
  BY FeedAssumption DEF Newer

Rank(S, e) == Cardinality({f \in S : Newer(f, e)})

LEMMA RankOrder ==
    ASSUME NEW S \in SUBSET Events, NEW d \in S, NEW e \in S, Newer(d, e)
    PROVE  Rank(S, d) < Rank(S, e)
<1> DEFINE D == {f \in S : Newer(f, d)}  E == {f \in S : Newer(f, e)}
<1>1. IsFiniteSet(S)
  BY FeedAssumption, FS_Subset
<1>2. IsFiniteSet(E) /\ IsFiniteSet(D)
  BY <1>1, FS_Subset
<1>3. D \subseteq E /\ d \in E /\ d \notin D
  BY NewerOrder
<1>4. Cardinality(D) <= Cardinality(E) /\ Cardinality(D) # Cardinality(E)
  BY <1>2, <1>3, FS_Subset
<1>5. Cardinality(D) \in Nat /\ Cardinality(E) \in Nat
  BY <1>2, FS_CardinalityType
<1> QED
  BY <1>4, <1>5 DEF Rank

(* Every place is taken. *)
LEMMA RankOnto ==
    ASSUME NEW S \in SUBSET Events
    PROVE  /\ IsFiniteSet(S) /\ Cardinality(S) \in Nat
           /\ \A e \in S : Rank(S, e) \in 0..(Cardinality(S) - 1)
           /\ \A n \in 1..Cardinality(S) : \E e \in S : Rank(S, e) = n - 1
<1> DEFINE C == Cardinality(S)
           f == [e \in S |-> Rank(S, e)]
<1>1. IsFiniteSet(S) /\ C \in Nat
  BY FeedAssumption, FS_Subset, FS_CardinalityType
<1>2. ASSUME NEW e \in S PROVE Rank(S, e) \in 0..(C - 1)
  <2> DEFINE E == {g \in S : Newer(g, e)}
  <2>1. E \subseteq S /\ e \notin E
    BY NewerOrder
  <2>2. IsFiniteSet(E) /\ Cardinality(E) <= C /\ Cardinality(E) # C
    BY <1>1, <2>1, FS_Subset
  <2>3. Cardinality(E) \in Nat
    BY <2>2, FS_CardinalityType
  <2> QED
    BY <1>1, <2>2, <2>3 DEF Rank
<1>3. f \in Injection(S, 0..(C - 1))
  <2>1. f \in [S -> 0..(C - 1)]
    BY <1>2
  <2>2. ASSUME NEW d \in S, NEW e \in S, f[d] = f[e] PROVE d = e
    <3>1. Rank(S, d) = Rank(S, e) /\ Rank(S, d) \in Int
      BY <1>2, <2>2
    <3>2. ~Newer(d, e) /\ ~Newer(e, d)
      BY <3>1, RankOrder
    <3> QED
      BY <3>2, NewerOrder
  <2> QED
    BY <2>1, <2>2 DEF Injection, IsInjective
<1>4. IsFiniteSet(0..(C - 1)) /\ Cardinality(0..(C - 1)) = C
  BY <1>1, FS_Interval
<1>5. f \in Surjection(S, 0..(C - 1))
  BY <1>3, <1>4, FS_Injection
<1>6. \A n \in 0..(C - 1) : \E e \in S : f[e] = n
  BY <1>5 DEF Surjection
<1>7. ASSUME NEW n \in 1..C PROVE \E e \in S : Rank(S, e) = n - 1
  <2>1. n - 1 \in 0..(C - 1)
    BY <1>1
  <2> QED
    BY <1>6, <2>1
<1> QED
  BY <1>1, <1>2, <1>7

(* NewestFirst has every event of the set once, each in its place. *)
LEMMA NewestFirstIs ==
    ASSUME NEW S \in SUBSET Events
    PROVE  LET s == NewestFirst(S) IN
           /\ s \in Seq(S) /\ Len(s) = Cardinality(S)
           /\ \A n \in 1..Len(s) : Rank(S, s[n]) = n - 1
           /\ \A e \in S : Rank(S, e) + 1 \in 1..Len(s) /\ s[Rank(S, e) + 1] = e
<1> DEFINE C == Cardinality(S)  s == NewestFirst(S)
<1>1. C \in Nat
  BY RankOnto
<1>2. ASSUME NEW n \in 1..C PROVE s[n] \in S /\ Rank(S, s[n]) = n - 1
  <2>1. s[n] = CHOOSE e \in S : Rank(S, e) = n - 1
    BY DEF NewestFirst, Rank
  <2>2. \E e \in S : Rank(S, e) = n - 1
    BY RankOnto
  <2> QED
    BY <2>1, <2>2
<1>3. s \in [1..C -> S]
  BY <1>2 DEF NewestFirst
<1>4. s \in Seq(S) /\ Len(s) = C
  <2> HIDE DEF s
  <2> QED
    BY <1>1, <1>3
<1>5. ASSUME NEW e \in S PROVE Rank(S, e) + 1 \in 1..C /\ s[Rank(S, e) + 1] = e
  <2>1. Rank(S, e) \in 0..(C - 1)
    BY RankOnto
  <2>2. Rank(S, e) + 1 \in 1..C
    BY <1>1, <2>1
  <2> DEFINE d == s[Rank(S, e) + 1]
  <2>3. d \in S /\ Rank(S, d) = Rank(S, e)
    <3>1. d \in S /\ Rank(S, d) = (Rank(S, e) + 1) - 1
      BY <1>2, <2>2
    <3> QED
      BY <2>1, <3>1
  <2> HIDE DEF d
  <2>4. ~Newer(d, e) /\ ~Newer(e, d)
    BY <2>1, <2>3, RankOrder
  <2>5. d = e
    BY <2>3, <2>4, NewerOrder
  <2> QED
    BY <2>2, <2>5 DEF d
<1> QED
  BY <1>2, <1>4, <1>5

LEMMA TakeIs ==
    ASSUME NEW S, NEW s \in Seq(S), NEW n \in Nat
    PROVE  LET t == Take(s, n) IN
           /\ t \in Seq(S) /\ Len(t) = IF Len(s) < n THEN Len(s) ELSE n
           /\ \A k \in 1..Len(t) : k \in 1..Len(s) /\ t[k] = s[k]
<1> DEFINE m == IF Len(s) < n THEN Len(s) ELSE n
<1>1. m \in Nat /\ m <= Len(s) /\ Len(s) \in Nat
  OBVIOUS
<1>2. Take(s, n) = SubSeq(s, 1, m)
  BY DEF Take
<1> HIDE DEF m
<1>3. SubSeq(s, 1, m) \in Seq(S) /\ Len(SubSeq(s, 1, m)) = m
  BY <1>1
<1>4. \A k \in 1..m : k \in 1..Len(s) /\ SubSeq(s, 1, m)[k] = s[k]
  BY <1>1
<1>5. m = IF Len(s) < n THEN Len(s) ELSE n
  BY DEF m
<1> QED
  BY <1>2, <1>3, <1>4, <1>5

(* The first n of a set of events, newest first: each once, no other event *)
(* is newer, and there are n of them unless there are all.                 *)
Top(S, n) == Take(NewestFirst(S), n)

LEMMA TopIs ==
    ASSUME NEW S \in SUBSET Events, NEW n \in Nat
    PROVE  LET t == Top(S, n) IN
           /\ t \in Seq(S) /\ Len(t) <= n
           /\ \A j, k \in 1..Len(t) : t[j] = t[k] => j = k
           /\ ToSet(t) \subseteq S
           /\ IsFiniteSet(ToSet(t)) /\ Cardinality(ToSet(t)) = Len(t)
           /\ \A x \in ToSet(t), y \in S \ ToSet(t) : Newer(x, y)
           /\ ToSet(t) # S => Len(t) = n
           /\ \A x \in ToSet(t) : Rank(S, x) < n
<1> DEFINE s == NewestFirst(S)  t == Top(S, n)
<1>1. /\ s \in Seq(S) /\ Len(s) = Cardinality(S) /\ Len(s) \in Nat
      /\ \A k \in 1..Len(s) : Rank(S, s[k]) = k - 1
      /\ \A e \in S : Rank(S, e) + 1 \in 1..Len(s) /\ s[Rank(S, e) + 1] = e
  BY NewestFirstIs
<1>2. /\ t \in Seq(S) /\ Len(t) = IF Len(s) < n THEN Len(s) ELSE n
      /\ \A k \in 1..Len(t) : k \in 1..Len(s) /\ t[k] = s[k]
  BY <1>1, TakeIs DEF Top
<1> HIDE DEF s, t
<1>3. Len(t) \in Nat /\ Len(t) <= n /\ Len(t) <= Len(s)
  BY <1>1, <1>2
<1>4. \A k \in 1..Len(t) : t[k] \in S /\ Rank(S, t[k]) = k - 1
  BY <1>1, <1>2
<1>5. \A j, k \in 1..Len(t) : t[j] = t[k] => j = k
  BY <1>3, <1>4
<1>6. DOMAIN t = 1..Len(t) /\ ToSet(t) = {t[k] : k \in 1..Len(t)}
  BY <1>2 DEF ToSet
<1>7. IsFiniteSet(ToSet(t)) /\ Cardinality(ToSet(t)) = Len(t)
  <2>1. t \in [1..Len(t) -> ToSet(t)] /\ IsFiniteSet(1..Len(t)) /\ Cardinality(1..Len(t)) = Len(t)
    BY <1>2, <1>3, <1>6, FS_Interval
  <2>2. t \in Surjection(1..Len(t), ToSet(t)) /\ t \in Injection(1..Len(t), ToSet(t))
    BY <1>5, <1>6, <2>1 DEF Surjection, Injection, IsInjective
  <2> QED
    BY <2>1, <2>2, FS_Surjection
<1>8. ASSUME NEW y \in S, y \notin ToSet(t) PROVE Rank(S, y) \in Nat /\ Rank(S, y) >= Len(t) /\ Len(t) = n
  <2>1. Rank(S, y) + 1 \in 1..Len(s) /\ s[Rank(S, y) + 1] = y /\ Rank(S, y) \in Int
    BY <1>1, RankOnto
  <2>2. Rank(S, y) + 1 \notin 1..Len(t)
    BY <1>2, <1>6, <1>8, <2>1
  <2> QED
    BY <1>1, <1>2, <1>3, <2>1, <2>2
<1>9. ASSUME NEW x \in ToSet(t), NEW y \in S \ ToSet(t) PROVE Newer(x, y)
  <2>1. PICK k \in 1..Len(t) : x = t[k]
    BY <1>6
  <2>2. x \in S /\ Rank(S, x) < Rank(S, y)
    BY <1>3, <1>4, <1>8, <2>1
  <2>3. ~Newer(y, x)
    <3>1. Newer(y, x) => Rank(S, y) < Rank(S, x)
      BY <2>2, RankOrder
    <3>2. Rank(S, x) \in Int /\ Rank(S, y) \in Int
      <4>1. \A e \in S : Rank(S, e) \in 0..(Cardinality(S) - 1)
        BY RankOnto
      <4> QED
        BY <2>2, <4>1
    <3> QED
      BY <2>2, <3>1, <3>2
  <2> QED
    BY <2>2, <2>3, NewerOrder
<1>10. ToSet(t) \subseteq S
  BY <1>4, <1>6
<1>11. ToSet(t) # S => Len(t) = n
  BY <1>8, <1>10
<1>12. ASSUME NEW x \in ToSet(t) PROVE Rank(S, x) < n
  <2>1. PICK k \in 1..Len(t) : x = t[k]
    BY <1>6
  <2> QED
    BY <1>3, <1>4, <2>1
<1> QED
  BY <1>2, <1>3, <1>5, <1>7, <1>9, <1>10, <1>11, <1>12 DEF t

-----------------------------------------------------------------------------
(* The channel. *)

LEMMA ChannelSizeType == ChannelSize \in Nat
<1>1. \A m, n \in Nat : m * n \in Nat
  OBVIOUS
<1>2. MaxSubscriptions \in Nat /\ MaxLimit + 5 \in Nat
  BY FeedAssumption
<1> QED
  BY <1>1, <1>2 DEF ChannelSize

(* What is sent comes after what is there, as far as there is room. *)
LEMMA SendIs ==
    ASSUME Shape, NEW msgs \in Seq(Messages), Send(msgs)
    PROVE  /\ out' \in Seq(Messages) /\ Len(out) <= Len(out')
           /\ \A n \in 1..Len(out) : out'[n] = out[n]
           /\ \A n \in 1..Len(out') : n \notin 1..Len(out) =>
                 n - Len(out) \in 1..Len(msgs) /\ out'[n] = msgs[n - Len(out)]
           /\ Room > 0 => msgs = <<>> \/ (Len(out) + 1 \in 1..Len(out') /\ out'[Len(out) + 1] = msgs[1])
           /\ unread' \in 0..ChannelSize /\ unread' <= Len(out')
<1> DEFINE s == Take(msgs, Room)
<1>1. ChannelSize \in Nat /\ unread \in 0..ChannelSize /\ unread <= Len(out) /\ out \in Seq(Messages)
  BY ChannelSizeType DEF Shape
<1>2. Room \in Nat /\ Room = ChannelSize - unread
  BY <1>1 DEF Room
<1>3. /\ s \in Seq(Messages) /\ Len(s) = IF Len(msgs) < Room THEN Len(msgs) ELSE Room
      /\ \A k \in 1..Len(s) : k \in 1..Len(msgs) /\ s[k] = msgs[k]
  BY <1>2, TakeIs
<1>4. out' = out \o s /\ unread' = unread + Len(s)
  BY DEF Send
<1> HIDE DEF s
<1>5. Len(out) \in Nat /\ Len(s) \in Nat /\ Len(msgs) \in Nat
  BY <1>1, <1>3
<1>6. out' \in Seq(Messages) /\ Len(out') = Len(out) + Len(s)
  <2> DEFINE o == out
  <2>1. o \in Seq(Messages) /\ s \in Seq(Messages)
    BY <1>1, <1>3
  <2>2. out' = o \o s
    BY <1>4
  <2> HIDE DEF o
  <2>3. o \o s \in Seq(Messages) /\ Len(o \o s) = Len(o) + Len(s)
    BY <2>1
  <2> QED
    BY <2>2, <2>3 DEF o
<1>7. ASSUME NEW n \in 1..Len(out) PROVE out'[n] = out[n]
  <2> DEFINE o == out
  <2>1. o \in Seq(Messages) /\ s \in Seq(Messages) /\ n \in 1..Len(o)
    BY <1>1, <1>3
  <2> HIDE DEF o
  <2>2. (o \o s)[n] = o[n]
    BY <2>1
  <2> QED
    BY <1>4, <2>2 DEF o
<1>8. ASSUME NEW n \in 1..Len(out'), n \notin 1..Len(out)
      PROVE  n - Len(out) \in 1..Len(msgs) /\ out'[n] = msgs[n - Len(out)]
  <2>1. n - Len(out) \in 1..Len(s)
    BY <1>5, <1>6, <1>8
  <2>2. out'[n] = s[n - Len(out)]
    BY <1>1, <1>3, <1>4, <1>5, <1>6, <1>8, <2>1
  <2> QED
    BY <1>3, <2>1, <2>2
<1>9. ASSUME Room > 0, msgs # <<>>
      PROVE  Len(out) + 1 \in 1..Len(out') /\ out'[Len(out) + 1] = msgs[1]
  <2>1. Len(msgs) > 0
    BY <1>9
  <2>2. Len(s) >= 1
    BY <1>2, <1>3, <1>5, <1>9, <2>1
  <2>3. Len(out) + 1 \in 1..Len(out') /\ Len(out) + 1 \notin 1..Len(out) /\ (Len(out) + 1) - Len(out) = 1
    BY <1>5, <1>6, <2>2
  <2> QED
    BY <1>8, <2>3
<1>10. unread' \in 0..ChannelSize /\ unread' <= Len(out')
  BY <1>1, <1>2, <1>3, <1>4, <1>5, <1>6
<1> QED
  BY <1>5, <1>6, <1>7, <1>8, <1>9, <1>10

-----------------------------------------------------------------------------
(* One turn of the loop over the pages. *)

Limited == Limit(req.filters)
Window == {e \in db : Matches(req.filters[req.i], e) /\ e.at <= req.until}
PageSet == ToSet(Top(Window, Limited))
Visible == {e \in PageSet \ sentEvents : e.visible}
Picks == Top(Visible, Limited - req.sent)
SentNow == req.sent + Len(Picks)
LastNow == OldestOf({e.at : e \in PageSet \ sentEvents} \cup ({req.last} \ {Never}))
Over == SentNow >= Limited \/ LastNow = Never \/ Attempt(req.attempts) >= MaxAttempts

LEMMA PageIs ==
    ASSUME Page
    PROVE  /\ req.pc = "query" /\ PageSet # {}
           /\ sentEvents' = sentEvents \cup ToSet(Picks)
           /\ Send([n \in DOMAIN Picks |-> Message("stored", Picks[n], req.i)])
           /\ Over => req' = NextFilter /\ edges' = edges
           /\ ~Over => /\ req' = [req EXCEPT !.until = NextWindow(LastNow), !.sent = SentNow,
                                             !.last = LastNow, !.attempts = Attempt(req.attempts)]
                       /\ edges' = [edges EXCEPT ![req.i] = @ \cup {LastNow}]
           /\ cut' = IF SentNow < Limited /\ LastNow # Never /\ Over THEN cut \cup {req.i} ELSE cut
           /\ UNCHANGED <<db, live, pub, requests, faults, before, missed>>
<1>1. /\ query(req.filters[req.i], req.until, Limit(req.filters)) = PageSet
      /\ Take(NewestFirst({e \in Fresh(PageSet) : e.visible}), Limit(req.filters) - req.sent) = Picks
      /\ OldestOf({e.at : e \in Fresh(PageSet)} \cup ({req.last} \ {Never})) = LastNow
      /\ Limit(req.filters) = Limited
  BY DEF query, Limited, Window, PageSet, Visible, Picks, LastNow, Fresh, Top
<1> DEFINE Turned(page, picks, sent, tries, last) ==
      LET over == sent >= Limit(req.filters) \/ last = Never \/ tries >= MaxAttempts IN
      /\ page # {}
      /\ sentEvents' = sentEvents \cup ToSet(picks)
      /\ Send([n \in DOMAIN picks |-> Message("stored", picks[n], req.i)])
      /\ req' = IF over THEN NextFilter
                ELSE [req EXCEPT !.until = NextWindow(last), !.sent = sent,
                                 !.last = last, !.attempts = tries]
      /\ edges' = IF over THEN edges ELSE [edges EXCEPT ![req.i] = @ \cup {last}]
      /\ cut' = IF sent < Limit(req.filters) /\ last # Never /\ over THEN cut \cup {req.i} ELSE cut
<1>2. \E page \in {query(req.filters[req.i], req.until, Limit(req.filters))} :
      \E picks \in {Take(NewestFirst({e \in Fresh(page) : e.visible}), Limit(req.filters) - req.sent)} :
      \E sent \in {req.sent + Len(picks)}, tries \in {Attempt(req.attempts)},
         last \in {OldestOf({e.at : e \in Fresh(page)} \cup ({req.last} \ {Never}))} :
         Turned(page, picks, sent, tries, last)
  BY DEF Page
<1>3. Turned(PageSet, Picks, SentNow, Attempt(req.attempts), LastNow)
  <2> HIDE DEF Turned
  <2> QED
    BY <1>1, <1>2 DEF SentNow
<1> QED
  BY <1>1, <1>3 DEF Page, Over

LEMMA LastPageIs ==
    ASSUME LastPage
    PROVE  req.pc = "query" /\ PageSet = {} /\ req' = NextFilter
  BY DEF LastPage, query, Limited, Window, PageSet, Top

(* What a page is made of. *)
LEMMA PageFacts ==
    ASSUME FeedInv, req.pc = "query"
    PROVE  /\ req.filters \in FilterLists /\ Limited \in 1..MaxLimit
           /\ req.i \in DOMAIN req.filters /\ req.sent < Limited
           /\ Window \subseteq Events /\ PageSet \subseteq Window /\ IsFiniteSet(PageSet)
           /\ Visible \subseteq PageSet /\ Visible \subseteq Events
           /\ \A x \in PageSet, y \in Window \ PageSet : Newer(x, y)
           /\ PageSet # Window => Cardinality(PageSet) = Limited
           /\ Picks \in Seq(Events) /\ Len(Picks) \in 0..(Limited - req.sent)
           /\ \A j, k \in 1..Len(Picks) : Picks[j] = Picks[k] => j = k
           /\ ToSet(Picks) \subseteq Visible /\ IsFiniteSet(ToSet(Picks))
           /\ Cardinality(ToSet(Picks)) = Len(Picks)
           /\ \A x \in ToSet(Picks), y \in Visible \ ToSet(Picks) : Newer(x, y)
           /\ ToSet(Picks) # Visible => Len(Picks) = Limited - req.sent
           /\ SentNow \in 0..Limited
<1>1. Shape /\ Paging /\ req \in Requests /\ req.filters # <<>>
  BY DEF FeedInv, Shape, Progress
<1>2. req.filters \in FilterLists
  BY <1>1 DEF Requests
<1>3. Limited \in 1..MaxLimit /\ MaxLimit \in Nat /\ req.sent \in Nat /\ req.sent < Limited
  BY <1>1, <1>2, LimitType, FeedAssumption DEF Limited, Requests, Paging
<1>4. req.i \in DOMAIN req.filters
  BY <1>1, <1>2, FeedAssumption DEF Shape
<1>5. Window \subseteq Events
  BY <1>1 DEF Shape, Window
<1>6. /\ PageSet \subseteq Window /\ IsFiniteSet(PageSet)
      /\ \A x \in PageSet, y \in Window \ PageSet : Newer(x, y)
      /\ PageSet # Window => Cardinality(PageSet) = Limited
  <2> DEFINE t == Top(Window, Limited)
  <2>1. Limited \in Nat
    BY <1>3
  <2>2. /\ Len(t) <= Limited /\ ToSet(t) \subseteq Window
        /\ IsFiniteSet(ToSet(t)) /\ Cardinality(ToSet(t)) = Len(t)
        /\ \A x \in ToSet(t), y \in Window \ ToSet(t) : Newer(x, y)
        /\ ToSet(t) # Window => Len(t) = Limited
    BY <1>5, <2>1, TopIs
  <2>3. PageSet = ToSet(t)
    BY DEF PageSet
  <2> HIDE DEF t
  <2> QED
    BY <2>2, <2>3
<1>7. Visible \subseteq PageSet /\ Visible \subseteq Events
  BY <1>5, <1>6 DEF Visible
<1>8. Limited - req.sent \in Nat
  BY <1>3
<1>9. /\ Picks \in Seq(Visible) /\ Len(Picks) <= Limited - req.sent
      /\ \A j, k \in 1..Len(Picks) : Picks[j] = Picks[k] => j = k
      /\ ToSet(Picks) \subseteq Visible /\ IsFiniteSet(ToSet(Picks))
      /\ Cardinality(ToSet(Picks)) = Len(Picks)
      /\ \A x \in ToSet(Picks), y \in Visible \ ToSet(Picks) : Newer(x, y)
      /\ ToSet(Picks) # Visible => Len(Picks) = Limited - req.sent
  <2> DEFINE n == Limited - req.sent  t == Top(Visible, n)
  <2>1. n \in Nat
    BY <1>8
  <2> HIDE DEF n
  <2>2. /\ t \in Seq(Visible) /\ Len(t) <= n
        /\ \A j, k \in 1..Len(t) : t[j] = t[k] => j = k
        /\ ToSet(t) \subseteq Visible
        /\ IsFiniteSet(ToSet(t)) /\ Cardinality(ToSet(t)) = Len(t)
        /\ \A x \in ToSet(t), y \in Visible \ ToSet(t) : Newer(x, y)
        /\ ToSet(t) # Visible => Len(t) = n
    BY <1>7, <2>1, TopIs
  <2>3. Picks = t
    BY DEF Picks, n
  <2> HIDE DEF t
  <2> QED
    BY <2>2, <2>3 DEF n
<1>10. Picks \in Seq(Events) /\ Len(Picks) \in 0..(Limited - req.sent)
  BY <1>7, <1>8, <1>9
<1>11. SentNow \in 0..Limited
  BY <1>3, <1>10 DEF SentNow
<1> QED
  BY <1>2, <1>3, <1>4, <1>5, <1>6, <1>7, <1>9, <1>10, <1>11

(* The times of the page that were not seen before, and the last of them.  *)
LEMMA LastFacts ==
    ASSUME FeedInv, req.pc = "query"
    PROVE  /\ LastNow = Never => PageSet \subseteq sentEvents /\ req.last = Never
           /\ LastNow # Never =>
                 /\ LastNow \in Nat
                 /\ \A e \in PageSet \ sentEvents : LastNow <= e.at
                 /\ req.last # Never => LastNow <= req.last
                 /\ LastNow = req.last \/ \E e \in PageSet \ sentEvents : LastNow = e.at
<1> DEFINE T == {e.at : e \in PageSet \ sentEvents} \cup ({req.last} \ {Never})
<1>1. PageSet \subseteq Events
  BY PageFacts
<1>2. req.last \in Nat \cup {Never}
  BY DEF FeedInv, Shape, Requests
<1>3. T \in SUBSET Nat
  BY <1>1, <1>2, FeedAssumption
<1>4. LastNow = OldestOf(T)
  BY DEF LastNow
<1>5. /\ T = {} => LastNow = Never
      /\ T # {} => LastNow \in T /\ LastNow # Never /\ \A t \in T : LastNow <= t
  BY <1>3, <1>4, OldestOfIs
<1>6. (\A e \in PageSet \ sentEvents : e.at \in T) /\ (req.last # Never => req.last \in T)
  OBVIOUS
<1>7. CASE T = {}
  BY <1>5, <1>6, <1>7
<1>8. CASE T # {}
  <2>1. LastNow \in T /\ LastNow \in Nat
    BY <1>3, <1>5, <1>8
  <2>2. LastNow = req.last \/ \E e \in PageSet \ sentEvents : LastNow = e.at
    BY <2>1
  <2> HIDE DEF T
  <2> QED
    BY <1>5, <1>6, <1>8, <2>1, <2>2
<1> QED
  BY <1>7, <1>8

-----------------------------------------------------------------------------
(* Types. *)

LEMMA IdleType ==
    /\ Idle \in Requests /\ Idle.pc = "idle" /\ Idle.filters = <<>>
    /\ Idle.until = Now /\ Idle.last = Never /\ Idle.sent = 0 /\ Idle.i = 1
  BY NowLatest, FeedAssumption DEF Idle, Requests

LEMMA NextFilterType ==
    ASSUME Shape, req.pc = "query"
    PROVE  /\ NextFilter \in Requests /\ NextFilter.filters = req.filters
           /\ NextFilter.i \in 1..Len(req.filters)
           /\ \/ /\ NextFilter.pc = "query" /\ NextFilter.i = req.i + 1
                 /\ NextFilter.until = Now /\ NextFilter.last = Never /\ NextFilter.sent = 0
              \/ NextFilter.pc = "eose" /\ NextFilter.i = req.i /\ req.i = Len(req.filters)
<1>1. req \in Requests /\ req.filters \in FilterLists /\ req.i \in 1..Len(req.filters)
  BY DEF Shape, Requests
<1>2. Len(req.filters) \in Nat
  BY <1>1, FeedAssumption
<1>3. CASE req.i < Len(req.filters)
  <2>1. NextFilter = [pc |-> "query", filters |-> req.filters, i |-> req.i + 1, until |-> Now,
                      sent |-> 0, last |-> Never, attempts |-> 0]
    BY <1>3 DEF NextFilter, Idle
  <2>2. req.i + 1 \in Nat \ {0} /\ req.i + 1 \in 1..Len(req.filters)
    BY <1>1, <1>2, <1>3
  <2>3. 0 \in 0..MaxLimit /\ 0 \in 0..MaxAttempts
    BY FeedAssumption
  <2> QED
    BY <1>1, <2>1, <2>2, <2>3, NowLatest DEF Requests
<1>4. CASE ~(req.i < Len(req.filters))
  <2>1. NextFilter = [req EXCEPT !.pc = "eose"]
    BY <1>4 DEF NextFilter
  <2>2. req.i = Len(req.filters)
    BY <1>1, <1>2, <1>4
  <2> QED
    BY <1>1, <2>1, <2>2 DEF Requests
<1> QED
  BY <1>3, <1>4

LEMMA MessageType ==
    ASSUME Shape, NEW kind \in {"stored", "eose", "live"}, NEW e \in Events \cup {Never},
           NEW i \in Nat \cup {Never}
    PROVE  Message(kind, e, i) \in Messages
  BY DEF Shape, Message, Messages

(* The messages of a page. *)
LEMMA PicksSent ==
    ASSUME FeedInv, req.pc = "query"
    PROVE  LET msgs == [n \in DOMAIN Picks |-> Message("stored", Picks[n], req.i)] IN
           /\ msgs \in Seq(Messages) /\ Len(msgs) = Len(Picks)
           /\ \A n \in 1..Len(Picks) :
                 /\ msgs[n].src = "stored" /\ msgs[n].event = Picks[n] /\ msgs[n].nr = requests
                 /\ Picks[n] \in ToSet(Picks)
<1> DEFINE msgs == [n \in DOMAIN Picks |-> Message("stored", Picks[n], req.i)]
<1>1. Shape /\ req.i \in Nat
  BY DEF FeedInv, Shape, Requests
<1>2. Picks \in Seq(Events) /\ DOMAIN Picks = 1..Len(Picks) /\ Len(Picks) \in Nat
  BY PageFacts
<1>3. \A n \in 1..Len(Picks) : msgs[n] \in Messages
  BY <1>1, <1>2, MessageType
<1>4. msgs \in [1..Len(Picks) -> Messages]
  BY <1>2, <1>3
<1>5. msgs \in Seq(Messages) /\ Len(msgs) = Len(Picks)
  <2> HIDE DEF msgs
  <2> QED
    BY <1>2, <1>4
<1>6. \A n \in 1..Len(Picks) :
         msgs[n].src = "stored" /\ msgs[n].event = Picks[n] /\ msgs[n].nr = requests
  BY <1>2 DEF Message
<1>7. \A n \in 1..Len(Picks) : Picks[n] \in ToSet(Picks)
  BY <1>2 DEF ToSet
<1> QED
  BY <1>5, <1>6, <1>7

LEMMA PageShape ==
    ASSUME FeedInv, Page
    PROVE  Shape'
<1>0. Shape /\ req.pc = "query" /\ req \in Requests /\ req.filters \in FilterLists
  BY PageIs, PageFacts DEF FeedInv, Shape
<1>1. out' \in Seq(Messages) /\ unread' \in 0..ChannelSize /\ unread' <= Len(out')
  <2> DEFINE msgs == [n \in DOMAIN Picks |-> Message("stored", Picks[n], req.i)]
  <2>1. msgs \in Seq(Messages) /\ Send(msgs)
    BY <1>0, PageIs, PicksSent
  <2> HIDE DEF msgs
  <2> QED
    BY <1>0, <2>1, SendIs
<1>2. sentEvents' \subseteq db /\ \A e \in sentEvents' : e.visible
  <2>1. ToSet(Picks) \subseteq Visible /\ Visible \subseteq PageSet /\ PageSet \subseteq Window
    BY <1>0, PageFacts
  <2>2. Window \subseteq db /\ \A e \in Visible : e.visible
    BY DEF Window, Visible
  <2> QED
    BY <1>0, <2>1, <2>2, PageIs DEF Shape
<1>3. req' \in Requests /\ req'.filters = req.filters /\ req'.pc # "idle"
      /\ req'.i \in 1..Len(req.filters)
  <2>1. CASE Over
    BY <1>0, <2>1, PageIs, NextFilterType
  <2>2. CASE ~Over
    <3>1. req' = [req EXCEPT !.until = NextWindow(LastNow), !.sent = SentNow,
                             !.last = LastNow, !.attempts = Attempt(req.attempts)]
      BY <2>2, PageIs
    <3>2. LastNow \in Nat /\ NextWindow(LastNow) \in Nat
      <4>1. LastNow # Never
        BY <2>2 DEF Over
      <4>2. LastNow \in Nat
        BY <1>0, <4>1, LastFacts
      <4> QED
        BY <4>2, NextWindowIs
    <3>3. SentNow \in 0..MaxLimit
      BY <1>0, PageFacts, FeedAssumption
    <3>4. Attempt(req.attempts) \in 0..MaxAttempts
      BY <1>0, <2>2, FeedAssumption DEF Over, Attempt, Requests
    <3>5. req.i \in 1..Len(req.filters)
      BY <1>0 DEF Shape
    <3> QED
      BY <1>0, <3>1, <3>2, <3>3, <3>4, <3>5 DEF Requests
  <2> QED
    BY <2>1, <2>2
<1>4. UNCHANGED <<db, live, pub, requests, faults, before, missed>>
  BY PageIs
<1>5. req.filters # <<>> /\ ChannelSize' = ChannelSize
  BY <1>0 DEF Shape, ChannelSize
<1> QED
  BY <1>0, <1>1, <1>2, <1>3, <1>4, <1>5 DEF Shape

LEMMA ShapeStep ==
    ASSUME FeedInv, [Next]_feedVars
    PROVE  Shape'
<1>0. Shape /\ req \in Requests /\ Len(out) \in Nat /\ ChannelSize \in Nat
  BY ChannelSizeType DEF FeedInv, Shape
<1>1. CASE HandleReq
  <2>1. PICK fs \in FilterLists : req' = [Idle EXCEPT !.pc = "query", !.filters = fs]
    BY <1>1 DEF HandleReq
  <2>2. fs # <<>> /\ Len(fs) \in Nat
    BY FeedAssumption
  <2>3. 1 \in 1..Len(fs)
    BY <2>2, FeedAssumption
  <2>4. req' \in Requests /\ req'.filters = fs /\ req'.i = 1
    BY <2>1, IdleType DEF Requests
  <2>5. requests' \in 0..MaxRequests
    BY <1>0, <1>1, FeedAssumption DEF Shape, HandleReq
  <2> QED
    BY <1>0, <1>1, <2>2, <2>3, <2>4, <2>5 DEF Shape, HandleReq
<1>2. CASE Page
  BY <1>2, PageShape
<1>3. CASE LastPage
  <2>1. req.pc = "query" /\ req' = NextFilter
    BY <1>3, LastPageIs
  <2>2. req' \in Requests /\ req'.filters = req.filters /\ req'.i \in 1..Len(req.filters)
    BY <1>0, <2>1, NextFilterType
  <2> QED
    BY <1>0, <1>3, <2>1, <2>2 DEF Shape, LastPage, history
<1>4. CASE QueryFails
  <2>1. req.pc = "query" /\ (req' = NextFilter \/ req' = Idle)
    BY <1>4 DEF QueryFails
  <2>2. req' \in Requests
        /\ (req'.pc # "idle" => req'.filters = req.filters /\ req'.i \in 1..Len(req.filters))
    BY <1>0, <2>1, NextFilterType, IdleType
  <2>3. faults' \in 0..MaxFaults
    BY <1>0, <1>4, FeedAssumption DEF Shape, QueryFails
  <2> QED
    BY <1>0, <1>4, <2>1, <2>2, <2>3 DEF Shape, QueryFails
<1>5. CASE Eose
  <2> DEFINE msgs == <<Message("eose", Never, Never)>>
  <2>1. msgs \in Seq(Messages) /\ Send(msgs)
    BY <1>0, <1>5, MessageType DEF Eose
  <2>2. out' \in Seq(Messages) /\ unread' \in 0..ChannelSize /\ unread' <= Len(out')
    <3> HIDE DEF msgs
    <3> QED
      BY <1>0, <2>1, SendIs
  <2>3. req' \in Requests
        /\ (req'.pc # "idle" => req'.filters = req.filters /\ req'.i = req.i)
    BY <1>0, <1>5, IdleType DEF Eose, Requests
  <2>4. req.pc # "idle" /\ UNCHANGED <<db, sentEvents, live, pub, requests, faults, before, missed>>
    BY <1>5 DEF Eose, history
  <2> QED
    BY <1>0, <2>2, <2>3, <2>4 DEF Shape
<1>6. CASE RemoveOld
  <2>1. req' \in Requests /\ req'.filters = req.filters /\ req'.i = req.i /\ req.pc # "idle"
    BY <1>0, <1>6 DEF RemoveOld, Requests
  <2> QED
    BY <1>0, <1>6, <2>1 DEF Shape, RemoveOld, history
<1>7. CASE AddNew
  <2>1. req' \in Requests /\ req'.filters = req.filters /\ req'.pc = "idle" /\ req.pc # "idle"
    BY <1>0, <1>7 DEF AddNew, Requests
  <2>2. live' \in FilterLists \cup {<<>>}
    BY <1>0, <1>7 DEF AddNew, Requests
  <2> QED
    BY <1>0, <1>7, <2>1, <2>2 DEF Shape, AddNew, history
<1>8. CASE Write
  <2>1. unread' \in 0..ChannelSize /\ unread' <= Len(out)
    BY <1>0, <1>8 DEF Shape, Write
  <2> QED
    BY <1>0, <1>8, <2>1 DEF Shape, Write, history
<1>9. ASSUME NEW p \in Publishers, SaveEvent(p) PROVE Shape'
  <2>1. PICK e \in Events \ db : /\ db' = db \cup {e}
                                /\ pub' = [pub EXCEPT ![p] = [pc |-> "saved", event |-> e]]
    BY <1>9 DEF SaveEvent
  <2>2. /\ DOMAIN pub' = Publishers
        /\ \A q \in Publishers : pub'[q].pc \in {"idle", "saved"}
        /\ \A q \in Publishers : pub'[q].pc = "saved" => pub'[q].event \in db'
    BY <1>0, <2>1 DEF Shape
  <2> QED
    BY <1>0, <1>9, <2>1, <2>2 DEF Shape, SaveEvent, history
<1>10. ASSUME NEW p \in Publishers, Distribute(p) PROVE Shape'
  <2> DEFINE e == pub[p].event
             msgs == <<Message("live", e, Never)>>
  <2>1. e \in db /\ e \in Events
    BY <1>0, <1>10 DEF Shape, Distribute
  <2>2. out' \in Seq(Messages) /\ unread' \in 0..ChannelSize /\ unread' <= Len(out')
    <3>1. CASE Send(msgs)
      <4>1. msgs \in Seq(Messages)
        <5>1. Message("live", e, Never) \in Messages
          BY <1>0, <2>1, MessageType
        <5> QED
          BY <5>1
      <4> HIDE DEF msgs
      <4> QED
        BY <1>0, <3>1, <4>1, SendIs
    <3>2. CASE UNCHANGED <<out, unread>>
      BY <1>0, <3>2 DEF Shape
    <3> QED
      BY <1>10, <3>1, <3>2 DEF Distribute
  <2>3. /\ DOMAIN pub' = Publishers
        /\ \A q \in Publishers : pub'[q].pc \in {"idle", "saved"}
        /\ \A q \in Publishers : pub'[q].pc = "saved" => pub'[q].event \in db
    BY <1>0, <1>10 DEF Shape, Distribute
  <2>4. missed' \subseteq db
    BY <1>0, <1>10, <2>1 DEF Shape, Distribute
  <2>5. UNCHANGED <<db, req, sentEvents, live, requests, faults, before>>
    BY <1>10 DEF Distribute
  <2> QED
    BY <1>0, <2>2, <2>3, <2>4, <2>5 DEF Shape
<1>11. CASE UNCHANGED feedVars
  BY <1>0, <1>11 DEF Shape, feedVars
<1> QED
  BY <1>1, <1>2, <1>3, <1>4, <1>5, <1>6, <1>7, <1>8, <1>9, <1>10, <1>11 DEF Next

-----------------------------------------------------------------------------
(* StoredOnce. *)

(* What does not answer the request from the database changes nothing. *)
LEMMA OthersRecorded ==
    ASSUME FeedInv, out' \in Seq(Messages), Len(out) <= Len(out'),
           requests' = requests \/ (requests' = requests + 1 /\ out' = out),
           requests' = requests => sentEvents' = sentEvents,
           \A n \in 1..Len(out) : out'[n] = out[n],
           \A n \in 1..Len(out') :
              n \notin 1..Len(out) => out'[n].src # "stored" /\ out'[n].nr = requests
    PROVE  AnswerRecorded' /\ StoredOnce'
<1>1. out \in Seq(Messages) /\ requests \in Nat /\ Len(out) \in Nat /\ Len(out') \in Nat
  BY DEF FeedInv, Shape
<1>2. DOMAIN out = 1..Len(out) /\ DOMAIN out' = 1..Len(out')
  BY <1>1
<1>3. ASSUME NEW n \in 1..Len(out) PROVE out[n].nr \in Nat /\ n \in 1..Len(out')
  <2>1. out[n] \in Messages /\ n \in 1..Len(out')
    BY <1>1
  <2> QED
    BY <2>1, FeedAssumption DEF Messages
<1>4. AnswerRecorded'
  <2> SUFFICES ASSUME NEW n \in 1..Len(out')
               PROVE  /\ out'[n].nr <= requests'
                      /\ out'[n].src = "stored" /\ out'[n].nr = requests' => out'[n].event \in sentEvents'
    BY DEF AnswerRecorded
  <2>1. CASE n \in 1..Len(out)
    <3>1. /\ out'[n] = out[n] /\ out[n].nr <= requests /\ out[n].nr \in Nat
          /\ out[n].src = "stored" /\ out[n].nr = requests => out[n].event \in sentEvents
      BY <2>1, <1>3 DEF FeedInv, AnswerRecorded
    <3> QED
      BY <1>1, <3>1
  <2>2. CASE n \notin 1..Len(out)
    <3>1. requests' = requests
      BY <2>2
    <3> QED
      BY <1>1, <2>2, <3>1
  <2> QED
    BY <2>1, <2>2
<1>5. StoredOnce'
  <2> SUFFICES ASSUME NEW m \in 1..Len(out'), NEW n \in 1..Len(out'),
                      m # n, out'[m].src = "stored", out'[n].src = "stored", out'[m].nr = out'[n].nr
               PROVE  out'[m].event # out'[n].event
    BY <1>2 DEF StoredOnce
  <2>1. m \in 1..Len(out) /\ n \in 1..Len(out)
    OBVIOUS
  <2>2. out'[m] = out[m] /\ out'[n] = out[n]
    BY <2>1
  <2> QED
    BY <1>2, <2>1, <2>2 DEF FeedInv, StoredOnce
<1> QED
  BY <1>4, <1>5

LEMMA PageRecorded ==
    ASSUME FeedInv, Page
    PROVE  AnswerRecorded' /\ StoredOnce'
<1> DEFINE msgs == [n \in DOMAIN Picks |-> Message("stored", Picks[n], req.i)]
<1>1. Shape /\ req.pc = "query" /\ requests' = requests /\ sentEvents' = sentEvents \cup ToSet(Picks)
  BY PageIs DEF FeedInv
<1>2. /\ msgs \in Seq(Messages) /\ Len(msgs) = Len(Picks)
      /\ \A n \in 1..Len(Picks) :
            /\ msgs[n].src = "stored" /\ msgs[n].event = Picks[n] /\ msgs[n].nr = requests
            /\ Picks[n] \in ToSet(Picks)
  BY <1>1, PicksSent
<1>3. Send(msgs)
  BY PageIs
<1> HIDE DEF msgs
<1>4. /\ out' \in Seq(Messages) /\ Len(out) <= Len(out')
      /\ \A n \in 1..Len(out) : out'[n] = out[n]
      /\ \A n \in 1..Len(out') : n \notin 1..Len(out) =>
            n - Len(out) \in 1..Len(msgs) /\ out'[n] = msgs[n - Len(out)]
  BY <1>1, <1>2, <1>3, SendIs
<1>5. \A n \in 1..Len(out') : n \notin 1..Len(out) =>
         /\ n - Len(out) \in 1..Len(Picks)
         /\ out'[n].src = "stored" /\ out'[n].event = Picks[n - Len(out)] /\ out'[n].nr = requests
         /\ out'[n].event \in ToSet(Picks)
  BY <1>2, <1>4
<1>6. /\ \A j, k \in 1..Len(Picks) : Picks[j] = Picks[k] => j = k
      /\ ToSet(Picks) \cap sentEvents = {}
  BY <1>1, PageFacts DEF Visible
<1>7. out \in Seq(Messages) /\ requests \in Nat /\ Len(out) \in Nat /\ Len(out') \in Nat
  BY <1>1, <1>4 DEF Shape
<1>8. DOMAIN out = 1..Len(out) /\ DOMAIN out' = 1..Len(out')
  BY <1>1, <1>4 DEF Shape
<1>9. AnswerRecorded'
  <2> SUFFICES ASSUME NEW n \in 1..Len(out')
               PROVE  /\ out'[n].nr <= requests'
                      /\ out'[n].src = "stored" /\ out'[n].nr = requests' => out'[n].event \in sentEvents'
    BY DEF AnswerRecorded
  <2>1. CASE n \in 1..Len(out)
    BY <1>1, <1>4, <2>1 DEF FeedInv, AnswerRecorded
  <2>2. CASE n \notin 1..Len(out)
    BY <1>1, <1>5, <1>7, <2>2
  <2> QED
    BY <2>1, <2>2
<1>10. ASSUME NEW m \in 1..Len(out'), NEW n \in 1..Len(out'), m \in 1..Len(out), n \notin 1..Len(out),
              out'[m].src = "stored", out'[m].nr = out'[n].nr
       PROVE  out'[m].event # out'[n].event
  <2>1. out'[m] = out[m] /\ out[m].src = "stored" /\ out[m].nr = requests
    BY <1>4, <1>5, <1>10
  <2>2. out[m].event \in sentEvents
    BY <1>10, <2>1 DEF FeedInv, AnswerRecorded
  <2>3. out'[n].event \in ToSet(Picks)
    BY <1>5, <1>10
  <2> QED
    BY <1>6, <2>1, <2>2, <2>3
<1>11. StoredOnce'
  <2> SUFFICES ASSUME NEW m \in 1..Len(out'), NEW n \in 1..Len(out'),
                      m # n, out'[m].src = "stored", out'[n].src = "stored", out'[m].nr = out'[n].nr
               PROVE  out'[m].event # out'[n].event
    BY <1>8 DEF StoredOnce
  <2>1. CASE m \in 1..Len(out) /\ n \in 1..Len(out)
    BY <1>4, <1>8, <2>1 DEF FeedInv, StoredOnce
  <2>2. CASE m \in 1..Len(out) /\ n \notin 1..Len(out)
    BY <1>10, <2>2
  <2>3. CASE m \notin 1..Len(out) /\ n \in 1..Len(out)
    BY <1>10, <2>3
  <2>4. CASE m \notin 1..Len(out) /\ n \notin 1..Len(out)
    <3>1. m - Len(out) # n - Len(out)
      BY <1>7
    <3> QED
      BY <1>5, <1>6, <2>4, <3>1
  <2> QED
    BY <2>1, <2>2, <2>3, <2>4
<1> QED
  BY <1>9, <1>11

LEMMA RecordedStep ==
    ASSUME FeedInv, [Next]_feedVars
    PROVE  AnswerRecorded' /\ StoredOnce'
<1>0. Shape /\ out \in Seq(Messages) /\ Len(out) \in Nat /\ requests \in Nat
  BY DEF FeedInv, Shape
<1>1. CASE out' = out /\ requests' = requests /\ sentEvents' = sentEvents
  BY <1>0, <1>1, OthersRecorded
<1>2. CASE HandleReq
  <2>1. out' = out /\ requests' = requests + 1 /\ requests' # requests
    BY <1>0, <1>2 DEF HandleReq
  <2> QED
    BY <1>0, <2>1, OthersRecorded
<1>3. CASE Page
  BY <1>3, PageRecorded
<1>4. ASSUME NEW kind \in {"eose", "live"}, NEW e \in Events \cup {Never},
             Send(<<Message(kind, e, Never)>>), requests' = requests, sentEvents' = sentEvents
      PROVE  AnswerRecorded' /\ StoredOnce'
  <2> DEFINE msgs == <<Message(kind, e, Never)>>
  <2>1. Message(kind, e, Never) \in Messages
    BY <1>0, MessageType
  <2>2. msgs \in Seq(Messages) /\ Len(msgs) = 1 /\ Send(msgs)
    BY <1>4, <2>1
  <2>3. msgs[1].src # "stored" /\ msgs[1].nr = requests
    BY DEF Message
  <2> HIDE DEF msgs
  <2>4. /\ out' \in Seq(Messages) /\ Len(out) <= Len(out')
        /\ \A n \in 1..Len(out) : out'[n] = out[n]
        /\ \A n \in 1..Len(out') : n \notin 1..Len(out) =>
              n - Len(out) \in 1..1 /\ out'[n] = msgs[n - Len(out)]
    BY <1>0, <2>2, SendIs
  <2>5. \A n \in 1..Len(out') : n \notin 1..Len(out) => out'[n] = msgs[1]
    BY <2>4
  <2> QED
    BY <1>4, <2>3, <2>4, <2>5, OthersRecorded
<1>5. CASE Eose
  BY <1>4, <1>5 DEF Eose
<1>6. ASSUME NEW p \in Publishers, Distribute(p) PROVE AnswerRecorded' /\ StoredOnce'
  <2>1. pub[p].event \in Events /\ requests' = requests /\ sentEvents' = sentEvents
    BY <1>0, <1>6 DEF Shape, Distribute
  <2>2. CASE Send(<<Message("live", pub[p].event, Never)>>)
    BY <1>4, <2>1, <2>2
  <2>3. CASE UNCHANGED <<out, unread>>
    BY <1>1, <2>1, <2>3
  <2> QED
    BY <1>6, <2>2, <2>3 DEF Distribute
<1>7. CASE LastPage \/ QueryFails \/ RemoveOld \/ AddNew \/ Write
  BY <1>1, <1>7 DEF LastPage, QueryFails, RemoveOld, AddNew, Write
<1>8. ASSUME NEW p \in Publishers, SaveEvent(p) PROVE AnswerRecorded' /\ StoredOnce'
  BY <1>1, <1>8 DEF SaveEvent
<1>9. CASE UNCHANGED feedVars
  BY <1>1, <1>9 DEF feedVars
<1> QED
  BY <1>2, <1>3, <1>5, <1>6, <1>7, <1>8, <1>9 DEF Next

-----------------------------------------------------------------------------
(* LostOnlyInGap. *)

LEMMA SentLiveStays ==
    ASSUME Shape, out' \in Seq(Messages), Len(out) <= Len(out'), requests' = requests,
           \A n \in 1..Len(out) : out'[n] = out[n]
    PROVE  \A e : SentLive(e) => SentLive(e)'
<1>1. Len(out) \in Nat /\ Len(out') \in Nat
  BY DEF Shape
<1>2. \A n \in 1..Len(out) : n \in 1..Len(out')
  BY <1>1
<1> QED
  BY <1>2 DEF SentLive

LEMMA DistributeAccounted ==
    ASSUME FeedInv, NEW p \in Publishers, Distribute(p)
    PROVE  Accounted'
<1> DEFINE e == pub[p].event
           msgs == <<Message("live", e, Never)>>
<1>1. /\ Shape /\ Accounted /\ out \in Seq(Messages) /\ Len(out) \in Nat
      /\ pub[p].pc = "saved" /\ e \in Events /\ DOMAIN pub = Publishers
  BY DEF FeedInv, Shape, Distribute
<1>2. /\ UNCHANGED <<db, req, sentEvents, live, requests, faults, before, edges, cut>>
      /\ missed' = IF InForce /\ Room > 0 THEN missed ELSE missed \cup {e}
      /\ pub' = [pub EXCEPT ![p] = [pc |-> "idle"]]
      /\ IF MatchesAny(live, e) /\ e.visible THEN Send(msgs) ELSE UNCHANGED <<out, unread>>
  BY DEF Distribute
<1>3. /\ msgs \in Seq(Messages) /\ msgs # <<>> /\ msgs[1] = Message("live", e, Never)
  <2>1. Message("live", e, Never) \in Messages
    BY <1>1, MessageType
  <2> QED
    BY <2>1
<1> HIDE DEF msgs
<1>4. /\ out' \in Seq(Messages) /\ Len(out) <= Len(out')
      /\ \A n \in 1..Len(out) : out'[n] = out[n]
  <2>1. CASE Send(msgs)
    BY <1>1, <1>3, <2>1, SendIs
  <2>2. CASE UNCHANGED <<out, unread>>
    BY <1>1, <2>2
  <2> QED
    BY <1>2, <2>1, <2>2
<1>5. \A x : SentLive(x) => SentLive(x)'
  BY <1>1, <1>2, <1>4, SentLiveStays
<1>6. \A x : Pending(x) /\ x # e => Pending(x)'
  BY <1>1, <1>2 DEF Pending
<1>7. (InForce' <=> InForce) /\ (InForce' => live' = req'.filters)
  BY <1>1, <1>2 DEF InForce, Accounted
<1>8. ASSUME req.filters # <<>>, NEW x \in db \ (before \cup missed')
      PROVE  \/ Pending(x)'
             \/ InForce /\ (x.visible /\ MatchesAny(req.filters, x) => SentLive(x)')
  <2>1. x \in db \ (before \cup missed)
    BY <1>2, <1>8
  <2>2. Pending(x) \/ (InForce /\ (x.visible /\ MatchesAny(req.filters, x) => SentLive(x)))
    BY <1>1, <1>8, <2>1 DEF Accounted
  <2>3. CASE x # e
    BY <1>5, <1>6, <2>2, <2>3
  <2>4. CASE x = e
    <3>1. InForce /\ Room > 0 /\ live = req.filters
      BY <1>1, <1>2, <1>8, <2>4 DEF Accounted
    <3>2. ASSUME x.visible, MatchesAny(req.filters, x) PROVE SentLive(x)'
      <4>1. Send(msgs)
        BY <1>2, <2>4, <3>1, <3>2
      <4>2. Len(out) + 1 \in 1..Len(out') /\ out'[Len(out) + 1] = Message("live", e, Never)
        BY <1>1, <1>3, <3>1, <4>1, SendIs
      <4>3. out'[Len(out) + 1].nr = requests /\ out'[Len(out) + 1].src = "live"
            /\ out'[Len(out) + 1].event = x
        BY <4>2, <2>4 DEF Message
      <4> QED
        BY <1>2, <4>2, <4>3 DEF SentLive
    <3> QED
      BY <3>1, <3>2
  <2> QED
    BY <2>3, <2>4
<1>9. \A x : MatchesAny(req.filters, x)' <=> MatchesAny(req.filters, x)
  BY <1>2 DEF MatchesAny, Matches
<1> QED
  BY <1>2, <1>7, <1>8, <1>9 DEF Accounted

LEMMA AccountedStep ==
    ASSUME FeedInv, [Next]_feedVars
    PROVE  Accounted'
<1>0. Shape /\ Accounted /\ out \in Seq(Messages)
  BY DEF FeedInv, Shape
<1>1. ASSUME req.pc # "idle", UNCHANGED <<db, pub, before, missed>>,
             req'.pc # "idle" \/ req'.filters = <<>>
      PROVE  Accounted'
  <2>1. ~InForce /\ ~InForce' /\ req.filters # <<>>
    BY <1>0, <1>1 DEF InForce, Shape
  <2>2. \A e \in db \ (before \cup missed) : Pending(e)
    BY <1>0, <2>1 DEF Accounted
  <2>3. \A e : Pending(e)' <=> Pending(e)
    BY <1>1 DEF Pending
  <2> QED
    BY <1>1, <2>1, <2>2, <2>3 DEF Accounted
<1>2. CASE HandleReq
  <2>1. before' = db' /\ req'.pc = "query"
    BY <1>2, IdleType DEF HandleReq, Requests
  <2> QED
    BY <2>1 DEF Accounted, InForce
<1>3. CASE Page
  <2>1. req.pc = "query" /\ UNCHANGED <<db, pub, before, missed>>
    BY <1>3, PageIs
  <2>2. req'.pc # "idle"
    <3>1. CASE Over
      BY <1>0, <1>3, <2>1, <3>1, PageIs, NextFilterType
    <3>2. CASE ~Over
      BY <1>0, <1>3, <2>1, <3>2, PageIs DEF Shape, Requests
    <3> QED
      BY <3>1, <3>2
  <2> QED
    BY <1>1, <2>1, <2>2
<1>4. CASE LastPage
  <2>1. req.pc = "query" /\ req' = NextFilter /\ UNCHANGED <<db, pub, before, missed>>
    BY <1>4 DEF LastPage, history
  <2>2. req'.pc # "idle"
    BY <1>0, <2>1, NextFilterType
  <2> QED
    BY <1>1, <2>1, <2>2
<1>5. CASE QueryFails
  <2>1. req.pc = "query" /\ (req' = NextFilter \/ req' = Idle) /\ UNCHANGED <<db, pub, before, missed>>
    BY <1>5 DEF QueryFails
  <2>2. req'.pc # "idle" \/ req'.filters = <<>>
    BY <1>0, <2>1, NextFilterType, IdleType
  <2> QED
    BY <1>1, <2>1, <2>2
<1>6. CASE Eose \/ RemoveOld
  <2>1. req.pc # "idle" /\ UNCHANGED <<db, pub, before, missed>>
    BY <1>6 DEF Eose, RemoveOld, history
  <2>2. req'.pc # "idle" \/ req'.filters = <<>>
    BY <1>0, <1>6, IdleType DEF Eose, RemoveOld, Shape, Requests
  <2> QED
    BY <1>1, <2>1, <2>2
<1>7. CASE AddNew
  <2>1. /\ req.pc = "add" /\ req'.pc = "idle" /\ req'.filters = req.filters /\ live' = req.filters
        /\ UNCHANGED <<db, pub, before, missed>>
    BY <1>0, <1>7 DEF AddNew, history, Shape, Requests
  <2>2. ~InForce /\ req.filters # <<>>
    BY <1>0, <2>1 DEF InForce, Shape
  <2>3. \A e \in db \ (before \cup missed) : Pending(e)
    BY <1>0, <2>2 DEF Accounted
  <2>4. \A e : Pending(e)' <=> Pending(e)
    BY <2>1 DEF Pending
  <2> QED
    BY <2>1, <2>3, <2>4 DEF Accounted
<1>8. ASSUME UNCHANGED <<db, pub, before, missed, req, live, out, requests>>
      PROVE  Accounted'
  <2>1. \A e : (Pending(e)' <=> Pending(e)) /\ (SentLive(e)' <=> SentLive(e))
    BY <1>8 DEF Pending, SentLive
  <2>2. InForce' <=> InForce
    BY <1>8 DEF InForce
  <2> QED
    BY <1>0, <1>8, <2>1, <2>2 DEF Accounted, MatchesAny, Matches
<1>9. CASE Write \/ UNCHANGED feedVars
  BY <1>8, <1>9 DEF Write, history, feedVars
<1>10. ASSUME NEW p \in Publishers, SaveEvent(p) PROVE Accounted'
  <2>1. PICK e \in Events \ db : /\ db' = db \cup {e}
                                /\ pub' = [pub EXCEPT ![p] = [pc |-> "saved", event |-> e]]
    BY <1>10 DEF SaveEvent
  <2>2. pub[p].pc = "idle" /\ UNCHANGED <<out, req, live, requests, before, missed>>
    BY <1>10 DEF SaveEvent, history
  <2>3. DOMAIN pub = Publishers
    BY <1>0 DEF Shape
  <2>4. Pending(e)'
    BY <2>1, <2>3 DEF Pending
  <2>5. \A x : Pending(x) => Pending(x)'
    BY <2>1, <2>2, <2>3 DEF Pending
  <2>6. \A x : SentLive(x)' <=> SentLive(x)
    BY <2>2 DEF SentLive
  <2>7. InForce' <=> InForce
    BY <2>2 DEF InForce
  <2> QED
    BY <1>0, <2>1, <2>2, <2>4, <2>5, <2>6, <2>7 DEF Accounted, MatchesAny, Matches
<1>11. ASSUME NEW p \in Publishers, Distribute(p) PROVE Accounted'
  BY <1>11, DistributeAccounted
<1> QED
  BY <1>2, <1>3, <1>4, <1>5, <1>6, <1>7, <1>9, <1>10, <1>11 DEF Next

-----------------------------------------------------------------------------
(* NewestSent. *)

(* A filter once settled stays so: events stored later only come ahead.    *)
LEMMA SettledStays ==
    ASSUME Shape, req.filters \in FilterLists, db \subseteq db', db' \subseteq Events,
           req'.filters = req.filters, before' = before, sentEvents \subseteq sentEvents',
           NEW i, edges[i] \subseteq edges'[i], Settled(i)
    PROVE  Settled(i)'
<1> SUFFICES ASSUME NEW e \in Wanted(i)', e \notin sentEvents'
             PROVE  Cardinality(Ahead(i, e))' >= Limit(req.filters)
  BY DEF Settled, Limit
<1>1. e \in Wanted(i) \ sentEvents
  BY DEF Wanted, Matches
<1>2. Cardinality(Ahead(i, e)) >= Limit(req.filters)
  BY <1>1 DEF Settled
<1>3. Ahead(i, e) \subseteq Ahead(i, e)' /\ Ahead(i, e)' \subseteq Events
  BY DEF Ahead, Matches, Newer
<1>4. IsFiniteSet(Ahead(i, e)') /\ IsFiniteSet(Ahead(i, e))
      /\ Cardinality(Ahead(i, e)) <= Cardinality(Ahead(i, e)')
  BY <1>3, FeedAssumption, FS_Subset
<1>5. Cardinality(Ahead(i, e)) \in Nat /\ Cardinality(Ahead(i, e)') \in Nat
  BY <1>4, FS_CardinalityType
<1>6. Limit(req.filters) \in Nat
  BY LimitType, FeedAssumption
<1> QED
  BY <1>2, <1>4, <1>5, <1>6

(* A filter whose reading begins has found nothing and missed nothing.     *)
LEMMA PagingStarts ==
    ASSUME before' \subseteq Events, req'.filters \in FilterLists,
           req'.until = Now, req'.last = Never, req'.sent = 0
    PROVE  Paging'
<1>1. \A e \in before' : ~(e.at > req'.until)
  BY NowLatest, FeedAssumption
<1>2. \A e \in Wanted(req.i)' : e \in before'
  BY DEF Wanted
<1>3. Counted'
  <2>1. Cardinality({}) = 0
    BY FS_EmptySet
  <2> QED
    BY <2>1 DEF Counted
<1>4. Limit(req'.filters) \in 1..MaxLimit
  BY LimitType
<1>5. req'.sent < Limit(req.filters)'
  BY <1>4, FeedAssumption DEF Limit
<1> QED
  BY <1>1, <1>2, <1>3, <1>5 DEF Paging, Now

(* Events of the page that came after the window, and the page's picks.    *)
LEMMA CountedMore ==
    ASSUME FeedInv, req.pc = "query", Counted
    PROVE  \E K \in SUBSET db :
              /\ Cardinality(K) = SentNow /\ IsFiniteSet(K)
              /\ \A f \in K : Matches(req.filters[req.i], f) /\ f.visible
              /\ \A f \in K : f.at > req.until \/ f \in ToSet(Picks)
<1>1. PICK K \in SUBSET {f \in db : /\ Matches(req.filters[req.i], f) /\ f.visible
                                    /\ f.at > req.until} : Cardinality(K) = req.sent
  BY DEF Counted
<1>2. db \subseteq Events /\ req.until \in Nat
  BY DEF FeedInv, Shape, Requests
<1>3. IsFiniteSet(K)
  BY <1>2, FeedAssumption, FS_Subset
<1>4. ASSUME NEW f \in ToSet(Picks)
      PROVE  f \in db /\ Matches(req.filters[req.i], f) /\ f.visible /\ f.at <= req.until
  <2>1. f \in Visible /\ f \in PageSet /\ f \in Window
    BY PageFacts
  <2> QED
    BY <2>1 DEF Visible, Window
<1>5. K \cap ToSet(Picks) = {}
  <2> SUFFICES ASSUME NEW f \in K, f \in ToSet(Picks) PROVE FALSE
    OBVIOUS
  <2>1. f.at > req.until /\ f.at <= req.until /\ f.at \in Nat
    BY <1>2, <1>4, FeedAssumption
  <2> QED
    BY <1>2, <2>1
<1>6. IsFiniteSet(ToSet(Picks)) /\ Cardinality(ToSet(Picks)) = Len(Picks) /\ Len(Picks) \in Nat
  BY PageFacts
<1>7. /\ IsFiniteSet(K \cup ToSet(Picks))
      /\ Cardinality(K \cup ToSet(Picks)) = req.sent + Len(Picks) - Cardinality({})
  BY <1>1, <1>3, <1>5, <1>6, FS_Union
<1>8. Cardinality(K \cup ToSet(Picks)) = SentNow
  <2>1. req.sent \in Nat /\ Cardinality({}) = 0
    BY FS_EmptySet, FeedAssumption DEF FeedInv, Shape, Requests
  <2> QED
    BY <1>6, <1>7, <2>1 DEF SentNow
<1>9. K \cup ToSet(Picks) \in SUBSET db
  BY <1>4
<1> DEFINE J == K \cup ToSet(Picks)
<1>11. J \in SUBSET db /\ Cardinality(J) = SentNow /\ IsFiniteSet(J)
  BY <1>7, <1>8, <1>9
<1>12. ASSUME NEW f \in J
       PROVE  /\ Matches(req.filters[req.i], f) /\ f.visible
              /\ f.at > req.until \/ f \in ToSet(Picks)
  <2>1. CASE f \in K
    BY <2>1
  <2>2. CASE f \in ToSet(Picks)
    BY <1>4, <2>2
  <2> QED
    BY <2>1, <2>2
<1> HIDE DEF J
<1> QED
  BY <1>11, <1>12

(* An event that is wanted and not picked is in the window, and the picks  *)
(* are ahead of it.                                                        *)
LEMMA NotPicked ==
    ASSUME FeedInv, req.pc = "query", NEW e \in Wanted(req.i) \ sentEvents, e \notin ToSet(Picks)
    PROVE  /\ e \in Window /\ e.at <= req.until
           /\ \A x \in ToSet(Picks) : Newer(x, e)
           /\ e \notin PageSet \/ Len(Picks) = Limited - req.sent
<1>1. Shape /\ Paging /\ req.until \in Nat
  BY DEF FeedInv, Shape, Progress, Requests
<1>2. e \in before /\ before \subseteq db /\ db \subseteq Events /\ e.visible
      /\ Matches(req.filters[req.i], e)
  BY <1>1 DEF Wanted, Shape
<1>3. e.at <= req.until
  <2>1. ~(e.at > req.until)
    BY <1>1 DEF Paging
  <2>2. e.at \in Nat
    BY <1>2, FeedAssumption
  <2> QED
    BY <1>1, <2>1, <2>2
<1>4. e \in Window
  BY <1>2, <1>3 DEF Window
<1>5. CASE e \in PageSet
  <2>1. e \in Visible
    BY <1>2, <1>5 DEF Visible
  <2> QED
    BY <1>3, <1>4, <2>1, PageFacts
<1>6. CASE e \notin PageSet
  <2>1. \A x \in ToSet(Picks) : x \in PageSet
    BY PageFacts
  <2> QED
    BY <1>3, <1>4, <1>6, <2>1, PageFacts
<1> QED
  BY <1>5, <1>6

(* So many events ahead are the limit. *)
LEMMA EnoughAhead ==
    ASSUME FeedInv, req.pc = "query", NEW e, NEW K \in SUBSET Ahead(req.i, e),
           Cardinality(K) >= Limited, IsFiniteSet(K)
    PROVE  Cardinality(Ahead(req.i, e)) >= Limited
<1>1. IsFiniteSet(Ahead(req.i, e))
  <2>1. Ahead(req.i, e) \subseteq Events
    BY DEF FeedInv, Shape, Ahead
  <2> QED
    BY <2>1, FeedAssumption, FS_Subset
<1>2. Cardinality(K) <= Cardinality(Ahead(req.i, e))
  BY <1>1, FS_Subset
<1>3. Cardinality(K) \in Nat /\ Cardinality(Ahead(req.i, e)) \in Nat /\ Limited \in Nat
  BY <1>1, FS_CardinalityType, PageFacts
<1> QED
  BY <1>2, <1>3

(* The filter is read to the end, unless it is given up. *)
LEMMA PageSettles ==
    ASSUME FeedInv, Page, Over, req.i \notin cut'
    PROVE  \A e \in Wanted(req.i) \ sentEvents' : Cardinality(Ahead(req.i, e)) >= Limited
<1> SUFFICES ASSUME NEW e \in Wanted(req.i), e \notin sentEvents'
             PROVE  Cardinality(Ahead(req.i, e)) >= Limited
  OBVIOUS
<1>1. /\ req.pc = "query" /\ sentEvents' = sentEvents \cup ToSet(Picks)
      /\ Shape /\ Paging /\ req.until \in Nat /\ db \subseteq Events
  BY PageIs DEF FeedInv, Shape, Progress, Requests
<1>2. e \notin sentEvents /\ e \notin ToSet(Picks)
  BY <1>1
<1>3. /\ e \in Window /\ e.at <= req.until /\ \A x \in ToSet(Picks) : Newer(x, e)
  BY <1>1, <1>2, NotPicked
<1>4. e \in Events /\ e.at \in Nat /\ e.at \notin edges[req.i]
  BY <1>1, <1>3, FeedAssumption DEF Window, Wanted
<1>5. SentNow \in Nat /\ Limited \in Nat /\ (SentNow >= Limited \/ LastNow = Never)
  <2>1. SentNow \in Nat /\ Limited \in Nat
    BY <1>1, PageFacts
  <2>2. ~(SentNow < Limited /\ LastNow # Never)
    BY PageIs
  <2> QED
    BY <2>1, <2>2
<1>6. CASE SentNow >= Limited
  <2>1. Counted
    <3>1. ~(req.until = 0 /\ 0 \in edges[req.i])
      BY <1>3, <1>4
    <3> QED
      BY <1>1, <3>1 DEF Paging
  <2>2. PICK K \in SUBSET db :
              /\ Cardinality(K) = SentNow /\ IsFiniteSet(K)
              /\ \A f \in K : Matches(req.filters[req.i], f) /\ f.visible
              /\ \A f \in K : f.at > req.until \/ f \in ToSet(Picks)
    BY <1>1, <2>1, CountedMore
  <2>3. ASSUME NEW f \in K PROVE f \in Ahead(req.i, e)
    <3>1. f \in Events /\ f.at \in Nat
      BY <1>1, FeedAssumption
    <3>2. Newer(f, e)
      <4>1. CASE f.at > req.until
        <5>1. f.at > e.at
          BY <1>1, <1>3, <1>4, <3>1, <4>1
        <5> QED
          BY <1>4, <3>1, <5>1, NewerOrder
      <4>2. CASE f \in ToSet(Picks)
        BY <1>3, <4>2
      <4> QED
        BY <2>2, <4>1, <4>2
    <3> QED
      BY <2>2, <3>2 DEF Ahead
  <2>4. K \in SUBSET Ahead(req.i, e)
    BY <2>3
  <2> QED
    BY <1>1, <1>6, <2>2, <2>4, EnoughAhead
<1>7. CASE LastNow = Never
  <2>1. PageSet \subseteq sentEvents
    BY <1>1, <1>7, LastFacts
  <2>2. e \notin PageSet
    BY <1>2, <2>1
  <2>3. /\ \A x \in PageSet : Newer(x, e)
        /\ Cardinality(PageSet) = Limited /\ IsFiniteSet(PageSet) /\ PageSet \subseteq Window
    BY <1>1, <1>3, <2>2, PageFacts
  <2>4. PageSet \in SUBSET Ahead(req.i, e)
    <3>1. \A x \in PageSet : x \in db /\ Matches(req.filters[req.i], x) /\ x.visible
      BY <1>1, <2>1, <2>3 DEF Shape, Window
    <3> QED
      BY <2>3, <3>1 DEF Ahead
  <2>5. Cardinality(PageSet) >= Limited
    BY <1>5, <2>3
  <2> QED
    BY <1>1, <2>3, <2>4, <2>5, EnoughAhead
<1> QED
  BY <1>5, <1>6, <1>7

(* The window moves on, and leaves nothing behind. *)
LEMMA PageMoves ==
    ASSUME FeedInv, Page, ~Over
    PROVE  Paging'
<1>1. /\ req.pc = "query" /\ sentEvents' = sentEvents \cup ToSet(Picks)
      /\ Shape /\ Paging /\ req \in Requests /\ db \subseteq Events
      /\ UNCHANGED <<db, before>>
  BY PageIs DEF FeedInv, Shape, Progress
<1>2. /\ req.filters \in FilterLists /\ req.i \in DOMAIN req.filters
      /\ DOMAIN edges = DOMAIN req.filters
  BY <1>1, PageFacts DEF FeedInv, Progress, Shape
<1>3. /\ LastNow \in Nat /\ LastNow # Never /\ SentNow \in Nat /\ Limited \in Nat /\ SentNow < Limited
      /\ \A e \in PageSet \ sentEvents : LastNow <= e.at
      /\ LastNow = req.last \/ \E e \in PageSet \ sentEvents : LastNow = e.at
  <2>1. LastNow # Never /\ ~(SentNow >= Limited)
    BY DEF Over
  <2>2. SentNow \in Nat /\ Limited \in Nat
    BY <1>1, PageFacts
  <2> QED
    BY <1>1, <2>1, <2>2, LastFacts
<1>4. /\ req'.i = req.i /\ req'.filters = req.filters /\ req'.until = NextWindow(LastNow)
      /\ req'.sent = SentNow /\ req'.last = LastNow
  BY <1>1, PageIs DEF Requests
<1>5. edges'[req.i] = edges[req.i] \cup {LastNow}
  BY <1>2, PageIs
<1>6. /\ req.until \in Nat /\ NextWindow(LastNow) \in Nat
      /\ NextWindow(LastNow) = IF LastNow > 0 THEN LastNow - 1 ELSE 0
  BY <1>1, <1>3, NextWindowIs DEF Requests
<1>7. req.last # Never => req.until = IF req.last > 0 THEN req.last - 1 ELSE 0
  <2>1. req.last # Never => req.last \in Nat /\ req.until = NextWindow(req.last)
    BY <1>1 DEF Paging, Requests
  <2> QED
    BY <2>1, NextWindowIs
<1>8. \A f \in PageSet : f \in db /\ f \in Events /\ f.at \in Nat /\ f.at <= req.until
  <2>1. PageSet \subseteq Window
    BY <1>1, PageFacts
  <2> QED
    BY <1>1, <2>1, FeedAssumption DEF Window
<1>9. LastNow <= req.until + 1 /\ (LastNow > req.until => LastNow = req.last)
  <2>1. CASE LastNow = req.last
    BY <1>3, <1>6, <1>7, <2>1
  <2>2. CASE LastNow # req.last
    <3>1. PICK f \in PageSet \ sentEvents : LastNow = f.at
      BY <1>3, <2>2
    <3>2. LastNow <= req.until
      BY <1>8, <3>1
    <3> QED
      BY <1>3, <1>6, <3>2
  <2> QED
    BY <2>1, <2>2
<1>10. ASSUME NEW e \in Wanted(req.i)', e.at > req'.until PROVE e \in sentEvents'
  <2> SUFFICES ASSUME e \notin sentEvents' PROVE FALSE
    OBVIOUS
  <2>1. e \in Wanted(req.i) /\ e.at # LastNow /\ e \notin sentEvents /\ e \notin ToSet(Picks)
    BY <1>1, <1>4, <1>5 DEF Wanted, Matches
  <2>2. /\ e \in Window /\ e.at <= req.until
        /\ e \notin PageSet \/ Len(Picks) = Limited - req.sent
    BY <1>1, <2>1, NotPicked
  <2>3. e \in Events /\ e.at \in Nat
    BY <1>1, <2>2, FeedAssumption DEF Window
  <2>4. e.at > LastNow
    BY <1>3, <1>4, <1>6, <1>10, <2>1, <2>3
  <2>5. e \notin PageSet
    <3>1. req.sent \in Nat
      BY <1>1, FeedAssumption DEF Requests
    <3>2. Len(Picks) # Limited - req.sent
      BY <1>3, <3>1 DEF SentNow
    <3> QED
      BY <2>2, <3>2
  <2>6. CASE LastNow = req.last
    BY <1>3, <1>6, <1>7, <2>2, <2>3, <2>4, <2>6
  <2>7. CASE LastNow # req.last
    <3>1. PICK f \in PageSet \ sentEvents : LastNow = f.at
      BY <1>3, <2>7
    <3>2. Newer(f, e)
      BY <1>1, <2>2, <2>5, <3>1, PageFacts
    <3>3. f.at >= e.at
      BY <1>8, <2>3, <3>1, <3>2, NewerOrder
    <3> QED
      BY <1>3, <2>3, <2>4, <3>1, <3>3
  <2> QED
    BY <2>6, <2>7
<1>11. (req'.until = 0 /\ 0 \in edges'[req.i]) \/ Counted'
  <2>1. CASE LastNow = 0
    BY <1>4, <1>5, <1>6, <2>1
  <2>2. CASE LastNow # 0 /\ req.until = 0 /\ 0 \in edges[req.i]
    <3>1. LastNow = 1
      BY <1>3, <1>9, <2>2
    <3> QED
      BY <1>4, <1>5, <1>6, <2>2, <3>1
  <2>3. CASE LastNow # 0 /\ Counted
    <3>1. PICK K \in SUBSET db :
              /\ Cardinality(K) = SentNow /\ IsFiniteSet(K)
              /\ \A f \in K : Matches(req.filters[req.i], f) /\ f.visible
              /\ \A f \in K : f.at > req.until \/ f \in ToSet(Picks)
      BY <1>1, <2>3, CountedMore
    <3>2. ASSUME NEW f \in K PROVE f.at > req'.until
      <4>1. f.at \in Nat /\ req'.until = LastNow - 1
        BY <1>1, <1>3, <1>4, <1>6, <2>3, FeedAssumption
      <4>2. CASE f.at > req.until
        BY <1>3, <1>6, <1>9, <4>1, <4>2
      <4>3. CASE f \in ToSet(Picks)
        <5>1. f \in PageSet \ sentEvents
          BY <1>1, <4>3, PageFacts DEF Visible
        <5> QED
          BY <1>3, <4>1, <5>1
      <4> QED
        BY <3>1, <4>2, <4>3
    <3>3. K \in SUBSET {f \in db : /\ Matches(req'.filters[req'.i], f) /\ f.visible
                                   /\ f.at > req'.until}
      BY <1>4, <3>1, <3>2
    <3>4. db' = db /\ Cardinality(K) = req'.sent
      BY <1>1, <1>4, <3>1
    <3> QED
      BY <3>3, <3>4 DEF Counted, Matches
  <2> QED
    BY <1>1, <2>1, <2>2, <2>3 DEF Paging
<1>12. req'.sent < Limit(req.filters)'
  BY <1>3, <1>4 DEF Limited, Limit
<1>13. IF req'.last = Never THEN req'.until = Now ELSE req'.until = NextWindow(req'.last)
  BY <1>3, <1>4
<1> QED
  BY <1>4, <1>10, <1>11, <1>12, <1>13 DEF Paging, Now, NextWindow

(* The filters before the one being read. *)
LEMMA ProgressFrame ==
    ASSUME FeedInv, req.filters # <<>>, req'.filters = req.filters,
           db \subseteq db', db' \subseteq Events, before' = before, sentEvents \subseteq sentEvents',
           NEW i \in DOMAIN req.filters, i \notin cut, edges'[i] = edges[i],
           i < req.i \/ req.pc # "query"
    PROVE  Settled(i)'
<1>1. Shape /\ req.filters \in FilterLists /\ Settled(i)
  BY DEF FeedInv, Shape, Requests, Progress
<1> QED
  BY <1>1, SettledStays

(* The next filter, when the one being read is settled or given up. *)
LEMMA NextFilterProgress ==
    ASSUME FeedInv, req.pc = "query", req' = NextFilter, edges' = edges, cut \subseteq cut',
           db' = db, before' = before, sentEvents \subseteq sentEvents',
           req.i \in cut' \/ \A e \in Wanted(req.i) \ sentEvents' : Cardinality(Ahead(req.i, e)) >= Limited
    PROVE  Progress'
<1>1. /\ Shape /\ req.filters \in FilterLists /\ req.filters # <<>> /\ db \subseteq Events
      /\ before \subseteq Events /\ DOMAIN edges = DOMAIN req.filters
  BY PageFacts DEF FeedInv, Shape, Progress
<1>2. /\ req'.filters = req.filters
      /\ \/ req'.pc = "query" /\ req'.i = req.i + 1 /\ req'.until = Now /\ req'.last = Never /\ req'.sent = 0
         \/ req'.pc = "eose" /\ req.i = Len(req.filters)
  BY <1>1, NextFilterType
<1>3. req.i \in Nat /\ DOMAIN req.filters = 1..Len(req.filters) /\ Len(req.filters) \in Nat
  BY <1>1, FeedAssumption DEF Shape, Requests
<1>4. ASSUME NEW i \in DOMAIN req.filters, i \notin cut', i < req'.i \/ req'.pc # "query"
      PROVE  Settled(i)'
  <2>1. i <= req.i
    BY <1>2, <1>3, <1>4
  <2>2. CASE i < req.i
    BY <1>1, <1>2, <1>4, <2>2, ProgressFrame
  <2>3. CASE i = req.i
    <3> SUFFICES ASSUME NEW e \in Wanted(i)', e \notin sentEvents'
                 PROVE  Cardinality(Ahead(i, e))' >= Limit(req'.filters)
      BY DEF Settled, Limit
    <3>1. e \in Wanted(req.i) \ sentEvents'
      BY <1>2, <2>3 DEF Wanted, Matches
    <3>2. Cardinality(Ahead(req.i, e)) >= Limited
      BY <1>4, <2>3, <3>1
    <3>3. Ahead(i, e)' = Ahead(req.i, e)
      BY <1>2, <2>3 DEF Ahead, Matches, Newer
    <3> QED
      BY <1>2, <3>2, <3>3 DEF Limited
  <2> QED
    BY <1>3, <2>1, <2>2, <2>3
<1>5. ASSUME req'.pc = "query" PROVE Paging'
  BY <1>1, <1>2, <1>5, PagingStarts
<1> QED
  BY <1>1, <1>2, <1>4, <1>5 DEF Progress

LEMMA ProgressStep ==
    ASSUME FeedInv, [Next]_feedVars
    PROVE  Progress'
<1>0. /\ Shape /\ Progress /\ req \in Requests /\ db \subseteq Events /\ before \subseteq Events
      /\ Shape'
  BY ShapeStep DEF FeedInv, Shape
<1>1. ASSUME req.pc # "query", req'.filters = <<>> \/ req'.filters = req.filters, req'.pc # "query",
             db \subseteq db', UNCHANGED <<before, edges, cut, sentEvents>>
      PROVE  Progress'
  <2>1. CASE req'.filters = <<>>
    BY <2>1 DEF Progress
  <2>2. CASE req.filters # <<>> /\ req'.filters = req.filters
    <3>1. DOMAIN edges' = DOMAIN req'.filters
      BY <1>0, <1>1, <2>2 DEF Progress
    <3>2. db' \subseteq Events
      BY <1>0 DEF Shape
    <3>3. ASSUME NEW i \in DOMAIN req.filters, i \notin cut PROVE Settled(i)'
      BY <1>1, <2>2, <3>2, <3>3, ProgressFrame
    <3> QED
      BY <1>1, <2>2, <3>1, <3>3 DEF Progress
  <2> QED
    BY <1>1, <2>1, <2>2
<1>2. ASSUME db \subseteq db', UNCHANGED <<req, before, edges, cut, sentEvents>>
      PROVE  Progress'
  <2>1. CASE req.filters = <<>>
    BY <1>2, <2>1 DEF Progress
  <2>2. CASE req.filters # <<>>
    <3>1. DOMAIN edges' = DOMAIN req'.filters
      BY <1>0, <1>2, <2>2 DEF Progress
    <3>2. db' \subseteq Events
      BY <1>0 DEF Shape
    <3>3. ASSUME NEW i \in DOMAIN req.filters, i \notin cut, i < req.i \/ req.pc # "query"
          PROVE  Settled(i)'
      BY <1>2, <2>2, <3>2, <3>3, ProgressFrame
    <3>4. ASSUME req.pc = "query" PROVE Paging'
      <4>1. Paging
        BY <1>0, <2>2, <3>4 DEF Progress
      <4>2. Counted => Counted'
        <5> SUFFICES ASSUME Counted PROVE Counted'
          OBVIOUS
        <5>1. PICK K \in SUBSET {f \in db : /\ Matches(req.filters[req.i], f) /\ f.visible
                                            /\ f.at > req.until} : Cardinality(K) = req.sent
          BY DEF Counted
        <5>2. K \in SUBSET {f \in db' : /\ Matches(req'.filters[req'.i], f) /\ f.visible
                                        /\ f.at > req'.until}
          BY <1>2, <5>1
        <5> QED
          BY <1>2, <5>1, <5>2 DEF Counted, Matches
      <4>3. Wanted(req.i)' = Wanted(req.i)
        BY <1>2 DEF Wanted, Matches
      <4> QED
        BY <1>2, <4>1, <4>2, <4>3 DEF Paging, Now, NextWindow, Limit
    <3> QED
      BY <1>2, <2>2, <3>1, <3>3, <3>4 DEF Progress
  <2> QED
    BY <2>1, <2>2
<1>3. CASE HandleReq
  <2>1. PICK fs \in FilterLists : /\ req' = [Idle EXCEPT !.pc = "query", !.filters = fs]
                                 /\ edges' = [i \in DOMAIN fs |-> {}]
    BY <1>3 DEF HandleReq
  <2>2. /\ req'.filters = fs /\ req'.i = 1 /\ req'.until = Now /\ req'.last = Never
        /\ req'.sent = 0 /\ req'.pc = "query"
    BY <2>1, IdleType DEF Requests
  <2>3. before' \subseteq Events
    BY <1>0, <1>3 DEF HandleReq
  <2>4. Paging'
    BY <2>2, <2>3, PagingStarts
  <2>5. \A i \in DOMAIN fs : ~(i < 1)
    <3>1. DOMAIN fs = 1..Len(fs)
      BY FeedAssumption
    <3> QED
      BY <3>1
  <2> QED
    BY <2>1, <2>2, <2>4, <2>5 DEF Progress
<1>4. CASE Page
  <2>1. /\ req.pc = "query" /\ sentEvents' = sentEvents \cup ToSet(Picks)
        /\ UNCHANGED <<db, before>>
        /\ cut' = IF SentNow < Limited /\ LastNow # Never /\ Over THEN cut \cup {req.i} ELSE cut
    BY <1>4, PageIs
  <2>2. CASE Over
    <3>1. req' = NextFilter /\ edges' = edges
      BY <1>4, <2>2, PageIs
    <3>2. ASSUME req.i \notin cut'
          PROVE  \A e \in Wanted(req.i) \ sentEvents' : Cardinality(Ahead(req.i, e)) >= Limited
      BY <1>4, <2>2, <3>2, PageSettles
    <3> QED
      BY <2>1, <3>1, <3>2, NextFilterProgress
  <2>3. CASE ~Over
    <3>1. /\ req' = [req EXCEPT !.until = NextWindow(LastNow), !.sent = SentNow,
                                !.last = LastNow, !.attempts = Attempt(req.attempts)]
          /\ edges' = [edges EXCEPT ![req.i] = @ \cup {LastNow}]
      BY <1>4, <2>3, PageIs
    <3>2. req'.filters = req.filters /\ req'.i = req.i /\ req'.pc = "query" /\ cut' = cut
      BY <1>0, <2>1, <2>3, <3>1 DEF Requests
    <3>3. req.filters # <<>> /\ DOMAIN edges' = DOMAIN req.filters
      BY <1>0, <2>1, <3>1 DEF Progress, Shape
    <3>4. ASSUME NEW i \in DOMAIN req.filters, i \notin cut, i < req.i PROVE Settled(i)'
      <4>1. i # req.i
        BY <1>0, <3>4 DEF Requests
      <4>2. edges'[i] = edges[i]
        BY <3>1, <3>3, <4>1
      <4>3. db \subseteq db' /\ db' \subseteq Events /\ before' = before /\ sentEvents \subseteq sentEvents'
        BY <1>0, <2>1
      <4> QED
        BY <3>2, <3>3, <3>4, <4>2, <4>3, ProgressFrame
    <3>5. Paging'
      BY <1>4, <2>3, PageMoves
    <3> QED
      BY <3>2, <3>3, <3>4, <3>5 DEF Progress
  <2> QED
    BY <2>2, <2>3
<1>5. CASE LastPage
  <2>1. /\ req.pc = "query" /\ PageSet = {} /\ req' = NextFilter
        /\ UNCHANGED <<db, sentEvents, before, edges, cut>>
    BY <1>5, LastPageIs DEF LastPage, history
  <2>2. ASSUME NEW e \in Wanted(req.i) \ sentEvents PROVE FALSE
    <3>1. ToSet(Picks) = {}
      BY <2>1, PageFacts
    <3>2. e \in Window
      BY <2>1, <3>1, NotPicked
    <3>3. Window # PageSet
      BY <2>1, <3>2
    <3>4. Cardinality(PageSet) = Limited /\ Limited \in 1..MaxLimit
      BY <2>1, <3>3, PageFacts
    <3>5. Limited # 0
      BY <3>4, FeedAssumption
    <3> QED
      BY <2>1, <3>4, <3>5, FS_EmptySet
  <2> QED
    BY <2>1, <2>2, NextFilterProgress
<1>6. CASE QueryFails
  <2>1. /\ req.pc = "query" /\ cut' = cut \cup {req.i} /\ UNCHANGED <<db, sentEvents, before, edges>>
        /\ req' = NextFilter \/ req' = Idle
    BY <1>6 DEF QueryFails
  <2>2. CASE req' = NextFilter
    BY <2>1, <2>2, NextFilterProgress
  <2>3. CASE req' = Idle
    BY <2>3, IdleType DEF Progress
  <2> QED
    BY <2>1, <2>2, <2>3
<1>7. CASE Eose
  <2>1. /\ req.pc = "eose" /\ UNCHANGED <<db, sentEvents, before, edges, cut>>
        /\ req' = [req EXCEPT !.pc = "remove"] \/ req' = Idle
    BY <1>7 DEF Eose, history
  <2>2. req'.pc # "query" /\ (req'.filters = <<>> \/ req'.filters = req.filters)
    BY <1>0, <2>1, IdleType DEF Requests
  <2> QED
    BY <1>1, <2>1, <2>2
<1>8. CASE RemoveOld \/ AddNew
  <2>1. req.pc # "query" /\ UNCHANGED <<db, sentEvents, before, edges, cut>>
    BY <1>8 DEF RemoveOld, AddNew, history
  <2>2. req'.pc # "query" /\ req'.filters = req.filters
    BY <1>0, <1>8 DEF RemoveOld, AddNew, Requests
  <2> QED
    BY <1>1, <2>1, <2>2
<1>9. CASE Write \/ (\E p \in Publishers : SaveEvent(p) \/ Distribute(p)) \/ UNCHANGED feedVars
  BY <1>2, <1>9 DEF Write, SaveEvent, Distribute, history, feedVars
<1> QED
  BY <1>3, <1>4, <1>5, <1>6, <1>7, <1>8, <1>9 DEF Next

-----------------------------------------------------------------------------
LEMMA FeedInit == Init => FeedInv
<1> SUFFICES ASSUME Init PROVE FeedInv
  OBVIOUS
<1>1. Shape
  BY IdleType, ChannelSizeType, FeedAssumption DEF Init, Shape
<1>2. Len(out) = 0
  BY DEF Init
<1>3. AnswerRecorded /\ StoredOnce
  BY <1>2 DEF Init, AnswerRecorded, StoredOnce
<1>4. req.filters = <<>> /\ ~InForce
  BY IdleType DEF Init, InForce
<1> QED
  BY <1>1, <1>3, <1>4 DEF FeedInv, Accounted, Progress

LEMMA FeedStep == FeedInv /\ [Next]_feedVars => FeedInv'
  BY ShapeStep, RecordedStep, AccountedStep, ProgressStep DEF FeedInv

(* FeedInv holds in every reachable state. *)
THEOREM FeedInvariance == Spec => []FeedInv
  BY FeedInit, FeedStep, PTL DEF Spec

(* Types; the channel and the pages stay within their bounds. *)
THEOREM FeedTypes == Spec => []FeedTypeOK
<1>1. FeedInv => FeedTypeOK
  <2> SUFFICES ASSUME FeedInv PROVE FeedTypeOK
    OBVIOUS
  <2>1. \A n \in 1..Len(out) : out[n] \in Messages
    BY DEF FeedInv, Shape
  <2>2. DOMAIN out = 1..Len(out)
    BY DEF FeedInv, Shape
  <2> QED
    BY <2>1, <2>2 DEF FeedTypeOK, FeedInv, Shape, Messages, Requests
<1> QED
  BY <1>1, FeedInvariance, PTL

(* handle_req sends no stored event twice in answer to one request, for    *)
(* any filters, limits and pages and whatever is published meanwhile.      *)
THEOREM NothingSentTwice == Spec => []StoredOnce
<1>1. FeedInv => StoredOnce
  BY DEF FeedInv
<1> QED
  BY <1>1, FeedInvariance, PTL

(* The pages find the newest events that every filter's limit allows, but  *)
(* for those of a second in which a page ended, and filters given up.      *)
THEOREM NewestAreSent == Spec => []NewestSent
<1>1. FeedInv => NewestSent
  <2> SUFFICES ASSUME FeedInv, InForce, NEW i \in DOMAIN req.filters \ cut
               PROVE  LET all    == NewestFirst({e \in db : Matches(req.filters[i], e) /\ e.visible})
                          newest == ToSet(Take(all, Limit(req.filters)))
                      IN  {e \in newest \cap before : e.at \notin edges[i]} \subseteq sentEvents
    BY DEF NewestSent
  <2> DEFINE A == {e \in db : Matches(req.filters[i], e) /\ e.visible}
             newest == ToSet(Top(A, Limit(req.filters)))
  <2>1. A \subseteq Events /\ req.filters \in FilterLists
    BY DEF FeedInv, Shape, Requests, InForce
  <2>2. Limit(req.filters) \in Nat
    BY <2>1, LimitType, FeedAssumption
  <2>3. newest \subseteq A /\ \A x \in newest : Rank(A, x) < Limit(req.filters)
    BY <2>1, <2>2, TopIs
  <2>4. Settled(i)
    BY DEF FeedInv, Progress, InForce
  <2>5. ASSUME NEW e \in newest, e \in before, e.at \notin edges[i] PROVE e \in sentEvents
    <3> SUFFICES ASSUME e \notin sentEvents PROVE FALSE
      OBVIOUS
    <3>1. e \in A /\ e \in Wanted(i)
      BY <2>3, <2>5 DEF Wanted
    <3>2. Cardinality(Ahead(i, e)) >= Limit(req.filters)
      BY <2>4, <3>1 DEF Settled
    <3>3. Ahead(i, e) = {f \in A : Newer(f, e)}
      BY DEF Ahead
    <3>4. Rank(A, e) < Limit(req.filters) /\ Rank(A, e) = Cardinality(Ahead(i, e))
      BY <2>3, <2>5, <3>3 DEF Rank
    <3>5. IsFiniteSet(A) /\ Cardinality(Ahead(i, e)) \in Nat
      <4>1. IsFiniteSet(A)
        BY <2>1, RankOnto
      <4>2. Ahead(i, e) \subseteq A
        BY <3>3
      <4> QED
        BY <4>1, <4>2, FS_Subset, FS_CardinalityType
    <3> QED
      BY <2>2, <3>2, <3>4, <3>5
  <2> QED
    BY <2>5 DEF Top
<1> QED
  BY <1>1, FeedInvariance, PTL

(* An event saved while a request is handled reaches its subscription, if  *)
(* it was not distributed in the gap before add_subscription or to a full  *)
(* channel.                                                                *)
THEOREM OnlyTheGapLoses == Spec => []LostOnlyInGap
<1>1. FeedInv => LostOnlyInGap
  <2> SUFFICES ASSUME FeedInv, InForce, NEW e \in db \ (before \cup missed),
                      e.visible, MatchesAny(req.filters, e)
               PROVE  \/ \E m \in DOMAIN out : out[m].nr = requests /\ out[m].src # "eose" /\ out[m].event = e
                      \/ \E p \in Publishers : pub[p].pc = "saved" /\ pub[p].event = e
    BY DEF LostOnlyInGap
  <2>1. Pending(e) \/ SentLive(e)
    BY DEF FeedInv, Accounted, InForce
  <2>2. DOMAIN out = 1..Len(out)
    BY DEF FeedInv, Shape
  <2> QED
    BY <2>1, <2>2 DEF Pending, SentLive
<1> QED
  BY <1>1, FeedInvariance, PTL
=============================================================================
