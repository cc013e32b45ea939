-------------------------- MODULE ConnectionProofs --------------------------
(***************************************************************************)
(* Theorems about Connection: its types, its permits, its hooks, and the   *)
(* order and the processing of what is written to a socket.                *)
(***************************************************************************)
EXTENDS Connection, SequenceFacts, FiniteSetTheorems

(* Connections that hold a permit. *)
Holders == {c \in Conns : conn[c].pc \in Inside}

(* Hooks of MetricsMiddleware that have run and not been undone. *)
Counted == {x \in Conns \X Positions :
               x[2] \in hooked[x[1]] /\ Middlewares[x[2] + 1] = "metrics"}

(* How far the hooks of a connection have come. *)
HooksSoFar(c) ==
    /\ conn[c].pc = "new" => hooked[c] = {} /\ conn[c].hook = Outermost
    /\ conn[c].pc = "connecting" => hooked[c] = {p \in Positions : p > conn[c].hook}
    /\ conn[c].pc \in {"waiting", "sending"} => hooked[c] = Positions
    /\ conn[c].pc = "leaving" => hooked[c] = {p \in Positions : p >= conn[c].hook}
    /\ conn[c].pc \in {"joining", "closed"} => hooked[c] = {} \/ c \in failed

(* A message as it was put into the channel, and one that may be written:  *)
(* the parts of WrittenAsProcessed.                                        *)
Fresh(t) ==
    /\ t.by = <<>> /\ t.from <= t.sender
    /\ t.orig = t.msg
    /\ t.json = NoJson \/ (t.json = t.msg /\ t.msg.type = "EVENT")

Ready(w) ==
    /\ \A p \in w.sender..Outermost : \E k \in DOMAIN w.by : w.by[k] = p
    /\ \A k \in 1..(Len(w.by) - 1) : w.by[k] < w.by[k + 1]
    /\ Rewrite[Gone] = Gone /\ w.sender = 0 /\ w.orig.type = "EVENT" => w.orig.visible
    /\ \/ w.json = w.msg
       \/ /\ w.json = w.orig /\ w.orig.type = "EVENT"
          /\ w.msg.type = "EVENT" => w.msg.id = w.orig.id

(* Numbers grow along a sequence of messages. *)
Increasing(s) == \A j, k \in 1..Len(s) : j < k => s[j].nr < s[k].nr

(* The way of a connection's messages: the written one before those of the *)
(* batch before those of the channel; those of the channel untouched.      *)
InTransit(c) ==
    LET ch == channel[c]  todo == task[c].todo IN
    /\ Increasing(ch) /\ Increasing(todo)
    /\ \A k \in 1..Len(ch) : Fresh(ch[k]) /\ ch[k].nr <= sent[c] /\ written[c].nr < ch[k].nr
    /\ \A k \in 1..Len(todo) :
          /\ Ready(todo[k]) /\ todo[k].nr <= sent[c] /\ written[c].nr < todo[k].nr
          /\ \A j \in 1..Len(ch) : todo[k].nr < ch[j].nr
    /\ written[c].nr <= sent[c] /\ (written[c] = Nothing \/ Ready(written[c]))

(***************************************************************************)
(* The inductive invariant.  ConnTypeOK is not inductive by itself: that a *)
(* permit may be given back is known from PermitsExact, and what the       *)
(* outbound task makes of a message from what the channel holds.  Nor is   *)
(* HooksPaired, which says nothing before the connection is closed.        *)
(***************************************************************************)
ConnInv ==
    /\ ConnTypeOK
    /\ PermitsExact
    /\ \A c \in Conns : HooksSoFar(c)
    /\ gauge = Cardinality(Counted)
    /\ \A c \in Conns : InTransit(c)

-----------------------------------------------------------------------------
(* One middleware's turn in process_outbound_chain. *)
Turn(t, u, i) ==
    IF RunsOn(t, i - 1)
    THEN [u EXCEPT !.msg = process_outbound(Middlewares[i], @), !.by = Append(@, i - 1)]
    ELSE u

ChainOf(t, n, f) == f = [i \in 0..n |-> IF i = 0 THEN t ELSE Turn(t, f[i - 1], i)]

(* The recursive definition of process_outbound_chain has a solution. *)
LEMMA ChainExists ==
    ASSUME NEW t, NEW n \in Nat
    PROVE  \E f : ChainOf(t, n, f)
<1> DEFINE Bad == {m \in Nat : ~ \E f : ChainOf(t, m, f)}
<1> SUFFICES ASSUME Bad # {} PROVE FALSE
  OBVIOUS
<1>1. PICK b \in Bad : \A m \in Bad : b <= m
  BY LeastNat
<1>2. CASE b = 0
  <2>1. ChainOf(t, 0, [i \in 0..0 |-> t])
    BY DEF ChainOf
  <2> QED
    BY <1>2, <2>1
<1>3. CASE b # 0
  <2>1. PICK f : ChainOf(t, b - 1, f)
    BY <1>1, <1>3
  <2> DEFINE g == [i \in 0..b |-> IF i = b THEN Turn(t, f[b - 1], b) ELSE f[i]]
  <2>2. ASSUME NEW i \in 0..b
        PROVE  g[i] = IF i = 0 THEN t ELSE Turn(t, g[i - 1], i)
    <3>1. CASE i = b
      BY <3>1, <1>3
    <3>2. CASE i # b
      <4>1. i \in 0..(b - 1) /\ (i # 0 => i - 1 \in 0..b /\ i - 1 # b)
        BY <3>2
      <4>2. f[i] = IF i = 0 THEN t ELSE Turn(t, f[i - 1], i)
        BY <4>1, <2>1 DEF ChainOf
      <4> QED
        BY <4>1, <4>2, <3>2
    <3> QED
      BY <3>1, <3>2
  <2>3. g = [i \in 0..b |-> g[i]]
    OBVIOUS
  <2>4. ChainOf(t, b, g)
    <3> HIDE DEF g
    <3> QED
      BY <2>2, <2>3 DEF ChainOf
  <2> QED
    BY <2>4
<1> QED
  BY <1>2, <1>3

(* process_outbound_chain takes the middlewares' turns one after another. *)
LEMMA ChainSteps ==
    ASSUME NEW t
    PROVE  \E f : /\ process_outbound_chain(t) = f[Len(Middlewares)]
                  /\ f[0] = t
                  /\ \A i \in 1..Len(Middlewares) : f[i] = Turn(t, f[i - 1], i)
<1> DEFINE N == Len(Middlewares)
<1>0. N \in Nat
  BY ConnectionAssumption
<1> DEFINE f == CHOOSE g : ChainOf(t, N, g)
<1>1. ChainOf(t, N, f)
  BY <1>0, ChainExists
<1>2. f = CHOOSE g : g = [i \in 0..N |-> IF i = 0 THEN t ELSE
              IF RunsOn(t, i - 1)
              THEN [g[i - 1] EXCEPT !.msg = process_outbound(Middlewares[i], @),
                                    !.by = Append(@, i - 1)]
              ELSE g[i - 1]]
  BY DEF ChainOf, Turn
<1>3. process_outbound_chain(t) = f[N]
  BY <1>2 DEF process_outbound_chain
<1> HIDE DEF f
<1>4. f[0] = t /\ \A i \in 1..N : f[i] = Turn(t, f[i - 1], i)
  BY <1>0, <1>1 DEF ChainOf
<1> QED
  BY <1>3, <1>4

(* An event that RelayMiddleware hides, when nothing takes the place of    *)
(* what is gone.                                                           *)
Hidden(m) == Rewrite[Gone] = Gone /\ m.type = "EVENT" /\ ~m.visible

(* What a message is after the first i middlewares have had their turn. *)
Reached(t, u, i) ==
    /\ u \in Message
    /\ u.nr = t.nr /\ u.sender = t.sender /\ u.from = t.from /\ u.json = t.json
    /\ u.orig = t.orig
    /\ u.by = IF i <= t.from THEN <<>> ELSE [k \in 1..(i - t.from) |-> t.from + k - 1]
    /\ (t.from = 0 /\ Hidden(t.msg)) => IF i > 0 THEN u.msg = Gone ELSE u.msg = t.msg

LEMMA GoneType == Gone \in Payload /\ Gone.type = "gone"
  BY DEF Gone, Payload, Types, Ids

LEMMA ProcessOutboundType ==
    ASSUME NEW name, NEW m \in Payload
    PROVE  /\ process_outbound(name, m) \in Payload
           /\ Rewrite[Gone] = Gone => process_outbound(name, Gone) = Gone
           /\ (name = "relay" /\ Hidden(m)) => process_outbound(name, m) = Gone
<1>1. Gone \in Payload
  BY GoneType
<1>2. relay_outbound(m) \in {Gone, m} /\ nip40_outbound(m) \in {Gone, m}
  BY DEF relay_outbound, nip40_outbound
<1>3. relay_outbound(Gone) = Gone /\ nip40_outbound(Gone) = Gone
  BY DEF relay_outbound, nip40_outbound
<1>4. rewrite_outbound(m) \in Payload
  BY ConnectionAssumption DEF rewrite_outbound
<1>5. process_outbound(name, m)
        \in {relay_outbound(m), nip40_outbound(m), rewrite_outbound(m), m}
  BY DEF process_outbound
<1>6. process_outbound(name, Gone)
        \in {relay_outbound(Gone), nip40_outbound(Gone), rewrite_outbound(Gone), Gone}
  BY DEF process_outbound
<1>7. Rewrite[Gone] = Gone => process_outbound(name, Gone) = Gone
  BY <1>3, <1>6 DEF rewrite_outbound
<1>8. name = "relay" /\ Hidden(m) => process_outbound(name, m) = Gone
  BY DEF process_outbound, relay_outbound, Hidden
<1> QED
  BY <1>1, <1>2, <1>4, <1>5, <1>7, <1>8

LEMMA TurnReached ==
    ASSUME NEW t \in Message, NEW u, NEW i \in 1..Len(Middlewares), Reached(t, u, i - 1)
    PROVE  Reached(t, Turn(t, u, i), i)
<1> DEFINE v == Turn(t, u, i)
<1>0. /\ Len(Middlewares) \in Nat /\ i \in Nat /\ i - 1 \in Positions
      /\ t.from \in Nat /\ u.msg \in Payload /\ Middlewares[1] = "relay"
  BY ConnectionAssumption DEF Message, Positions, Reached
<1>1. CASE t.from <= i - 1
  <2> DEFINE m == process_outbound(Middlewares[i], u.msg)
  <2>1. v = [u EXCEPT !.msg = m, !.by = Append(@, i - 1)]
    BY <1>1 DEF Turn, RunsOn
  <2>2. /\ m \in Payload
        /\ (Rewrite[Gone] = Gone /\ u.msg = Gone) => m = Gone
        /\ (i = 1 /\ Hidden(u.msg)) => m = Gone
    BY <1>0, ProcessOutboundType
  <2> HIDE DEF m
  <2>3. v \in Message
    <3>1. u \in Message /\ u.by \in Seq(Positions)
      BY DEF Message, Reached
    <3>2. Append(u.by, i - 1) \in Seq(Positions)
      BY <3>1, <1>0
    <3> QED
      BY <3>1, <3>2, <2>1, <2>2 DEF Message
  <2>4. /\ v.nr = t.nr /\ v.sender = t.sender /\ v.from = t.from /\ v.json = t.json
        /\ v.orig = t.orig /\ v.msg = m /\ v.by = Append(u.by, i - 1)
    BY <2>1 DEF Message, Reached
  <2>5. v.by = [k \in 1..(i - t.from) |-> t.from + k - 1]
    <3>1. CASE i - 1 <= t.from
      <4>1. u.by = <<>> /\ i - 1 = t.from
        BY <3>1, <1>1, <1>0 DEF Reached
      <4> QED
        BY <4>1, <2>4, <1>0
    <3>2. CASE i - 1 > t.from
      <4>1. u.by = [k \in 1..(i - 1 - t.from) |-> t.from + k - 1]
        BY <3>2, <1>0 DEF Reached
      <4> QED
        BY <4>1, <3>2, <2>4, <1>0
    <3> QED
      BY <3>1, <3>2, <1>0
  <2>6. ASSUME t.from = 0, Hidden(t.msg) PROVE m = Gone
    <3>1. CASE i = 1
      <4>1. u.msg = t.msg
        BY <2>6, <3>1 DEF Reached
      <4> QED
        BY <4>1, <2>6, <3>1, <2>2
    <3>2. CASE i # 1
      <4>1. i - 1 > 0
        BY <3>2, <1>0
      <4>2. u.msg = Gone
        BY <4>1, <2>6 DEF Reached
      <4> QED
        BY <4>2, <2>6, <2>2 DEF Hidden
    <3> QED
      BY <3>1, <3>2
  <2> HIDE DEF v
  <2>7. ~(i <= t.from)
    BY <1>0, <1>1
  <2>8. v.by = IF i <= t.from THEN <<>> ELSE [k \in 1..(i - t.from) |-> t.from + k - 1]
    BY <2>5, <2>7
  <2>9. i > 0
    BY <1>0
  <2> QED
    BY <2>3, <2>4, <2>6, <2>8, <2>9 DEF Reached, v
<1>2. CASE ~(t.from <= i - 1)
  <2>1. v = u /\ i <= t.from /\ i - 1 <= t.from
    BY <1>2, <1>0 DEF Turn, RunsOn
  <2> QED
    BY <2>1, <1>0 DEF Reached
<1> QED
  BY <1>1, <1>2

LEMMA ChainReached ==
    ASSUME NEW t \in Message, t.by = <<>>
    PROVE  Reached(t, process_outbound_chain(t), Len(Middlewares))
<1> DEFINE N == Len(Middlewares)
<1>0. N \in Nat
  BY ConnectionAssumption
<1>1. PICK f : /\ process_outbound_chain(t) = f[N] /\ f[0] = t
               /\ \A i \in 1..N : f[i] = Turn(t, f[i - 1], i)
  BY ChainSteps
<1> DEFINE Bad == {i \in 0..N : ~Reached(t, f[i], i)}
<1> SUFFICES ASSUME Bad # {} PROVE FALSE
  BY <1>0, <1>1
<1>2. PICK b \in Bad : \A m \in Bad : b <= m
  <2>1. Bad \in SUBSET Nat
    BY <1>0
  <2> QED
    BY <2>1, LeastNat
<1>3. CASE b = 0
  <2>1. Reached(t, t, 0)
    BY DEF Reached, Message, Positions
  <2> QED
    BY <1>1, <1>3, <2>1
<1>4. CASE b # 0
  <2>1. b \in 1..N /\ b - 1 \in 0..N /\ b - 1 \notin Bad
    BY <1>0, <1>2, <1>4
  <2>2. Reached(t, f[b - 1], b - 1)
    BY <2>1
  <2>3. Reached(t, f[b], b)
    BY <1>1, <2>1, <2>2, TurnReached
  <2> QED
    BY <2>3
<1> QED
  BY <1>3, <1>4

LEMMA OutgoingReady ==
    ASSUME NEW t \in Message, Fresh(t)
    PROVE  /\ Outgoing(t) \in Message /\ Outgoing(t).nr = t.nr
           /\ Outgoing(t).msg # Gone => Ready(Outgoing(t))
<1> DEFINE u == process_outbound_chain(t)
           N == Len(Middlewares)
           w == Outgoing(t)
<1>0. N \in Nat /\ N > 0
  BY ConnectionAssumption
<1>1. Reached(t, u, N)
  BY ChainReached DEF Fresh
<1>2. t.from \in Positions /\ t.sender \in Positions /\ t.from \in Nat /\ t.from < N /\ t.sender \in Nat
  BY <1>0 DEF Message, Positions
<1>3. w = [u EXCEPT !.json = JsonOf(t, u)]
  BY DEF Outgoing
<1>4. JsonOf(t, u) \in Payload
  BY <1>1 DEF JsonOf, Reached, Message
<1> HIDE DEF u
<1>5. /\ w \in Message /\ w.nr = t.nr /\ w.sender = t.sender /\ w.msg = u.msg
      /\ w.by = u.by /\ w.json = JsonOf(t, u) /\ w.orig = t.msg
  BY <1>1, <1>3, <1>4 DEF Reached, Message, Fresh
<1> HIDE DEF w
<1>6. w.by = [k \in 1..(N - t.from) |-> t.from + k - 1]
  BY <1>1, <1>2, <1>5 DEF Reached
<1>7. ASSUME w.msg # Gone PROVE Ready(w)
  <2>1. ASSUME NEW p \in w.sender..Outermost
        PROVE  \E k \in DOMAIN w.by : w.by[k] = p
    <3>1. p \in Int /\ t.from <= p /\ p <= N - 1
      BY <1>0, <1>2, <1>5 DEF Outermost, Fresh
    <3>2. p - t.from + 1 \in 1..(N - t.from) /\ t.from + (p - t.from + 1) - 1 = p
      BY <3>1, <1>0, <1>2
    <3> QED
      BY <3>2, <1>6
  <2>2. ASSUME NEW k \in 1..(Len(w.by) - 1)
        PROVE  w.by[k] < w.by[k + 1]
    <3>1. Len(w.by) = N - t.from
      BY <1>0, <1>2, <1>6
    <3>2. k \in 1..(N - t.from) /\ k + 1 \in 1..(N - t.from)
      BY <3>1, <1>0, <1>2
    <3> QED
      BY <3>2, <1>6, <1>2
  <2>3. Rewrite[Gone] = Gone /\ w.sender = 0 /\ w.orig.type = "EVENT" => w.orig.visible
    <3>1. w.sender = 0 => t.from = 0
      BY <1>2, <1>5 DEF Fresh
    <3>2. t.from = 0 /\ Hidden(t.msg) => u.msg = Gone
      BY <1>0, <1>1 DEF Reached
    <3> QED
      BY <3>1, <3>2, <1>5, <1>7 DEF Hidden
  <2>4. \/ w.json = w.msg
        \/ /\ w.json = w.orig /\ w.orig.type = "EVENT"
           /\ w.msg.type = "EVENT" => w.msg.id = w.orig.id
    BY <1>5 DEF JsonOf, Fresh
  <2> QED
    BY <2>1, <2>2, <2>3, <2>4 DEF Ready
<1> QED
  BY <1>5, <1>7 DEF w

KeptOf(s, n, f) ==
    f = [i \in 0..n |-> IF i = 0 THEN <<>>
                        ELSE IF s[i].msg = Gone THEN f[i - 1] ELSE Append(f[i - 1], s[i])]

(* The recursive definition of Survivors has a solution. *)
LEMMA KeptExists ==
    ASSUME NEW s, NEW n \in Nat
    PROVE  \E f : KeptOf(s, n, f)
<1> DEFINE Bad == {m \in Nat : ~ \E f : KeptOf(s, m, f)}
<1> SUFFICES ASSUME Bad # {} PROVE FALSE
  OBVIOUS
<1>1. PICK b \in Bad : \A m \in Bad : b <= m
  BY LeastNat
<1>2. CASE b = 0
  <2>1. KeptOf(s, 0, [i \in 0..0 |-> <<>>])
    BY DEF KeptOf
  <2> QED
    BY <1>2, <2>1
<1>3. CASE b # 0
  <2>1. PICK f : KeptOf(s, b - 1, f)
    BY <1>1, <1>3
  <2> DEFINE last == IF s[b].msg = Gone THEN f[b - 1] ELSE Append(f[b - 1], s[b])
             g == [i \in 0..b |-> IF i = b THEN last ELSE f[i]]
  <2>2. ASSUME NEW i \in 0..b
        PROVE  g[i] = IF i = 0 THEN <<>>
                      ELSE IF s[i].msg = Gone THEN g[i - 1] ELSE Append(g[i - 1], s[i])
    <3>1. CASE i = b
      BY <3>1, <1>3
    <3>2. CASE i # b
      <4>1. i \in 0..(b - 1) /\ (i # 0 => i - 1 \in 0..b /\ i - 1 # b)
        BY <3>2
      <4>2. f[i] = IF i = 0 THEN <<>>
                   ELSE IF s[i].msg = Gone THEN f[i - 1] ELSE Append(f[i - 1], s[i])
        BY <4>1, <2>1 DEF KeptOf
      <4> QED
        BY <4>1, <4>2, <3>2
    <3> QED
      BY <3>1, <3>2
  <2>3. g = [i \in 0..b |-> g[i]]
    OBVIOUS
  <2>4. KeptOf(s, b, g)
    <3> HIDE DEF g
    <3> QED
      BY <2>2, <2>3 DEF KeptOf
  <2> QED
    BY <2>4
<1> QED
  BY <1>2, <1>3

(* The survivors of the first i messages. *)
SurvivorsOf(s, r, i) ==
    /\ r \in Seq(Message) /\ Len(r) <= i
    /\ \A k \in 1..Len(r) : r[k].msg # Gone /\ \E j \in 1..i : r[k] = s[j]
    /\ Increasing(s) => Increasing(r)

LEMMA SurvivorsProps ==
    ASSUME NEW s \in Seq(Message)
    PROVE  SurvivorsOf(s, Survivors(s), Len(s))
<1> DEFINE N == Len(s)
           f == CHOOSE g : KeptOf(s, N, g)
<1>0. N \in Nat
  OBVIOUS
<1>1. KeptOf(s, N, f)
  BY <1>0, KeptExists
<1>2. Survivors(s) = f[N]
  BY DEF Survivors, KeptOf
<1> HIDE DEF f
<1>3. /\ f[0] = <<>>
      /\ \A i \in 1..N : f[i] = IF s[i].msg = Gone THEN f[i - 1] ELSE Append(f[i - 1], s[i])
  <2> DEFINE e(i) == IF i = 0 THEN <<>>
                     ELSE IF s[i].msg = Gone THEN f[i - 1] ELSE Append(f[i - 1], s[i])
  <2>1. f = [i \in 0..N |-> e(i)]
    BY <1>1 DEF KeptOf
  <2> HIDE DEF e
  <2>2. \A i \in 0..N : f[i] = e(i)
    BY <2>1
  <2> QED
    BY <1>0, <2>2 DEF e
<1> DEFINE Bad == {i \in 0..N : ~SurvivorsOf(s, f[i], i)}
<1> SUFFICES ASSUME Bad # {} PROVE FALSE
  BY <1>0, <1>2
<1>4. PICK b \in Bad : \A m \in Bad : b <= m
  <2>1. Bad \in SUBSET Nat
    BY <1>0
  <2> QED
    BY <2>1, LeastNat
<1>5. CASE b = 0
  <2>1. <<>> \in Seq(Message) /\ Len(<<>>) = 0
    OBVIOUS
  <2>2. SurvivorsOf(s, <<>>, 0)
    BY <2>1 DEF SurvivorsOf, Increasing
  <2> QED
    BY <1>3, <1>5, <2>2
<1>6. CASE b # 0
  <2>1. b \in 1..N /\ b - 1 \in 0..N /\ b - 1 \notin Bad /\ b \in Nat
    BY <1>0, <1>4, <1>6
  <2> DEFINE r == f[b - 1]
  <2>2. SurvivorsOf(s, r, b - 1)
    BY <2>1
  <2> HIDE DEF r
  <2>3. CASE s[b].msg = Gone
    <3>1. f[b] = r
      BY <2>1, <2>3, <1>3 DEF r
    <3>2. SurvivorsOf(s, r, b)
      BY <2>1, <2>2 DEF SurvivorsOf
    <3> QED
      BY <3>1, <3>2
  <2>4. CASE s[b].msg # Gone
    <3>1. f[b] = Append(r, s[b])
      BY <2>1, <2>4, <1>3 DEF r
    <3> DEFINE q == Append(r, s[b])
    <3>2. r \in Seq(Message) /\ s[b] \in Message /\ Len(r) \in Nat /\ Len(r) <= b - 1
      BY <2>1, <2>2 DEF SurvivorsOf
    <3>3. /\ q \in Seq(Message) /\ Len(q) = Len(r) + 1
          /\ \A k \in 1..Len(r) : q[k] = r[k]
          /\ q[Len(r) + 1] = s[b]
      BY <3>2
    <3> HIDE DEF q
    <3>4. ASSUME NEW k \in 1..Len(q)
          PROVE  q[k].msg # Gone /\ \E j \in 1..b : q[k] = s[j]
      <4>1. CASE k = Len(r) + 1
        BY <4>1, <3>3, <2>4, <2>1
      <4>2. CASE k # Len(r) + 1
        <5>1. k \in 1..Len(r)
          BY <4>2, <3>2, <3>3
        <5>2. q[k] = r[k] /\ r[k].msg # Gone /\ \E j \in 1..(b - 1) : r[k] = s[j]
          BY <5>1, <3>3, <2>2 DEF SurvivorsOf
        <5> QED
          BY <5>2, <2>1
      <4> QED
        BY <4>1, <4>2
    <3>5. ASSUME Increasing(s) PROVE Increasing(q)
      <4> SUFFICES ASSUME NEW j \in 1..Len(q), NEW k \in 1..Len(q), j < k
                   PROVE  q[j].nr < q[k].nr
        BY DEF Increasing
      <4>1. j \in 1..Len(r) /\ q[j] = r[j]
        BY <3>2, <3>3
      <4>2. CASE k = Len(r) + 1
        <5>1. PICK i \in 1..(b - 1) : r[j] = s[i]
          BY <4>1, <2>2 DEF SurvivorsOf
        <5>2. s[i].nr < s[b].nr
          BY <3>5, <2>1 DEF Increasing
        <5> QED
          BY <5>1, <5>2, <4>1, <4>2, <3>3
      <4>3. CASE k # Len(r) + 1
        <5>0. k \in Int /\ 1 <= k /\ k <= Len(q) /\ Len(q) = Len(r) + 1
          BY <3>3, <3>2
        <5>1. Len(r) \in Nat
          BY <3>2
        <5>2. k \in 1..Len(r)
          BY <5>0, <5>1, <4>3
        <5>3. q[k] = r[k]
          BY <5>2, <3>3
        <5> QED
          BY <5>2, <5>3, <4>1, <3>5, <2>2 DEF SurvivorsOf, Increasing
      <4> QED
        BY <4>2, <4>3
    <3>6. SurvivorsOf(s, q, b)
      <4>1. q \in Seq(Message) /\ Len(q) <= b
        BY <3>2, <3>3, <2>1
      <4> QED
        BY <4>1, <3>4, <3>5 DEF SurvivorsOf
    <3> QED
      BY <3>1, <3>6 DEF q
  <2> QED
    BY <2>3, <2>4
<1> QED
  BY <1>5, <1>6

-----------------------------------------------------------------------------
(* Permits *)

LEMMA HoldersFinite == IsFiniteSet(Holders) /\ Cardinality(Holders) \in Nat
  BY ConnectionAssumption, FS_Subset, FS_CardinalityType DEF Holders

LEMMA HoldersFinitePrime == IsFiniteSet(Holders') /\ Cardinality(Holders') \in Nat
  BY ConnectionAssumption, FS_Subset, FS_CardinalityType DEF Holders

(* The types of permits follow from the equation. *)
LEMMA PermitBounds ==
    ASSUME permits' \in Nat, others' \in Nat, PermitsExact'
    PROVE  permits' \in 0..MaxConnections
<1>1. permits' + others' + Cardinality(Holders') = MaxConnections
  BY DEF PermitsExact, Holders
<1> QED
  BY <1>1, HoldersFinitePrime, ConnectionAssumption

Permits == permits' \in 0..MaxConnections /\ others' \in Nat /\ PermitsExact'

LEMMA PermitStay ==
    ASSUME ConnTypeOK, PermitsExact, UNCHANGED <<permits, others>>,
           \A d \in Conns : conn'[d].pc \in Inside <=> conn[d].pc \in Inside
    PROVE  Permits
<1>1. Holders' = Holders
  BY DEF Holders
<1>2. PermitsExact'
  BY <1>1 DEF PermitsExact, Holders
<1> QED
  BY <1>2 DEF Permits, ConnTypeOK

LEMMA PermitTaken ==
    ASSUME ConnTypeOK, PermitsExact, NEW c \in Conns, permits' = permits - 1, permits > 0,
           others' = others, conn[c].pc \notin Inside, conn'[c].pc \in Inside,
           \A d \in Conns \ {c} : conn'[d].pc \in Inside <=> conn[d].pc \in Inside
    PROVE  Permits
<1>1. Holders' = Holders \cup {c} /\ c \notin Holders
  BY DEF Holders
<1>2. Cardinality(Holders') = Cardinality(Holders) + 1
  BY <1>1, HoldersFinite, FS_AddElement
<1>3. permits' \in Nat /\ others' \in Nat /\ permits \in Int /\ others \in Int
  BY ConnectionAssumption DEF ConnTypeOK
<1>4. PermitsExact'
  <2>1. permits + others + Cardinality(Holders) = MaxConnections
    BY DEF PermitsExact, Holders
  <2>2. permits' + others' + Cardinality(Holders') = MaxConnections
    BY <2>1, <1>2, <1>3, HoldersFinite, ConnectionAssumption
  <2> QED
    BY <2>2 DEF PermitsExact, Holders
<1> QED
  BY <1>3, <1>4, PermitBounds DEF Permits

LEMMA PermitReturned ==
    ASSUME ConnTypeOK, PermitsExact, NEW c \in Conns, permits' = permits + 1,
           others' = others, conn[c].pc \in Inside, conn'[c].pc \notin Inside,
           \A d \in Conns \ {c} : conn'[d].pc \in Inside <=> conn[d].pc \in Inside
    PROVE  Permits
<1>1. Holders' = Holders \ {c} /\ c \in Holders
  BY DEF Holders
<1>2. Cardinality(Holders') = Cardinality(Holders) - 1
  BY <1>1, HoldersFinite, FS_RemoveElement
<1>3. permits' \in Nat /\ others' \in Nat /\ permits \in Int /\ others \in Int
  BY ConnectionAssumption DEF ConnTypeOK
<1>4. PermitsExact'
  <2>1. permits + others + Cardinality(Holders) = MaxConnections
    BY DEF PermitsExact, Holders
  <2>2. permits' + others' + Cardinality(Holders') = MaxConnections
    BY <2>1, <1>2, <1>3, HoldersFinite, ConnectionAssumption
  <2> QED
    BY <2>2 DEF PermitsExact, Holders
<1> QED
  BY <1>3, <1>4, PermitBounds DEF Permits

LEMMA PermitStep ==
    ASSUME ConnTypeOK, PermitsExact, [Next]_connVars
    PROVE  Permits
<1> USE DEF Inside
<1>1. CASE UNCHANGED connVars
  <2>1. \A d \in Conns : conn'[d].pc \in Inside <=> conn[d].pc \in Inside
    BY <1>1 DEF connVars
  <2> QED
    BY <2>1, <1>1, PermitStay DEF connVars
<1>2. CASE OthersTake \/ OthersReturn
  <2>1. Holders' = Holders
    BY <1>2 DEF Holders, OthersTake, OthersReturn
  <2>2. permits' \in Nat /\ others' \in Nat /\ permits' + others' = permits + others
    BY <1>2 DEF ConnTypeOK, OthersTake, OthersReturn
  <2>3. PermitsExact'
    BY <2>1, <2>2 DEF PermitsExact, Holders
  <2> QED
    BY <2>2, <2>3, PermitBounds DEF Permits
<1>3. ASSUME NEW c \in Conns, Handler(c) \/ Client(c) \/ Outbound(c) \/ Tick(c) \/ Distribute(c)
      PROVE  Permits
  <2> DEFINE Others == \A d \in Conns \ {c} : conn'[d].pc \in Inside <=> conn[d].pc \in Inside
             Stays  == UNCHANGED <<permits, others>> /\ (conn'[c].pc \in Inside <=> conn[c].pc \in Inside)
  <2>0. ASSUME Others, Stays PROVE Permits
    <3>1. \A d \in Conns : conn'[d].pc \in Inside <=> conn[d].pc \in Inside
      BY <2>0
    <3> QED
      BY <2>0, <3>1, PermitStay
  <2>1. CASE Upgrade(c)
    <3>1. Others
      BY <2>1 DEF Upgrade, ConnTypeOK
    <3>2. CASE permits = 0
      BY <2>0, <2>1, <3>1, <3>2 DEF Upgrade, ConnTypeOK
    <3>3. CASE permits # 0
      <4>1. /\ permits' = permits - 1 /\ others' = others /\ permits > 0
            /\ conn[c].pc \notin Inside /\ conn'[c].pc \in Inside
        BY <2>1, <3>3 DEF Upgrade, ConnTypeOK
      <4> QED
        BY <3>1, <4>1, PermitTaken
    <3> QED
      BY <3>2, <3>3
  <2>2. CASE ConnectFails(c) \/ Join(c)
    <3>1. /\ Others /\ permits' = permits + 1 /\ others' = others
          /\ conn[c].pc \in Inside /\ conn'[c].pc \notin Inside
      BY <2>2 DEF ConnectFails, Join, ConnTypeOK
    <3> QED
      BY <3>1, PermitReturned
  <2>3. CASE ConnectHook(c) \/ SendNotice(c) \/ Timeout(c)
    <3>1. Others /\ Stays
      BY <2>3 DEF ConnectHook, SendNotice, Timeout, Leave, ConnTypeOK
    <3> QED
      BY <3>1, <2>0
  <2>4. CASE DisconnectHook(c) \/ DisconnectFails(c)
    <3>1. Others /\ Stays
      BY <2>4 DEF DisconnectHook, DisconnectFails, AfterHook, ConnTypeOK
    <3> QED
      BY <3>1, <2>0
  <2>5. CASE OnText(c) \/ OnBadText(c) \/ OnOther(c) \/ OnClose(c) \/ Tick(c)
    <3>1. Others /\ Stays
      BY <2>5 DEF OnText, OnBadText, OnOther, OnClose, Leave, Tick, ConnTypeOK
    <3> QED
      BY <3>1, <2>0
  <2>6. CASE Write(c) \/ WriteFails(c) \/ CloseSink(c) \/ Outbound(c) \/ Distribute(c)
    <3>1. Others /\ Stays
      BY <2>6 DEF Write, WriteFails, CloseSink, Outbound, TakeBatch, BatchWritten, Cancelled,
                  Distribute
    <3> QED
      BY <3>1, <2>0
  <2> QED
    BY <1>3, <2>1, <2>2, <2>3, <2>4, <2>5, <2>6 DEF Handler, Client
<1> QED
  BY <1>1, <1>2, <1>3 DEF Next

-----------------------------------------------------------------------------
(* Hooks *)

(* Steps that run no hook and leave handle_socket where it is. *)
LEMMA HookFrame ==
    ASSUME NEW d \in Conns, HooksSoFar(d), hooked'[d] = hooked[d], failed \subseteq failed',
           conn'[d].pc = conn[d].pc, conn'[d].hook = conn[d].hook
    PROVE  HooksSoFar(d)'
  BY DEF HooksSoFar

LEMMA HookStep ==
    ASSUME ConnTypeOK, \A c \in Conns : HooksSoFar(c), [Next]_connVars
    PROVE  \A c \in Conns : HooksSoFar(c)'
<1> USE ConnectionAssumption
<1>1. CASE UNCHANGED connVars
  BY <1>1, HookFrame DEF connVars
<1>2. CASE OthersTake \/ OthersReturn
  BY <1>2, HookFrame DEF OthersTake, OthersReturn
<1>3. ASSUME NEW c \in Conns, Handler(c) \/ Client(c) \/ Outbound(c) \/ Tick(c) \/ Distribute(c)
      PROVE  \A d \in Conns : HooksSoFar(d)'
  <2> DEFINE Others == \A d \in Conns \ {c} :
                /\ hooked'[d] = hooked[d] /\ failed \subseteq failed'
                /\ conn'[d].pc = conn[d].pc /\ conn'[d].hook = conn[d].hook
  <2>0. ASSUME Others, HooksSoFar(c)' PROVE \A d \in Conns : HooksSoFar(d)'
    BY <2>0, HookFrame
  <2>1. CASE Upgrade(c)
    <3>1. Others
      BY <2>1 DEF Upgrade, ConnTypeOK
    <3>2. /\ conn[c].pc = "new" /\ conn'[c].pc \in {"closed", "connecting"}
          /\ conn'[c].hook = conn[c].hook /\ hooked'[c] = hooked[c]
      BY <2>1 DEF Upgrade, ConnTypeOK
    <3>3. hooked[c] = {} /\ conn[c].hook = Outermost
      BY <3>2 DEF HooksSoFar
    <3>4. {p \in Positions : p > Outermost} = {}
      BY DEF Positions, Outermost
    <3>5. HooksSoFar(c)'
      BY <3>2, <3>3, <3>4 DEF HooksSoFar
    <3> QED
      BY <2>0, <3>1, <3>5
  <2>2. CASE ConnectHook(c)
    <3>1. Others
      BY <2>2 DEF ConnectHook, ConnTypeOK
    <3> DEFINE p == conn[c].hook
    <3>2. /\ conn[c].pc = "connecting" /\ hooked'[c] = hooked[c] \cup {p}
          /\ conn'[c].pc = IF p = 0 THEN "waiting" ELSE "connecting"
          /\ conn'[c].hook = IF p = 0 THEN 0 ELSE p - 1
          /\ p \in Positions
      BY <2>2 DEF ConnectHook, ConnTypeOK
    <3>3. hooked[c] = {q \in Positions : q > p}
      BY <3>2 DEF HooksSoFar
    <3> HIDE DEF p
    <3>4. hooked'[c] = {q \in Positions : q >= p}
      BY <3>2, <3>3 DEF Positions
    <3>5. CASE p = 0
      <4>1. hooked'[c] = Positions
        BY <3>4, <3>5 DEF Positions
      <4> QED
        BY <2>0, <3>1, <3>2, <3>5, <4>1 DEF HooksSoFar
    <3>6. CASE p # 0
      <4>1. hooked'[c] = {q \in Positions : q > p - 1}
        BY <3>2, <3>4 DEF Positions
      <4> QED
        BY <2>0, <3>1, <3>2, <3>6, <4>1 DEF HooksSoFar
    <3> QED
      BY <3>5, <3>6
  <2>3. CASE ConnectFails(c) \/ DisconnectFails(c)
    <3>1. Others /\ conn'[c].pc \in {"joining", "closed"} /\ c \in failed'
      <4>1. CASE ConnectFails(c)
        BY <4>1 DEF ConnectFails, ConnTypeOK
      <4>2. CASE DisconnectFails(c)
        <5>1. \A d \in Conns \ {c} : conn'[d] = conn[d]
          BY <4>2 DEF DisconnectFails, ConnTypeOK
        <5>2. conn'[c].pc = "joining"
          BY <4>2 DEF DisconnectFails, ConnTypeOK
        <5> QED
          BY <4>2, <5>1, <5>2 DEF DisconnectFails
      <4> QED
        BY <2>3, <4>1, <4>2
    <3> QED
      BY <2>0, <3>1 DEF HooksSoFar
  <2>4. CASE DisconnectHook(c)
    <3>1. Others
      BY <2>4 DEF DisconnectHook, ConnTypeOK
    <3> DEFINE p == conn[c].hook
    <3>2. /\ conn[c].pc = "leaving" /\ hooked'[c] = hooked[c] \ {p}
          /\ conn'[c].pc = IF p = Outermost THEN "joining" ELSE "leaving"
          /\ conn'[c].hook = IF p = Outermost THEN p ELSE p + 1
          /\ p \in Positions
      BY <2>4 DEF DisconnectHook, AfterHook, ConnTypeOK
    <3>3. hooked[c] = {q \in Positions : q >= p}
      BY <3>2 DEF HooksSoFar
    <3> HIDE DEF p
    <3>4. hooked'[c] = {q \in Positions : q >= p + 1}
      BY <3>2, <3>3 DEF Positions
    <3>5. CASE p = Outermost
      <4>1. hooked'[c] = {}
        BY <3>4, <3>5 DEF Positions, Outermost
      <4> QED
        BY <2>0, <3>1, <3>2, <3>5, <4>1 DEF HooksSoFar
    <3>6. CASE p # Outermost
      BY <2>0, <3>1, <3>2, <3>4, <3>6 DEF HooksSoFar
    <3> QED
      BY <3>5, <3>6
  <2>5. CASE OnClose(c) \/ Timeout(c)
    <3>1. /\ Others /\ conn[c].pc = "waiting" /\ conn'[c].pc = "leaving" /\ conn'[c].hook = 0
          /\ hooked'[c] = hooked[c]
      <4>0. conn \in [Conns -> [pc : Inside \cup {"new", "closed"}, hook : Positions, age : 0..MaxDuration,
                                idle : 0..IdleTimeout, cancelled : BOOLEAN]]
        BY DEF ConnTypeOK
      <4>1. CASE OnClose(c)
        <5>1. conn' = [conn EXCEPT ![c].pc = "leaving", ![c].hook = 0]
          BY <4>1 DEF OnClose, Leave
        <5> QED
          BY <4>0, <4>1, <5>1 DEF OnClose
      <4>2. CASE Timeout(c)
        <5>1. conn' = [conn EXCEPT ![c].pc = "leaving", ![c].hook = 0]
          BY <4>2 DEF Timeout, Leave
        <5> QED
          BY <4>0, <4>2, <5>1 DEF Timeout
      <4> QED
        BY <2>5, <4>1, <4>2
    <3>2. hooked[c] = {q \in Positions : q >= 0}
      BY <3>1 DEF HooksSoFar, Positions
    <3> QED
      BY <2>0, <3>1, <3>2 DEF HooksSoFar
  <2>6. CASE Join(c)
    <3>1. /\ Others /\ conn[c].pc = "joining" /\ conn'[c].pc = "closed"
          /\ hooked'[c] = hooked[c] /\ failed' = failed
      BY <2>6 DEF Join, ConnTypeOK
    <3> QED
      BY <2>0, <3>1 DEF HooksSoFar
  <2>7. CASE OnText(c) \/ OnBadText(c) \/ SendNotice(c) \/ OnOther(c) \/ Tick(c)
    <3>1. /\ Others /\ {conn[c].pc, conn'[c].pc} \subseteq {"waiting", "sending"}
          /\ hooked'[c] = hooked[c]
      <4>1. CASE OnText(c)
        BY <4>1 DEF OnText, ConnTypeOK
      <4>2. CASE OnBadText(c)
        BY <4>2 DEF OnBadText, ConnTypeOK
      <4>3. CASE SendNotice(c)
        BY <4>3 DEF SendNotice, ConnTypeOK
      <4>4. CASE OnOther(c)
        BY <4>4 DEF OnOther, ConnTypeOK
      <4>5. CASE Tick(c)
        BY <4>5 DEF Tick, ConnTypeOK
      <4> QED
        BY <2>7, <4>1, <4>2, <4>3, <4>4, <4>5
    <3> QED
      BY <2>0, <3>1 DEF HooksSoFar
  <2>8. CASE Write(c) \/ WriteFails(c) \/ CloseSink(c) \/ Outbound(c) \/ Distribute(c)
    <3>1. UNCHANGED <<conn, hooked, failed>>
      BY <2>8 DEF Write, WriteFails, CloseSink, Outbound, TakeBatch, BatchWritten, Cancelled,
                  Distribute
    <3> QED
      BY <3>1, HookFrame
  <2> QED
    BY <1>3, <2>1, <2>2, <2>3, <2>4, <2>5, <2>6, <2>7, <2>8 DEF Handler, Client
<1> QED
  BY <1>1, <1>2, <1>3 DEF Next

LEMMA CountedFinite == IsFiniteSet(Counted)
<1>1. IsFiniteSet(Positions)
  BY ConnectionAssumption, FS_Interval DEF Positions
<1>2. IsFiniteSet(Conns \X Positions)
  BY <1>1, ConnectionAssumption, FS_Product
<1> QED
  BY <1>2, FS_Subset DEF Counted

LEMMA GaugeStep ==
    ASSUME ConnTypeOK, \A c \in Conns : HooksSoFar(c), gauge = Cardinality(Counted),
           [Next]_connVars
    PROVE  gauge' = Cardinality(Counted') /\ gauge' \in Int
<1>0. Cardinality(Counted) \in Nat
  BY CountedFinite, FS_CardinalityType
<1>1. ASSUME UNCHANGED <<hooked, gauge>> PROVE gauge' = Cardinality(Counted') /\ gauge' \in Int
  BY <1>0, <1>1 DEF Counted
<1>2. ASSUME NEW c \in Conns, ConnectHook(c)
      PROVE  gauge' = Cardinality(Counted') /\ gauge' \in Int
  <2> DEFINE p == conn[c].hook
  <2>1. p \in Positions /\ hooked' = [hooked EXCEPT ![c] = @ \cup {p}] /\ p \notin hooked[c]
    <3>1. p \in Positions /\ conn[c].pc = "connecting" /\ hooked' = [hooked EXCEPT ![c] = @ \cup {p}]
      BY <1>2 DEF ConnectHook, ConnTypeOK
    <3> QED
      BY <3>1 DEF HooksSoFar, Positions
  <2>2. gauge' = IF Middlewares[p + 1] = "metrics" THEN gauge + 1 ELSE gauge
    BY <1>2 DEF ConnectHook, increment_active_connections
  <2> HIDE DEF p
  <2>3. CASE Middlewares[p + 1] = "metrics"
    <3>1. Counted' = Counted \cup {<<c, p>>} /\ <<c, p>> \notin Counted
      BY <2>1, <2>3 DEF Counted, ConnTypeOK
    <3> QED
      <4>1. Cardinality(Counted') = Cardinality(Counted) + 1
        BY <3>1, CountedFinite, FS_AddElement
      <4> QED
        BY <4>1, <2>2, <2>3, <1>0
  <2>4. CASE Middlewares[p + 1] # "metrics"
    <3>1. Counted' = Counted
      BY <2>1, <2>4 DEF Counted, ConnTypeOK
    <3> QED
      BY <3>1, <2>2, <2>4, <1>0
  <2> QED
    BY <2>3, <2>4
<1>3. ASSUME NEW c \in Conns, DisconnectHook(c)
      PROVE  gauge' = Cardinality(Counted') /\ gauge' \in Int
  <2> DEFINE p == conn[c].hook
  <2>1. p \in Positions /\ hooked' = [hooked EXCEPT ![c] = @ \ {p}] /\ p \in hooked[c]
    <3>1. p \in Positions /\ conn[c].pc = "leaving" /\ hooked' = [hooked EXCEPT ![c] = @ \ {p}]
      BY <1>3 DEF DisconnectHook, ConnTypeOK
    <3> QED
      BY <3>1 DEF HooksSoFar, Positions
  <2>2. gauge' = IF Middlewares[p + 1] = "metrics" THEN gauge - 1 ELSE gauge
    BY <1>3 DEF DisconnectHook, decrement_active_connections
  <2> HIDE DEF p
  <2>3. CASE Middlewares[p + 1] = "metrics"
    <3>1. Counted' = Counted \ {<<c, p>>} /\ <<c, p>> \in Counted
      BY <2>1, <2>3 DEF Counted, ConnTypeOK
    <3> QED
      <4>1. Cardinality(Counted') = Cardinality(Counted) - 1
        BY <3>1, CountedFinite, FS_RemoveElement
      <4> QED
        BY <4>1, <2>2, <2>3, <1>0
  <2>4. CASE Middlewares[p + 1] # "metrics"
    <3>1. Counted' = Counted
      BY <2>1, <2>4 DEF Counted, ConnTypeOK
    <3> QED
      BY <3>1, <2>2, <2>4, <1>0
  <2> QED
    BY <2>3, <2>4
<1>4. \/ UNCHANGED <<hooked, gauge>>
      \/ \E c \in Conns : ConnectHook(c) \/ DisconnectHook(c)
  BY DEF Next, connVars, OthersTake, OthersReturn, Handler, Client, Outbound, Upgrade,
         ConnectFails, SendNotice, Timeout, DisconnectFails, Join, OnText, OnBadText, OnOther,
         OnClose, Write, WriteFails, CloseSink, TakeBatch, BatchWritten, Cancelled, Tick,
         Distribute
<1> QED
  BY <1>1, <1>2, <1>3, <1>4

-----------------------------------------------------------------------------
(* Messages *)

New(c, t) == t \in Message /\ Fresh(t) /\ t.nr = sent[c] + 1

LEMMA SentAreNew ==
    ASSUME ConnTypeOK, NEW c \in Conns, NEW p \in Positions, NEW m \in Payload
    PROVE  /\ New(c, send(c, p, m)) /\ New(c, send_bypass(c, p, m))
           /\ m.type = "EVENT" => New(c, send_with_json(c, p, m))
<1>1. sent[c] + 1 \in Nat /\ NoJson \in Payload /\ <<>> \in Seq(Positions)
  BY GoneType DEF ConnTypeOK, NoJson
<1>2. p \in Nat /\ (IF p > 0 THEN p - 1 ELSE 0) \in Positions /\ (IF p > 0 THEN p - 1 ELSE 0) <= p
  BY ConnectionAssumption DEF Positions
<1>3. New(c, send(c, p, m))
  BY <1>1, <1>2 DEF New, send, Tagged, Message, Fresh
<1>4. New(c, send_bypass(c, p, m))
  <2> DEFINE q == IF p > 0 THEN p - 1 ELSE 0
  <2>1. send_bypass(c, p, m) = [nr |-> sent[c] + 1, sender |-> p, from |-> q, msg |-> m,
                                json |-> NoJson, orig |-> m, by |-> <<>>]
    BY DEF send_bypass, Tagged
  <2> HIDE DEF q
  <2> QED
    BY <1>1, <1>2, <2>1 DEF New, Message, Fresh, q
<1>5. ASSUME m.type = "EVENT" PROVE New(c, send_with_json(c, p, m))
  BY <1>1, <1>2, <1>5 DEF New, send_with_json, Tagged, Message, Fresh
<1> QED
  BY <1>3, <1>4, <1>5

(* The part of ConnTypeOK about messages. *)
Queues ==
    /\ channel \in [Conns -> Seq(Message)]
    /\ task \in [Conns -> [pc : {"none", "select", "writing", "closing", "ended"},
                          todo : Seq(Message)]]
    /\ \A c \in Conns : Len(channel[c]) <= Capacity /\ Len(task[c].todo) <= BatchSize
    /\ sent \in [Conns -> Nat] /\ written \in [Conns -> Message]

LEMMA Numbers ==
    ASSUME NEW s \in Seq(Message)
    PROVE  \A k \in 1..Len(s) : s[k].nr \in Nat
<1>1. \A k \in 1..Len(s) : s[k] \in Message
  OBVIOUS
<1> QED
  BY <1>1 DEF Message

LEMMA SendStep ==
    ASSUME Queues, \A d \in Conns : InTransit(d), UNCHANGED <<task, written>>,
           NEW c \in Conns, NEW t, New(c, t), try_send(c, t)
    PROVE  Queues' /\ \A d \in Conns : InTransit(d)'
<1> USE ConnectionAssumption
<1> DEFINE ch == channel[c]
<1>0. ch \in Seq(Message) /\ Len(ch) \in Nat /\ Len(ch) <= Capacity /\ t \in Message /\ t.nr = sent[c] + 1 /\ sent[c] \in Nat
  BY DEF Queues, New
<1>1. /\ channel' = [channel EXCEPT ![c] = IF Len(ch) < Capacity THEN Append(ch, t) ELSE ch]
      /\ sent' = [sent EXCEPT ![c] = @ + 1]
  BY DEF try_send
<1>2. \A d \in Conns \ {c} : channel'[d] = channel[d] /\ sent'[d] = sent[d]
  BY <1>1 DEF Queues
<1>3. sent'[c] = sent[c] + 1
  BY <1>1 DEF Queues
<1>4. channel'[c] = IF Len(ch) < Capacity THEN Append(ch, t) ELSE ch
  BY <1>1 DEF Queues
<1> HIDE DEF ch
<1>5. channel'[c] \in Seq(Message) /\ Len(channel'[c]) <= Capacity
  BY <1>0, <1>4
<1>6. Queues'
  <2>1. channel' \in [Conns -> Seq(Message)]
    <3>1. (IF Len(ch) < Capacity THEN Append(ch, t) ELSE ch) \in Seq(Message)
      BY <1>4, <1>5
    <3> QED
      BY <3>1, <1>1 DEF Queues
  <2>2. sent' \in [Conns -> Nat]
    BY <1>1 DEF Queues
  <2>3. \A d \in Conns : Len(channel'[d]) <= Capacity /\ Len(task'[d].todo) <= BatchSize
    BY <1>2, <1>5 DEF Queues
  <2> QED
    BY <2>1, <2>2, <2>3 DEF Queues
<1>7. ASSUME NEW d \in Conns PROVE InTransit(d)'
  <2>1. CASE d # c
    <3>1. channel'[d] = channel[d] /\ sent'[d] = sent[d] /\ task'[d] = task[d] /\ written'[d] = written[d]
      BY <2>1, <1>2
    <3> QED
      BY <3>1 DEF InTransit
  <2>2. CASE d = c
    <3> DEFINE todo == task[c].todo
    <3>1. /\ Increasing(ch) /\ Increasing(todo)
          /\ \A k \in 1..Len(ch) : Fresh(ch[k]) /\ ch[k].nr <= sent[c] /\ written[c].nr < ch[k].nr
          /\ \A k \in 1..Len(todo) :
                /\ Ready(todo[k]) /\ todo[k].nr <= sent[c] /\ written[c].nr < todo[k].nr
                /\ \A j \in 1..Len(ch) : todo[k].nr < ch[j].nr
          /\ written[c].nr <= sent[c] /\ (written[c] = Nothing \/ Ready(written[c]))
      BY DEF InTransit, ch
    <3>2. /\ todo \in Seq(Message) /\ written[c].nr \in Nat
          /\ \A k \in 1..Len(ch) : ch[k].nr \in Nat
          /\ \A k \in 1..Len(todo) : todo[k].nr \in Nat
      <4>1. todo \in Seq(Message) /\ written[c] \in Message
        BY DEF Queues
      <4> HIDE DEF todo
      <4>2. written[c].nr \in Nat
        BY <4>1 DEF Message
      <4> QED
        BY <4>1, <4>2, <1>0, Numbers
    <3> DEFINE q == channel'[c]
    <3>3. q \in Seq(Message) /\ \A k \in 1..Len(q) : (k \in 1..Len(ch) /\ q[k] = ch[k]) \/ (k = Len(ch) + 1 /\ q[k] = t)
      BY <1>0, <1>4
    <3> HIDE DEF q, todo
    <3>4. Increasing(q)
      <4> SUFFICES ASSUME NEW j \in 1..Len(q), NEW k \in 1..Len(q), j < k
                   PROVE  q[j].nr < q[k].nr
        BY DEF Increasing
      <4>9. /\ Len(ch) \in Nat /\ j \in Int /\ k \in Int /\ j < k
            /\ (k \in 1..Len(ch) \/ k = Len(ch) + 1)
        BY <3>3, <1>0
      <4>0. j # Len(ch) + 1
        BY <4>9
      <4>1. j \in 1..Len(ch) /\ q[j] = ch[j]
        BY <3>3, <4>0
      <4>2. CASE k \in 1..Len(ch) /\ q[k] = ch[k]
        BY <4>1, <4>2, <3>1 DEF Increasing
      <4>3. CASE q[k] = t
        BY <4>1, <4>3, <3>1, <3>2, <1>0
      <4> QED
        BY <4>2, <4>3, <3>3
    <3>5. \A k \in 1..Len(q) : Fresh(q[k]) /\ q[k].nr <= sent[c] + 1 /\ written[c].nr < q[k].nr
      <4>1. Fresh(t) /\ written[c].nr < t.nr
        BY <3>1, <3>2, <1>0 DEF New
      <4> SUFFICES ASSUME NEW k \in 1..Len(q)
                   PROVE  Fresh(q[k]) /\ q[k].nr <= sent[c] + 1 /\ written[c].nr < q[k].nr
        OBVIOUS
      <4>2. CASE k \in 1..Len(ch) /\ q[k] = ch[k]
        <5>1. ch[k].nr \in Nat /\ ch[k].nr <= sent[c] /\ Fresh(ch[k]) /\ written[c].nr < ch[k].nr
          BY <4>2, <3>1, <3>2
        <5> QED
          BY <5>1, <4>2, <1>0
      <4>3. CASE q[k] = t
        BY <4>1, <4>3, <1>0
      <4> QED
        BY <4>2, <4>3, <3>3
    <3>6. ASSUME NEW k \in 1..Len(todo)
          PROVE  /\ Ready(todo[k]) /\ todo[k].nr <= sent[c] + 1 /\ written[c].nr < todo[k].nr
                 /\ \A j \in 1..Len(q) : todo[k].nr < q[j].nr
      <4>1. /\ Ready(todo[k]) /\ todo[k].nr <= sent[c] /\ written[c].nr < todo[k].nr
            /\ todo[k].nr \in Nat /\ \A j \in 1..Len(ch) : todo[k].nr < ch[j].nr
        BY <3>1, <3>2
      <4>2. todo[k].nr <= sent[c] + 1 /\ todo[k].nr < t.nr
        BY <4>1, <1>0
      <4>3. \A j \in 1..Len(q) : todo[k].nr < q[j].nr
        BY <4>1, <4>2, <3>3
      <4> QED
        BY <4>1, <4>2, <4>3
    <3>7. written[c].nr <= sent[c] + 1
      BY <3>1, <3>2, <1>0
    <3> QED
      BY <2>2, <1>3, <3>1, <3>4, <3>5, <3>6, <3>7 DEF InTransit, q, todo
  <2> QED
    BY <2>1, <2>2
<1> QED
  BY <1>6, <1>7

LEMMA TransitFrame ==
    ASSUME NEW d \in Conns, InTransit(d), channel'[d] = channel[d], sent'[d] = sent[d],
           written'[d] = written[d], task'[d].todo = task[d].todo
    PROVE  InTransit(d)'
  BY DEF InTransit

LEMMA MappedTo ==
    ASSUME NEW S, NEW n \in Nat, NEW s \in [1..n -> S]
    PROVE  s \in Seq(S) /\ Len(s) = n
  OBVIOUS

LEMMA RestOf ==
    ASSUME NEW S, NEW s \in Seq(S), NEW n \in Nat, n <= Len(s)
    PROVE  /\ SubSeq(s, n + 1, Len(s)) \in Seq(S)
           /\ Len(SubSeq(s, n + 1, Len(s))) = Len(s) - n
           /\ \A k \in 1..(Len(s) - n) :
                 SubSeq(s, n + 1, Len(s))[k] = s[n + k] /\ n + k \in 1..Len(s)
  OBVIOUS

LEMMA TakeBatchStep ==
    ASSUME Queues, \A d \in Conns : InTransit(d), NEW c \in Conns, TakeBatch(c)
    PROVE  Queues' /\ \A d \in Conns : InTransit(d)'
<1> USE ConnectionAssumption
<1> DEFINE ch == channel[c]
           n == IF Len(ch) < BatchSize THEN Len(ch) ELSE BatchSize
           batch == BatchOf(ch)
           out == [i \in DOMAIN batch |-> Outgoing(batch[i])]
           rest == SubSeq(ch, Len(batch) + 1, Len(ch))
<1>0. ch \in Seq(Message) /\ Len(ch) \in Nat /\ n \in Nat /\ n <= Len(ch) /\ n <= BatchSize
  BY DEF Queues
<1>1. batch = SubSeq(ch, 1, n)
  BY DEF BatchOf
<1>2. batch \in Seq(Message) /\ Len(batch) = n /\ \A i \in 1..n : batch[i] = ch[i]
  BY <1>0, <1>1
<1>3. /\ Increasing(ch)
      /\ \A k \in 1..Len(ch) : Fresh(ch[k]) /\ ch[k].nr <= sent[c] /\ written[c].nr < ch[k].nr
      /\ written[c].nr <= sent[c] /\ (written[c] = Nothing \/ Ready(written[c]))
  BY DEF InTransit
<1>4. /\ channel' = [channel EXCEPT ![c] = rest]
      /\ task' = [task EXCEPT ![c] = [pc |-> "writing", todo |-> Survivors(out)]]
      /\ UNCHANGED <<sent, written>>
  BY DEF TakeBatch
<1> HIDE DEF ch, n, batch
<1>5. \A i \in 1..n : /\ Outgoing(ch[i]) \in Message /\ Outgoing(ch[i]).nr = ch[i].nr
                      /\ Outgoing(ch[i]).msg # Gone => Ready(Outgoing(ch[i]))
  <2> SUFFICES ASSUME NEW i \in 1..n
               PROVE  /\ Outgoing(ch[i]) \in Message /\ Outgoing(ch[i]).nr = ch[i].nr
                      /\ Outgoing(ch[i]).msg # Gone => Ready(Outgoing(ch[i]))
    OBVIOUS
  <2>1. i \in 1..Len(ch) /\ ch[i] \in Message
    BY <1>0
  <2>2. Fresh(ch[i])
    BY <2>1, <1>3
  <2> QED
    BY <2>1, <2>2, OutgoingReady
<1>6. DOMAIN batch = 1..n
  BY <1>0, <1>2
<1>7. out \in Seq(Message) /\ Len(out) = n /\ \A i \in 1..n : out[i] = Outgoing(ch[i])
  <2>1. out = [i \in 1..n |-> Outgoing(ch[i])]
    BY <1>2, <1>6
  <2>2. out \in [1..n -> Message]
    BY <1>5, <2>1
  <2> HIDE DEF out
  <2> QED
    BY <1>0, <2>1, <2>2, MappedTo
<1> HIDE DEF out
<1>8. Increasing(out)
  <2> SUFFICES ASSUME NEW j \in 1..n, NEW k \in 1..n, j < k
               PROVE  out[j].nr < out[k].nr
    BY <1>7 DEF Increasing
  <2>1. j \in 1..Len(ch) /\ k \in 1..Len(ch)
    BY <1>0
  <2> QED
    BY <2>1, <1>3, <1>5, <1>7 DEF Increasing
<1> DEFINE todo == Survivors(out)
<1>9. SurvivorsOf(out, todo, n)
  BY <1>7, SurvivorsProps
<1> HIDE DEF todo
<1>10. /\ todo \in Seq(Message) /\ Len(todo) <= n /\ Increasing(todo)
       /\ \A k \in 1..Len(todo) : \E j \in 1..n : todo[k].nr = ch[j].nr /\ Ready(todo[k])
  <2>1. /\ todo \in Seq(Message) /\ Len(todo) <= n /\ Increasing(todo)
        /\ \A k \in 1..Len(todo) : todo[k].msg # Gone /\ \E j \in 1..n : todo[k] = out[j]
    BY <1>9, <1>8 DEF SurvivorsOf
  <2>2. ASSUME NEW k \in 1..Len(todo)
        PROVE  \E j \in 1..n : todo[k].nr = ch[j].nr /\ Ready(todo[k])
    <3>1. PICK j \in 1..n : todo[k] = out[j]
      BY <2>1, <2>2
    <3>2. todo[k] = Outgoing(ch[j]) /\ todo[k].msg # Gone
      BY <2>1, <2>2, <3>1, <1>7
    <3> QED
      BY <3>2, <1>5
  <2> QED
    BY <2>1, <2>2
<1>11. /\ rest \in Seq(Message) /\ Len(rest) = Len(ch) - n
       /\ \A k \in 1..Len(rest) : rest[k] = ch[n + k] /\ n + k \in 1..Len(ch)
  <2>1. rest = SubSeq(ch, n + 1, Len(ch))
    BY <1>2
  <2> HIDE DEF rest
  <2> QED
    BY <1>0, <2>1, RestOf
<1> HIDE DEF rest
<1>12. /\ channel'[c] = rest /\ task'[c].todo = todo
       /\ \A d \in Conns \ {c} : channel'[d] = channel[d] /\ task'[d] = task[d]
  BY <1>4 DEF Queues, todo
<1>13. Queues'
  <2>1. channel' \in [Conns -> Seq(Message)]
    BY <1>4, <1>11 DEF Queues
  <2>2. task' \in [Conns -> [pc : {"none", "select", "writing", "closing", "ended"},
                             todo : Seq(Message)]]
    <3>1. [pc |-> "writing", todo |-> todo] \in [pc : {"none", "select", "writing", "closing", "ended"},
                             todo : Seq(Message)]
      BY <1>10
    <3> QED
      BY <3>1, <1>4 DEF Queues, todo
  <2>3. Len(rest) <= Capacity /\ Len(todo) <= BatchSize
    <3>1. Len(ch) <= Capacity
      BY DEF Queues, ch
    <3> QED
      BY <3>1, <1>0, <1>10, <1>11
  <2>4. \A d \in Conns : Len(channel'[d]) <= Capacity /\ Len(task'[d].todo) <= BatchSize
    BY <2>3, <1>12 DEF Queues
  <2> QED
    BY <2>1, <2>2, <2>4, <1>4 DEF Queues
<1>14. InTransit(c)'
  <2>0. /\ \A k \in 1..Len(ch) : ch[k].nr \in Nat
        /\ sent[c] \in Nat /\ written[c].nr \in Nat
    <3>1. written[c] \in Message /\ sent[c] \in Nat
      BY DEF Queues
    <3> QED
      BY <3>1, <1>0, Numbers DEF Message
  <2>1. Increasing(rest)
    <3> SUFFICES ASSUME NEW j \in 1..Len(rest), NEW k \in 1..Len(rest), j < k
                 PROVE  rest[j].nr < rest[k].nr
      BY DEF Increasing
    <3>1. n + j < n + k /\ n + j \in 1..Len(ch) /\ n + k \in 1..Len(ch)
      BY <1>0, <1>11
    <3> QED
      BY <3>1, <1>3, <1>11 DEF Increasing
  <2>2. \A k \in 1..Len(rest) : Fresh(rest[k]) /\ rest[k].nr <= sent[c] /\ written[c].nr < rest[k].nr
    BY <1>3, <1>11
  <2>3. ASSUME NEW k \in 1..Len(todo)
        PROVE  /\ Ready(todo[k]) /\ todo[k].nr <= sent[c] /\ written[c].nr < todo[k].nr
               /\ \A j \in 1..Len(rest) : todo[k].nr < rest[j].nr
    <3>1. PICK i \in 1..n : todo[k].nr = ch[i].nr /\ Ready(todo[k])
      BY <1>10
    <3>2. i \in 1..Len(ch)
      BY <1>0
    <3>3. ASSUME NEW j \in 1..Len(rest) PROVE todo[k].nr < rest[j].nr
      <4>0. j \in Nat /\ 1 <= j /\ i <= n /\ i \in Nat
        BY <1>0
      <4>1. n + j \in 1..Len(ch) /\ i < n + j /\ rest[j] = ch[n + j]
        <5>1. rest[j] = ch[n + j] /\ j <= Len(ch) - n
          BY <1>11, <4>0
        <5>2. n \in Nat /\ Len(ch) \in Nat
          BY <1>0
        <5> QED
          BY <5>1, <5>2, <4>0
      <4> QED
        BY <4>1, <3>1, <3>2, <1>3 DEF Increasing
    <3> QED
      BY <3>1, <3>2, <3>3, <1>3
  <2> QED
    BY <2>1, <2>2, <2>3, <1>3, <1>4, <1>10, <1>12 DEF InTransit
<1>15. ASSUME NEW d \in Conns \ {c} PROVE InTransit(d)'
  BY <1>4, <1>12, TransitFrame
<1> QED
  BY <1>13, <1>14, <1>15

LEMMA WriteStep ==
    ASSUME Queues, \A d \in Conns : InTransit(d), NEW c \in Conns, Write(c)
    PROVE  /\ Queues' /\ \A d \in Conns : InTransit(d)'
           /\ \A d \in Conns : written'[d] # written[d] => written'[d].nr > written[d].nr
<1> DEFINE todo == task[c].todo
           ch == channel[c]
<1>0. todo \in Seq(Message) /\ Len(todo) \in Nat /\ todo # <<>> /\ Len(todo) > 0 /\ ch \in Seq(Message)
  BY DEF Queues, Write
<1>1. /\ written' = [written EXCEPT ![c] = todo[1]]
      /\ task' = [task EXCEPT ![c].todo = Tail(@)]
      /\ UNCHANGED <<channel, sent>>
  BY DEF Write
<1>2. /\ written'[c] = todo[1] /\ task'[c].todo = Tail(todo)
      /\ \A d \in Conns \ {c} : written'[d] = written[d] /\ task'[d] = task[d]
  BY <1>1 DEF Queues
<1>3. /\ Increasing(todo) /\ Increasing(ch)
      /\ \A k \in 1..Len(ch) : Fresh(ch[k]) /\ ch[k].nr <= sent[c] /\ written[c].nr < ch[k].nr
      /\ \A k \in 1..Len(todo) :
            /\ Ready(todo[k]) /\ todo[k].nr <= sent[c] /\ written[c].nr < todo[k].nr
            /\ \A j \in 1..Len(ch) : todo[k].nr < ch[j].nr
  BY DEF InTransit
<1> DEFINE tail == Tail(todo)
<1> HIDE DEF todo, ch
<1>4. /\ tail \in Seq(Message) /\ Len(tail) = Len(todo) - 1
      /\ \A k \in 1..Len(tail) : tail[k] = todo[k + 1] /\ k + 1 \in 1..Len(todo)
  BY <1>0
<1> HIDE DEF tail
<1>5. 1 \in 1..Len(todo) /\ todo[1] \in Message
  BY <1>0
<1>6. Queues'
  <2>1. written' \in [Conns -> Message]
    BY <1>1, <1>5 DEF Queues
  <2>2. task' = [task EXCEPT ![c].todo = tail]
    BY <1>1 DEF tail, todo
  <2>3. task' \in [Conns -> [pc : {"none", "select", "writing", "closing", "ended"},
                             todo : Seq(Message)]]
    BY <2>2, <1>4 DEF Queues
  <2>4. Len(tail) <= BatchSize
    <3>1. Len(todo) <= BatchSize
      BY DEF Queues, todo
    <3> QED
      BY <3>1, <1>0, <1>4, ConnectionAssumption
  <2>5. \A d \in Conns : Len(channel'[d]) <= Capacity /\ Len(task'[d].todo) <= BatchSize
    BY <2>4, <1>1, <1>2 DEF Queues, tail
  <2> QED
    BY <2>1, <2>3, <2>5, <1>1 DEF Queues
<1>7. InTransit(c)'
  <2>1. Increasing(tail)
    <3> SUFFICES ASSUME NEW j \in 1..Len(tail), NEW k \in 1..Len(tail), j < k
                 PROVE  tail[j].nr < tail[k].nr
      BY DEF Increasing
    <3>1. j + 1 < k + 1
      OBVIOUS
    <3> QED
      BY <3>1, <1>3, <1>4 DEF Increasing
  <2>2. \A k \in 1..Len(ch) : todo[1].nr < ch[k].nr
    BY <1>3, <1>5
  <2>3. ASSUME NEW k \in 1..Len(tail)
        PROVE  /\ Ready(tail[k]) /\ tail[k].nr <= sent[c] /\ todo[1].nr < tail[k].nr
               /\ \A j \in 1..Len(ch) : tail[k].nr < ch[j].nr
    <3>1. tail[k] = todo[k + 1] /\ k + 1 \in 1..Len(todo) /\ 1 < k + 1
      BY <1>4
    <3> QED
      BY <3>1, <1>3, <1>5 DEF Increasing
  <2>4. Ready(todo[1]) /\ todo[1].nr <= sent[c]
    BY <1>3, <1>5
  <2> QED
    BY <2>1, <2>2, <2>3, <2>4, <1>1, <1>2, <1>3 DEF InTransit, tail, ch
<1>8. ASSUME NEW d \in Conns \ {c} PROVE InTransit(d)'
  BY <1>1, <1>2, TransitFrame
<1>9. todo[1].nr > written[c].nr
  <2>1. written[c] \in Message
    BY DEF Queues
  <2>2. todo[1].nr \in Nat /\ written[c].nr \in Nat
    BY <2>1, <1>5 DEF Message
  <2> QED
    BY <2>2, <1>3, <1>5
<1> QED
  BY <1>2, <1>6, <1>7, <1>8, <1>9

LEMMA QueueStep ==
    ASSUME ConnTypeOK, \A d \in Conns : InTransit(d), [Next]_connVars
    PROVE  Queues' /\ \A d \in Conns : InTransit(d)'
<1>0. Queues
  BY DEF Queues, ConnTypeOK
<1>1. ASSUME NEW c \in Conns, TakeBatch(c) PROVE Queues' /\ \A d \in Conns : InTransit(d)'
  BY <1>0, <1>1, TakeBatchStep
<1>2. ASSUME NEW c \in Conns, Write(c) PROVE Queues' /\ \A d \in Conns : InTransit(d)'
  BY <1>0, <1>2, WriteStep
<1>3. ASSUME NEW c \in Conns, NEW t, New(c, t), try_send(c, t), UNCHANGED <<task, written>>
      PROVE  Queues' /\ \A d \in Conns : InTransit(d)'
  BY <1>0, <1>3, SendStep
<1>4. ASSUME UNCHANGED <<channel, sent, written>>, \A d \in Conns : task'[d].todo = task[d].todo,
             task' \in [Conns -> [pc : {"none", "select", "writing", "closing", "ended"},
                                  todo : Seq(Message)]]
      PROVE  Queues' /\ \A d \in Conns : InTransit(d)'
  <2>1. Queues'
    BY <1>0, <1>4 DEF Queues
  <2> QED
    BY <2>1, <1>4, TransitFrame
<1>5. ASSUME NEW c \in Conns, WriteFails(c) PROVE Queues' /\ \A d \in Conns : InTransit(d)'
  <2>1. /\ task' = [task EXCEPT ![c].pc = "closing", ![c].todo = <<>>]
        /\ UNCHANGED <<channel, sent, written>>
    BY <1>5 DEF WriteFails
  <2>2. task'[c].todo = <<>> /\ \A d \in Conns \ {c} : task'[d] = task[d]
    BY <1>0, <2>1 DEF Queues
  <2>3. <<>> \in Seq(Message) /\ Len(<<>>) = 0
    OBVIOUS
  <2>4. Queues'
    <3>1. task' \in [Conns -> [pc : {"none", "select", "writing", "closing", "ended"},
                               todo : Seq(Message)]]
      BY <1>0, <2>1, <2>3 DEF Queues
    <3>2. ASSUME NEW d \in Conns PROVE Len(task'[d].todo) <= BatchSize
      <4>1. CASE d = c
        <5>1. BatchSize \in Nat
          BY ConnectionAssumption
        <5>2. Len(task'[d].todo) = 0
          BY <4>1, <2>2, <2>3
        <5> QED
          BY <5>1, <5>2
      <4>2. CASE d # c
        BY <1>0, <2>2, <4>2 DEF Queues
      <4> QED
        BY <4>1, <4>2
    <3> QED
      BY <1>0, <2>1, <3>1, <3>2 DEF Queues
  <2>5. InTransit(c)'
    <3>1. /\ Increasing(channel'[c])
          /\ \A k \in 1..Len(channel'[c]) : /\ Fresh(channel'[c][k])
                                          /\ channel'[c][k].nr <= sent'[c]
                                          /\ written'[c].nr < channel'[c][k].nr
          /\ written'[c].nr <= sent'[c] /\ (written'[c] = Nothing \/ Ready(written'[c]))
      BY <2>1 DEF InTransit
    <3>2. 1..Len(task'[c].todo) = {}
      BY <2>2, <2>3
    <3>3. Increasing(task'[c].todo)
      BY <3>2 DEF Increasing
    <3> QED
      BY <3>1, <3>2, <3>3 DEF InTransit
  <2>6. ASSUME NEW d \in Conns \ {c} PROVE InTransit(d)'
    BY <2>1, <2>2, TransitFrame
  <2> QED
    BY <2>4, <2>5, <2>6
<1>6. ASSUME NEW c \in Conns, OnText(c) \/ SendNotice(c) \/ Distribute(c) \/ ConnectHook(c)
      PROVE  Queues' /\ \A d \in Conns : InTransit(d)'
  <2>1. CASE OnText(c)
    <3>1. PICK p \in Repliers, m \in Payloads :
             try_send(c, send(c, p, m)) \/ try_send(c, send_bypass(c, p, m))
      BY <2>1 DEF OnText
    <3>2. p \in Positions /\ m \in Payload
      BY ConnectionAssumption DEF Positions
    <3> QED
      BY <2>1, <3>1, <3>2, <1>3, SentAreNew DEF OnText
  <2>2. CASE SendNotice(c)
    <3> DEFINE m == [Gone EXCEPT !.type = "NOTICE", !.id = "bad"]
    <3>1. m \in Payload
      BY GoneType DEF Payload, Types, Ids
    <3>2. 0 \in Positions
      BY ConnectionAssumption DEF Positions
    <3>3. try_send(c, send(c, 0, m)) /\ UNCHANGED <<task, written>>
      BY <2>2 DEF SendNotice, send
    <3> HIDE DEF m
    <3> QED
      BY <3>1, <3>2, <3>3, <1>3, SentAreNew
  <2>3. CASE Distribute(c)
    <3>1. PICK m \in {q \in Payloads : q.type = "EVENT"} : try_send(c, send_with_json(c, 0, m))
      BY <2>3 DEF Distribute
    <3>2. 0 \in Positions /\ m \in Payload
      BY ConnectionAssumption DEF Positions
    <3> QED
      BY <2>3, <3>1, <3>2, <1>3, SentAreNew DEF Distribute
  <2>4. CASE ConnectHook(c)
    <3> DEFINE m == [Gone EXCEPT !.type = "AUTH", !.id = "challenge"]
    <3>1. m \in Payload
      BY GoneType DEF Payload, Types, Ids
    <3>2. conn[c].hook \in Positions
      BY DEF ConnTypeOK
    <3>3. CASE UNCHANGED <<channel, sent>>
      <4>1. UNCHANGED <<task, written>>
        BY <2>4 DEF ConnectHook
      <4> QED
        BY <4>1, <3>3, <1>4, <1>0 DEF Queues
    <3>4. CASE send_challenge(c, conn[c].hook)
      <4>1. try_send(c, send(c, conn[c].hook, m)) /\ UNCHANGED <<task, written>>
        BY <2>4, <3>4 DEF send_challenge, ConnectHook
      <4> HIDE DEF m
      <4> QED
        BY <3>1, <3>2, <4>1, <1>3, SentAreNew
    <3> QED
      BY <2>4, <3>3, <3>4 DEF ConnectHook
  <2> QED
    BY <1>6, <2>1, <2>2, <2>3, <2>4
<1>7. ASSUME NEW c \in Conns, NEW to \in {"select", "closing", "ended"},
             task' = [task EXCEPT ![c].pc = to], UNCHANGED <<channel, sent, written>>
      PROVE  Queues' /\ \A d \in Conns : InTransit(d)'
  <2>1. /\ \A d \in Conns : task'[d].todo = task[d].todo
        /\ task' \in [Conns -> [pc : {"none", "select", "writing", "closing", "ended"},
                                todo : Seq(Message)]]
    BY <1>0, <1>7 DEF Queues
  <2> QED
    BY <2>1, <1>4, <1>7
<1>8. ASSUME NEW c \in Conns, Upgrade(c) \/ BatchWritten(c) \/ Cancelled(c) \/ CloseSink(c)
      PROVE  Queues' /\ \A d \in Conns : InTransit(d)'
  <2>1. UNCHANGED <<channel, sent, written>>
    BY <1>8 DEF Upgrade, BatchWritten, Cancelled, CloseSink
  <2>2. task' = task \/ \E to \in {"select", "closing", "ended"} : task' = [task EXCEPT ![c].pc = to]
    BY <1>8 DEF Upgrade, spawn_outbound, BatchWritten, Cancelled, CloseSink
  <2>3. CASE task' = task
    BY <2>1, <2>3, <1>0, <1>4 DEF Queues
  <2> QED
    BY <2>1, <2>2, <2>3, <1>7
<1>9. ASSUME UNCHANGED <<channel, task, sent, written>>
      PROVE  Queues' /\ \A d \in Conns : InTransit(d)'
  BY <1>0, <1>4, <1>9 DEF Queues
<1>10. \/ UNCHANGED <<channel, task, sent, written>>
       \/ \E c \in Conns : \/ TakeBatch(c) \/ Write(c) \/ WriteFails(c) \/ OnText(c) \/ SendNotice(c)
                           \/ Distribute(c) \/ ConnectHook(c) \/ Upgrade(c) \/ BatchWritten(c)
                           \/ Cancelled(c) \/ CloseSink(c)
  BY DEF Next, connVars, OthersTake, OthersReturn, Handler, Client, Outbound, ConnectFails, Timeout,
         DisconnectHook, DisconnectFails, Join, OnBadText, OnOther, OnClose, Tick
<1> QED
  BY <1>1, <1>2, <1>5, <1>6, <1>8, <1>9, <1>10

-----------------------------------------------------------------------------
(* The state of handle_socket and the histories keep their types. *)
Handled ==
    /\ conn \in [Conns -> [pc : Inside \cup {"new", "closed"}, hook : Positions,
                          age : 0..MaxDuration, idle : 0..IdleTimeout, cancelled : BOOLEAN]]
    /\ hooked \in [Conns -> SUBSET Positions] /\ failed \subseteq Conns

LEMMA HandledStep ==
    ASSUME ConnTypeOK, [Next]_connVars
    PROVE  Handled'
<1> USE ConnectionAssumption
<1> DEFINE State == [pc : Inside \cup {"new", "closed"}, hook : Positions,
                     age : 0..MaxDuration, idle : 0..IdleTimeout, cancelled : BOOLEAN]
<1>0. /\ conn \in [Conns -> State]
      /\ hooked \in [Conns -> SUBSET Positions] /\ failed \subseteq Conns
  BY DEF ConnTypeOK
<1>2. /\ 0 \in Positions /\ Outermost \in Positions
      /\ \A p \in Positions : /\ p # 0 => p - 1 \in Positions
                              /\ p # Outermost => p + 1 \in Positions
  BY DEF Positions, Outermost
<1>1. 0 \in 0..IdleTimeout /\ "waiting" \in Inside /\ "sending" \in Inside
  BY DEF Inside
<1>3. CASE UNCHANGED connVars
  BY <1>0, <1>3 DEF connVars, Handled
<1>4. CASE OthersTake \/ OthersReturn
  BY <1>0, <1>4 DEF OthersTake, OthersReturn, Handled
<1>5. ASSUME NEW c \in Conns, Handler(c) \/ Client(c) \/ Outbound(c) \/ Tick(c) \/ Distribute(c)
      PROVE  Handled'
  <2>0. /\ conn[c] \in State /\ hooked[c] \subseteq Positions
        /\ conn[c] = [pc |-> conn[c].pc, hook |-> conn[c].hook, age |-> conn[c].age,
                      idle |-> conn[c].idle, cancelled |-> conn[c].cancelled]
    BY <1>0
  <2>1. CASE ConnectHook(c)
    <3>1. conn' \in [Conns -> State]
      BY <1>0, <2>0, <2>1, <1>2 DEF ConnectHook, Inside
    <3>2. hooked' \in [Conns -> SUBSET Positions] /\ failed' = failed
      BY <1>0, <2>0, <2>1 DEF ConnectHook
    <3> QED
      BY <1>0, <3>1, <3>2 DEF Handled
  <2>2. CASE DisconnectHook(c)
    <3>1. conn' \in [Conns -> State]
      BY <1>0, <2>0, <2>2, <1>2 DEF DisconnectHook, Inside, AfterHook
    <3>2. hooked' \in [Conns -> SUBSET Positions] /\ failed' = failed
      BY <1>0, <2>0, <2>2 DEF DisconnectHook
    <3> QED
      BY <1>0, <3>1, <3>2 DEF Handled
  <2>3. CASE ConnectFails(c) \/ DisconnectFails(c)
    <3>1. conn' \in [Conns -> State]
      <4>1. CASE ConnectFails(c)
        BY <1>0, <2>0, <4>1 DEF ConnectFails
      <4>2. CASE DisconnectFails(c)
        BY <1>0, <2>0, <4>2 DEF DisconnectFails, Inside
      <4> QED
        BY <2>3, <4>1, <4>2
    <3>2. hooked' = hooked /\ failed' \subseteq Conns
      BY <1>0, <2>3 DEF ConnectFails, DisconnectFails
    <3> QED
      BY <1>0, <3>1, <3>2 DEF Handled
  <2>4. CASE Tick(c)
    <3>1. conn[c].age + 1 \in 0..MaxDuration /\ conn[c].idle + 1 \in 0..IdleTimeout
      BY <2>0, <2>4 DEF Tick, Expired
    <3>2. conn' \in [Conns -> State]
      BY <1>0, <2>0, <2>4, <3>1 DEF Tick
    <3> QED
      BY <1>0, <2>4, <3>2 DEF Handled, Tick
  <2>5. CASE OnText(c) \/ OnBadText(c) \/ OnOther(c)
    <3>1. conn' \in [Conns -> State]
      <4>1. CASE OnText(c)
        BY <1>0, <2>0, <1>1, <4>1 DEF OnText
      <4>2. CASE OnBadText(c)
        BY <1>0, <2>0, <1>1, <4>2 DEF OnBadText
      <4>3. CASE OnOther(c)
        BY <1>0, <2>0, <1>1, <4>3 DEF OnOther
      <4> QED
        BY <2>5, <4>1, <4>2, <4>3
    <3> QED
      BY <1>0, <2>5, <3>1 DEF Handled, OnText, OnBadText, OnOther
  <2>6. CASE Timeout(c) \/ OnClose(c)
    <3>1. conn' \in [Conns -> State]
      <4>1. CASE Timeout(c)
        BY <1>0, <2>0, <4>1, <1>2 DEF Timeout, Leave, Inside
      <4>2. CASE OnClose(c)
        BY <1>0, <2>0, <4>2, <1>2 DEF OnClose, Leave, Inside
      <4> QED
        BY <2>6, <4>1, <4>2
    <3> QED
      BY <1>0, <2>6, <3>1 DEF Handled, Timeout, OnClose
  <2>7. CASE Upgrade(c) \/ Join(c) \/ SendNotice(c)
    <3>1. conn' \in [Conns -> State]
      <4>1. CASE Upgrade(c)
        <5>1. conn' = [conn EXCEPT ![c].pc = "closed"] \/ conn' = [conn EXCEPT ![c].pc = "connecting"]
          BY <4>1 DEF Upgrade
        <5>2. CASE conn' = [conn EXCEPT ![c].pc = "closed"]
          BY <1>0, <2>0, <5>2
        <5>3. CASE conn' = [conn EXCEPT ![c].pc = "connecting"]
          BY <1>0, <2>0, <5>3 DEF Inside
        <5> QED
          BY <5>1, <5>2, <5>3
      <4>2. CASE Join(c)
        BY <1>0, <2>0, <4>2 DEF Join
      <4>3. CASE SendNotice(c)
        BY <1>0, <2>0, <4>3 DEF SendNotice, Inside
      <4> QED
        BY <2>7, <4>1, <4>2, <4>3
    <3> QED
      BY <1>0, <2>7, <3>1 DEF Handled, Upgrade, Join, SendNotice
  <2>8. CASE Write(c) \/ WriteFails(c) \/ CloseSink(c) \/ Outbound(c) \/ Distribute(c)
    <3>1. UNCHANGED <<conn, hooked, failed>>
      BY <2>8 DEF Write, WriteFails, CloseSink, Outbound, TakeBatch, BatchWritten, Cancelled,
                  Distribute
    <3> QED
      BY <1>0, <3>1 DEF Handled
  <2> QED
    BY <1>5, <2>1, <2>2, <2>3, <2>4, <2>5, <2>6, <2>7, <2>8 DEF Handler, Client
<1> QED
  BY <1>3, <1>4, <1>5 DEF Next

LEMMA InitConnInv == Init => ConnInv
<1> SUFFICES ASSUME Init PROVE ConnInv
  OBVIOUS
<1> USE ConnectionAssumption
<1>0. /\ 0 \in Positions /\ Outermost \in Positions /\ MaxDuration \in Nat /\ IdleTimeout \in Nat
      /\ MaxConnections \in Nat /\ Capacity \in Nat /\ BatchSize \in Nat
  BY DEF Positions, Outermost
<1>1. Nothing \in Message /\ Nothing.nr = 0
  BY <1>0, GoneType DEF Nothing, Message, NoJson
<1>2. <<>> \in Seq(Message) /\ Len(<<>>) = 0 /\ 1..0 = {}
  OBVIOUS
<1>3. ConnTypeOK
  BY <1>0, <1>1, <1>2 DEF Init, ConnTypeOK, Inside
<1>4. PermitsExact
  <2>1. {c \in Conns : conn[c].pc \in Inside} = {}
    BY DEF Init, Inside
  <2>2. Cardinality({}) = 0
    BY FS_EmptySet
  <2>3. QED
    <3>1. permits = MaxConnections /\ others = 0
      BY DEF Init
    <3>2. QED
      <4>1. MaxConnections + 0 + 0 = MaxConnections
        BY <1>0
      <4> QED
        BY <2>1, <2>2, <3>1, <4>1 DEF PermitsExact
<1>5. \A c \in Conns : HooksSoFar(c)
  BY DEF Init, HooksSoFar
<1>6. gauge = Cardinality(Counted)
  <2>1. Counted = {}
    BY DEF Init, Counted
  <2>2. Cardinality({}) = 0
    BY FS_EmptySet
  <2> QED
    BY <2>1, <2>2 DEF Init
<1>7. ASSUME NEW c \in Conns PROVE InTransit(c)
  <2>1. channel[c] = <<>> /\ task[c].todo = <<>> /\ written[c] = Nothing /\ sent[c] = 0
    BY DEF Init
  <2> QED
    BY <2>1, <1>1, <1>2 DEF InTransit, Increasing
<1> QED
  BY <1>3, <1>4, <1>5, <1>6, <1>7 DEF ConnInv

LEMMA ConnInvStep == ConnInv /\ [Next]_connVars => ConnInv'
<1> SUFFICES ASSUME ConnInv, [Next]_connVars PROVE ConnInv'
  OBVIOUS
<1>1. ConnTypeOK /\ PermitsExact /\ (\A c \in Conns : HooksSoFar(c)) /\ gauge = Cardinality(Counted)
      /\ \A c \in Conns : InTransit(c)
  BY DEF ConnInv
<1>2. Permits
  BY <1>1, PermitStep
<1>3. \A c \in Conns : HooksSoFar(c)'
  BY <1>1, HookStep
<1>4. gauge' = Cardinality(Counted') /\ gauge' \in Int
  BY <1>1, GaugeStep
<1>5. Queues' /\ \A c \in Conns : InTransit(c)'
  BY <1>1, QueueStep
<1>6. Handled'
  BY <1>1, HandledStep
<1>7. ConnTypeOK'
  BY <1>2, <1>4, <1>5, <1>6 DEF ConnTypeOK, Permits, Queues, Handled
<1> QED
  BY <1>2, <1>3, <1>4, <1>5, <1>7 DEF ConnInv, Permits

(* ConnInv holds in every reachable state. *)
THEOREM ConnectionInvariance == Spec => []ConnInv
  BY InitConnInv, ConnInvStep, PTL DEF Spec

(* The outbound channel, the batches, the permits and the timers stay      *)
(* within their bounds (channel_size, buffer_size, max_connections).       *)
THEOREM ConnectionTypes == Spec => []ConnTypeOK
<1>1. ConnInv => ConnTypeOK
  BY DEF ConnInv
<1> QED
  BY <1>1, ConnectionInvariance, PTL

(* No way out of handle_socket loses a permit or returns it twice, however *)
(* many connections there are and whichever hooks fail.                    *)
THEOREM PermitsAreExact == Spec => []PermitsExact
<1>1. ConnInv => PermitsExact
  BY DEF ConnInv
<1> QED
  BY <1>1, ConnectionInvariance, PTL

LEMMA InvHooksPaired == ConnInv => HooksPaired
<1> SUFFICES ASSUME ConnInv PROVE HooksPaired
  OBVIOUS
<1>1. \A c \in Conns : HooksSoFar(c)
  BY DEF ConnInv
<1>2. \A c \in Conns \ failed : conn[c].pc = "closed" => hooked[c] = {}
  BY <1>1 DEF HooksSoFar
<1>3. ASSUME failed = {}, \A c \in Conns : conn[c].pc \in {"new", "closed"} PROVE gauge = 0
  <2>1. \A c \in Conns : hooked[c] = {}
    BY <1>1, <1>3 DEF HooksSoFar
  <2>2. Counted = {}
    BY <2>1 DEF Counted
  <2>3. Cardinality({}) = 0
    BY FS_EmptySet
  <2> QED
    BY <2>2, <2>3 DEF ConnInv
<1> QED
  BY <1>2, <1>3 DEF HooksPaired

(* Unless a hook failed, on_connect and on_disconnect are paired for every *)
(* middleware of a chain of any length, and the gauge of                   *)
(* MetricsMiddleware is back at zero when all connections are gone.        *)
THEOREM HooksArePaired == Spec => []HooksPaired
  BY InvHooksPaired, ConnectionInvariance, PTL

LEMMA InvWrittenAsProcessed == ConnInv => WrittenAsProcessed
<1> SUFFICES ASSUME ConnInv, NEW c \in Conns, written[c] # Nothing
             PROVE  Ready(written[c])
  BY DEF WrittenAsProcessed, Ready
<1> QED
  BY DEF ConnInv, InTransit

(* What is written to a socket has been through every middleware outward   *)
(* from its sender in order, whatever the chain and whatever a custom      *)
(* middleware makes of a message; JSON serialized before is written only   *)
(* for the sent event, never in the place of another event.                *)
THEOREM WrittenIsProcessed == Spec => []WrittenAsProcessed
  BY InvWrittenAsProcessed, ConnectionInvariance, PTL

LEMMA InOrderStep ==
    ASSUME ConnInv, [Next]_connVars, NEW c \in Conns, written'[c] # written[c]
    PROVE  written'[c].nr > written[c].nr
<1>1. Queues /\ \A d \in Conns : InTransit(d)
  BY DEF ConnInv, ConnTypeOK, Queues
<1>2. CASE \E d \in Conns : Write(d)
  BY <1>1, <1>2, WriteStep
<1>3. CASE ~ \E d \in Conns : Write(d)
  <2>1. written' = written
    BY <1>3 DEF Next, connVars, OthersTake, OthersReturn, Handler, Client, Outbound, Upgrade,
         ConnectHook, ConnectFails, SendNotice, Timeout, DisconnectHook, DisconnectFails, Join,
         OnText, OnBadText, OnOther, OnClose, WriteFails, CloseSink, TakeBatch, BatchWritten,
         Cancelled, Tick, Distribute
  <2> QED
    BY <2>1
<1> QED
  BY <1>2, <1>3

(* The messages a client receives keep the order in which they were sent,  *)
(* each at most once, for every capacity of the channel and every size of  *)
(* the batches.                                                            *)
THEOREM WrittenKeepsOrder == Spec => WrittenInOrder
<1> DEFINE InOrder == \A c \in Conns : written'[c] # written[c] => written'[c].nr > written[c].nr
<1>1. ConnInv /\ [Next]_connVars => [InOrder]_connVars
  BY InOrderStep
<1> QED
  BY <1>1, ConnectionInvariance, PTL DEF Spec, WrittenInOrder
=============================================================================
