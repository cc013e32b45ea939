---------------------------- MODULE MCAlgorithms ----------------------------
(* The pure algorithms, on inputs composed step by step.  Every filter over *)
(* two values of each kind of constraint, against events that grow tag by   *)
(* tag: known and unknown names, no, one or two values.  Relay hosts, and   *)
(* hosts and URLs that grow label by label.  Databases that grow event by   *)
(* event, exported and imported again; LMDB environments that grow entry by *)
(* entry, checked and repaired.                                             *)
EXTENDS EventFilter, Scopes, Transfer, Integrity

CONSTANTS
    MaxTags,    \* bound: tags of an event
    MaxLabels,  \* bound: labels of a host
    MaxTokens,  \* bound: tokens of a scope's name
    MaxDamage,  \* bound: unreadable lines of a file
    MaxEntries, \* bound: index entries
    h1, h2,     \* hashes of scopes
    e1, e2, p1, p2, k1, k2, v1, v2

VARIABLE in     \* the input

MCValues == {<<>>, <<v1>>, <<v2>>, <<v1, v2>>}

MCFilters ==
    [ids     : {{}, {e1}, {e2}},
     authors : {{}, {p1}, {p2}, {p1, p2}},
     kinds   : {{}, {k1}, {k2}},
     tags    : UNION {[N -> SUBSET TagValues] : N \in SUBSET TagNames},
     since   : {0, 2},
     until   : {3}]

MCEvent == [id |-> e1, pubkey |-> p1, kind |-> k1, tags |-> {}, created_at |-> 1]

(* Two ports; a path with localhost in it. *)
MCAddresses == {Loopback, <<"127", "0", "0", "10">>, <<"10", "0", "0", "9">>}
MCUrl(host, rest) == [host |-> host, rest |-> rest]
MCRelays ==
    {MCUrl(h, "8080") : h \in MCAddresses \cup {Localhost, <<"io">>, <<"relay", "io">>, <<"a", "relay", "io">>}}
MCHosts == {r.host : r \in MCRelays} \cup {<<"a", "io">>}
MCUrls == {MCUrl(h, rest) : h \in MCHosts, rest \in {"8080", "443", "443/localhost"}}
MCLabels == {"a", "relay", "localhost", "mylocalhost", ""}

MCNames == BoundedSeq({"a", "default", Number, "_", "."}, MaxTokens) \ {<<>>}
MCLineEvents == <<e1, e2, p1>>

MCEntry(db, scope, id, pad, short) ==
    [db |-> db, scope |-> scope,
     key |-> [at |-> KeyAt(db, pad), id |-> id, len |-> KeyAt(db, pad) + 32 - short]]

(* The input is composed: a tag for the event, a label for the host or URL. *)
Init ==
    \/ \E f \in MCFilters : in = [of |-> "filter", f |-> f, e |-> MCEvent]
    \/ \E r \in MCRelays, h \in MCHosts, u \in MCUrls :
          in = [of |-> "scope", relay |-> r, host |-> h, url |-> u]
    \/ \E c \in BOOLEAN :
          in = [of |-> "transfer", db |-> (TheDefault :> <<e1>>), scopes |-> <<TheDefault>>,
                damage |-> <<>>, count |-> c, damaged |-> {}, broken |-> {}]
    \/ \E stored \in SUBSET {Unscoped, h1, h2}, registry \in {{h1}, {h1, h2}}, pad \in 0..3 :
          in = [of |-> "lmdb", registry |-> registry, pad |-> pad,
                env |-> {MCEntry("events", s, e1, pad, 0) : s \in stored}]

AddTag ==
    /\ in.of = "filter" /\ Cardinality(in.e.tags) < MaxTags
    /\ \E tag \in [name : TagNames \cup {NotALetter}, values : MCValues] :
          in' = [in EXCEPT !.e.tags = @ \cup {tag}]

(* An address has no subdomains; a URL has no empty label. *)
AddHostLabel ==
    /\ in.of = "scope" /\ ~IsAddress(in.host) /\ Len(in.host) < MaxLabels
    /\ Head(in.host) # ""
    /\ \E l \in MCLabels : in' = [in EXCEPT !.host = <<l>> \o @]

AddUrlLabel ==
    /\ in.of = "scope" /\ ~IsAddress(in.url.host) /\ Len(in.url.host) < MaxLabels
    /\ \E l \in MCLabels \ {""} : in' = [in EXCEPT !.url.host = <<l>> \o @]

(* A scope with a plain name; a second one that the first may be taken for. *)
AddScope ==
    /\ in.of = "transfer" /\ in.damage = <<>>
    /\ \E name \in (IF Len(in.scopes) = 1 THEN MCNames
                    ELSE IF Len(in.scopes) = 2 THEN {<<"a">>, <<"a", "_", Number>>} ELSE {}) :
          /\ name \notin DOMAIN in.db /\ Plain(name, in.count)
          /\ in' = [in EXCEPT !.db = (name :> <<e1>>) @@ @, !.scopes = <<name>> \o @]

AddEvent ==
    /\ in.of = "transfer" /\ in.damage = <<>>
    /\ \E s \in DOMAIN in.db :
          /\ Len(in.db[s]) < Len(MCLineEvents)
          /\ in' = [in EXCEPT !.db[s] = Append(@, MCLineEvents[Len(@) + 1])]

Spoil ==
    /\ in.of = "transfer" /\ Len(in.damage) < MaxDamage
    /\ \E l \in {Blank, Garbage} : in' = [in EXCEPT !.damage = Append(@, l)]

(* The index of a scope, or an event, cannot be read or saved. *)
Damage ==
    /\ in.of = "transfer" /\ in.damage # <<>> /\ in.damaged = {} /\ in.broken = {}
    /\ \E s \in DOMAIN in.db, e \in ToSet(MCLineEvents) :
          in' \in {[in EXCEPT !.damaged = {s}], [in EXCEPT !.broken = {e}]}

(* An index entry, perhaps of a key that is a byte short. *)
AddEntry ==
    /\ in.of = "lmdb"
    /\ Cardinality({e \in in.env : e.db # "events"}) < MaxEntries
    /\ \E db \in Databases \ {"events"}, s \in {Unscoped, h1, h2}, id \in {e1, e2}, short \in 0..1 :
          in' = [in EXCEPT !.env = @ \cup {MCEntry(db, s, id, in.pad, short)}]

Next == AddTag \/ AddHostLabel \/ AddUrlLabel \/ AddScope \/ AddEvent \/ Spoil \/ Damage \/ AddEntry

Spec == Init /\ [][Next]_in

(* A filter that accepts the event is among the candidates (see            *)
(* CandidateComplete): get_candidate_filters has no false negatives.       *)
Complete == in.of = "filter" => CandidateComplete(in.f, in.e)

(* See AuthUrlExactFor: authentication names the host connected to, unless *)
(* a text that validate_relay_url takes for a local address occurs in one  *)
(* of the URLs.                                                            *)
AuthUrlExact ==
    in.of = "scope" /\ Head(in.host) # "" => AuthUrlExactFor(in.relay, in.host, in.url)

(* See TransferExactFor: what export_database writes, import_database      *)
(* brings back, each event to its scope.                                   *)
TransferExact ==
    in.of = "transfer" =>
      TransferExactFor(in.db, in.scopes, in.damage, in.count, in.damaged, in.broken)

(* See RepairSoundFor: the integrity tool removes what dangles and only    *)
(* that, by the same reading of the keys as the dump tool, whatever the    *)
(* padding of the keys.                                                    *)
RepairSound == in.of = "lmdb" => RepairSoundFor(in.env, in.registry, in.pad)
=============================================================================
