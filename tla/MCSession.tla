------------------------------ MODULE MCSession ------------------------------
(* Two clients of a relay with subdomains and authentication. *)
EXTENDS Session

CONSTANTS c1, c2

MCUrl(host) == [host |-> host, rest |-> "wss"]
MCRelayUrl == MCUrl(<<"relay", "io">>)
MCHost == [c \in {c1, c2} |-> IF c = c1 THEN <<"a", "relay", "io">> ELSE MCRelayUrl.host]
MCScopeConfig == [kind |-> "subdomain", parts |-> 2]
MCCustom == <<"nip40", "nip70", "ratelimit">>
MCAddresses == {Loopback}
MCErrors ==
    {[kind |-> k, id |-> "other"] : k \in {"restricted", "notice", "event", "subscription"}}

Ev(id, p, x, s) ==
    [id |-> id, author |-> "k1", protected |-> p, expires |-> x, signed |-> s]
Events == {Ev("e1", FALSE, Never, FALSE), Ev("e2", TRUE, 0, TRUE)}

A(key, kind, signed, at, challenge, url) ==
    [id |-> "a", key |-> key, kind |-> kind, signed |-> signed, at |-> at,
     challenge |-> challenge, url |-> url]

(* Good ones for either session and scope, and one for each way to fail. *)
Auths ==
    {A(k, "auth", TRUE, 0, n, MCUrl(MCHost[c1])) : k \in {"k1", "k2"}, n \in {1, 2}}
    \cup {A("k2", "auth", TRUE, 1, 2, MCRelayUrl), A("k2", "auth", TRUE, 1, 0, MCRelayUrl),
          A("k2", "note", TRUE, 1, 2, MCRelayUrl), A("k2", "auth", FALSE, 1, 2, MCRelayUrl),
          A("k2", "auth", TRUE, 1, 2, MCUrl(NoHost))}

Sub(type, sub) == [type |-> type, sub |-> sub]
Neg(type) == [type |-> type, sub |-> "n", text |-> "query"]

MCMessages ==
    {[type |-> "EVENT", event |-> e] : e \in Events}
    \cup {[type |-> "AUTH", auth |-> a] : a \in Auths}
    \cup {Sub("REQ", "s1"), Sub("REQ", "s2"), Sub("CLOSE", "s1"), Sub("NEG-CLOSE", "n"),
          Neg("NEG-OPEN"), Neg("NEG-MSG"), [type |-> "COUNT"], [type |-> "garbage"]}
=============================================================================
