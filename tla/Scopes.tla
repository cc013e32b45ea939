------------------------------- MODULE Scopes -------------------------------
(***************************************************************************)
(* How a connection gets its scope and how NIP-42 ties an AUTH event to    *)
(* it: extract_subdomain (src/src/subdomain.rs), ScopeConfig and           *)
(* with_subdomains_from_url (src/src/config.rs), the scope given by        *)
(* NostrHandlerFactory::create (src/src/nostr_handler.rs) and              *)
(* validate_relay_url (src/src/middlewares/nip42_auth.rs).                 *)
(*                                                                         *)
(* A host is the sequence of its labels, in lower case.  A subdomain is a  *)
(* sequence of labels; None stands for no subdomain, Default for the       *)
(* default scope.  A URL is its host and the rest of its text: scheme,     *)
(* port, path, without a slash at the end.                                 *)
(***************************************************************************)
EXTENDS Naturals, Sequences

CONSTANTS
    Addresses,      \* hosts that are IP addresses
    LocalLabels,    \* labels in which localhost occurs: mylocalhost
    EndIn127,       \* labels that end in 127
    BeginWith1,     \* labels that begin with 1
    LocalRests      \* rests in which localhost or 127.0.0.1 occurs

ASSUME ScopesAssumption ==
    "localhost" \in LocalLabels /\ "127" \in EndIn127 /\ "1" \in BeginWith1

Localhost == <<"localhost">>
Loopback  == <<"127", "0", "0", "1">>
None      == <<>>
Default   == <<>>
NoHost    == <<>>       \* no Host header, or a URL that does not parse

LastLabels(s, n)  == SubSeq(s, Len(s) - n + 1, Len(s))
FirstLabels(s, n) == SubSeq(s, 1, Len(s) - n)

IsAddress(host) == host = Localhost \/ host \in Addresses

extract_subdomain(host, parts) ==
    IF IsAddress(host) \/ Len(host) <= parts THEN None ELSE FirstLabels(host, parts)

(* Scope::named refuses the empty name. *)
named(sub) == IF sub = <<"">> THEN Default ELSE sub

(* Mutant: the default of two labels for every relay. *)
with_subdomains_two(host) == 2

(* Number of base labels that with_subdomains_from_url configures. *)
with_subdomains_from_url(host) ==
    IF host = NoHost \/ IsAddress(host) THEN 2 ELSE Len(host)

(* NostrHandlerFactory::create: a scope configuration is "disabled",       *)
(* "subdomain" with the number of base labels, or "fixed", which create    *)
(* does not look at.                                                       *)
create_scope(config, host) ==
    IF config.kind = "subdomain" /\ host # NoHost
    THEN named(extract_subdomain(host, config.parts)) ELSE Default

(* url.contains("localhost") || url.contains("127.0.0.1"): anywhere in the *)
(* text, so in a part of a label and across the ends of labels too.        *)
IsLocal(url) ==
    \/ \E i \in DOMAIN url.host : url.host[i] \in LocalLabels
    \/ \E i \in 1..(Len(url.host) - 3) :
          /\ url.host[i] \in EndIn127 /\ url.host[i + 3] \in BeginWith1
          /\ url.host[i + 1] = "0" /\ url.host[i + 2] = "0"
    \/ url.rest \in LocalRests

(* The base domains agree: the last labels of the client's host, as many   *)
(* as the relay's host has.                                                *)
SameBase(client, relay) ==
    Len(client) >= Len(relay) /\ LastLabels(client, Len(relay)) = relay

(* validate_relay_url, for the URL in the AUTH event, the configured       *)
(* relay_url and the scope of the connection: whole URLs are compared if   *)
(* one of them is local, hosts only otherwise.                             *)
validate_relay_url(client, relay, scope, validate_subdomains) ==
    IF IsLocal(client) \/ IsLocal(relay) THEN client = relay
    ELSE /\ client.host # NoHost /\ relay.host # NoHost
         /\ SameBase(client.host, relay.host)
         /\ validate_subdomains =>
               extract_subdomain(client.host, Len(relay.host)) = scope

-----------------------------------------------------------------------------
(* A client connects to a host of the relay and names url in its AUTH      *)
(* event; the scopes were configured with with_subdomains_from_url.  Where *)
(* localhost or 127.0.0.1 occurs in relay_url, only relay_url itself is    *)
(* accepted, whichever subdomain the client is on.  Elsewhere the factory  *)
(* that gives the scope and the middleware that checks the URL agree on    *)
(* where the base domain ends: a URL is accepted exactly if its host is    *)
(* the one connected to and neither text occurs in it, so that on          *)
(* mylocalhost.relay.io no AUTH event is accepted at all.                  *)
AuthUrlExactFor(relay, host, url) ==
    LET config == [kind |-> "subdomain", parts |-> with_subdomains_from_url(relay.host)]
        belongs == host = relay.host \/ (~IsAddress(relay.host) /\ SameBase(host, relay.host))
    IN  belongs =>
          (validate_relay_url(url, relay, create_scope(config, host), TRUE) <=>
             IF IsLocal(relay) THEN url = relay ELSE url.host = host /\ ~IsLocal(url))
=============================================================================
