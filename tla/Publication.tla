----------------------------- MODULE Publication -----------------------------
(***************************************************************************)
(* What the relay promises to the subscribers of an event, whoever         *)
(* publishes it and by whatever path: it is announced only after it has    *)
(* been saved, at most once for every time it was saved, and, unless it is *)
(* one of the events that are stored silently, it is announced for every   *)
(* time it was saved.  EventStore implements this specification.           *)
(***************************************************************************)
EXTENDS Naturals

CONSTANTS
    Events,     \* events that may be published
    Announced   \* those that subscribers are told about

VARIABLES
    saves,      \* how many times the database has taken the event
    announces   \* how many times it was distributed to subscribers

publicationVars == <<saves, announces>>

Init ==
    /\ saves = [e \in Events |-> 0]
    /\ announces = [e \in Events |-> 0]

Save(e) ==
    /\ saves' = [saves EXCEPT ![e] = @ + 1]
    /\ UNCHANGED announces

Announce(e) ==
    /\ announces[e] < saves[e]
    /\ announces' = [announces EXCEPT ![e] = @ + 1]
    /\ UNCHANGED saves

Next ==
    \/ \E e \in Events : Save(e)
    \/ \E e \in Announced : Announce(e)

Spec ==
    /\ Init
    /\ [][Next]_publicationVars
    /\ \A e \in Announced : WF_publicationVars(Announce(e))
=============================================================================
