------------------------------ MODULE MCRegistry -----------------------------
(* Instances of the registry: sessions with their own addresses, and two    *)
(* sessions that use the same address one after the other.                  *)
EXTENDS SubscriptionRegistry

CONSTANTS e1, e2, p1, k1, a, b, c1, c2, s1, s2, pub1, pub2

MkFilter(ks) ==
    [ids |-> {}, authors |-> {}, kinds |-> ks, tags |-> <<>>, since |-> 0, until |-> 10]

MCFilterLists == {<<MkFilter({k1})>>}

MkEvent(i) == [id |-> i, pubkey |-> p1, kind |-> k1, tags |-> {}, created_at |-> 1]

OneEvent == {MkEvent(e1)}
TwoEvents == {MkEvent(e1), MkEvent(e2)}

MCWriters == Sessions \cup Reapers \cup Publishers
MCDistributors == Publishers

OwnAddress == [s \in Sessions |-> IF s = a THEN c1 ELSE c2]
SameAddress == [s \in Sessions |-> c1]
SameScope == [s \in Sessions |-> s1]
OwnScope == [s \in Sessions |-> IF s = a THEN s1 ELSE s2]
=============================================================================
