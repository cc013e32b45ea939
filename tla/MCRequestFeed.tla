---------------------------- MODULE MCRequestFeed ----------------------------
(* Small instances of RequestFeed. *)
EXTENDS RequestFeed

CONSTANTS p1, NoLimitValue

Ev(i, a, k, v) == [id |-> i, at |-> a, kind |-> k, visible |-> v]

(* Two events of one second, two the client may not see, one of second 0.  The  *)
(* last is published while requests are answered.                     *)
MCStored == {Ev(1, 4, "a", FALSE), Ev(2, 3, "a", TRUE), Ev(3, 3, "b", TRUE),
             Ev(4, 2, "a", TRUE), Ev(5, 0, "b", FALSE)}
MCEvents == MCStored \cup {Ev(6, 2, "a", TRUE)}

F(ks, n) == [kinds |-> ks, limit |-> n]
MCFilterLists ==
    {<<F({"a", "b"}, NoLimitValue), F({"a"}, 5)>>, <<F({"b"}, NoLimitValue), F({"a", "b"}, 1)>>}
=============================================================================
