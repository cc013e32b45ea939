---------------------------- MODULE MCEventStore ----------------------------
(* Small instances of EventStore. *)
EXTENDS EventStore

CONSTANTS t1, t2, buf

Ev(i, b, k, c, a, r) ==
    [id |-> i, by |-> b, key |-> k, coord |-> c, at |-> a, replaceable |-> r]

note  == Ev(1, "client", "n", "n", 1, FALSE)   \* a client's event
log   == Ev(2, "relay", "l", "l", 1, FALSE)    \* generated, stored silently
meta1 == Ev(4, "relay", "m", "d1", 1, TRUE)    \* generated, addressable,
meta2 == Ev(3, "relay", "m", "d1", 1, TRUE)    \* two versions of one second
other == Ev(5, "relay", "m", "d2", 1, TRUE)    \* and another identifier

MCEvents == {note, log, meta1, meta2, other}

Cmd(o, e) == [op |-> o, event |-> e]

MCPlans ==
    {<<Cmd("unsigned", meta1), Cmd("signed", note), Cmd("unsigned", log)>>,
     <<Cmd("unsigned", meta2), Cmd("unsigned", other)>>,
     <<Cmd("delete", note)>>}
=============================================================================
