-------------------------- MODULE MCNegentropySync --------------------------
(* A relay that may always fail before one that does not: two versions of  *)
(* a replaceable event and one more event, which the second relay refuses. *)
EXTENDS NegentropySync, TLC

MCRelays   == <<"flaky", "reliable">>
MCKeyOf    == ("a1" :> "a") @@ ("a2" :> "a") @@ ("b" :> "b")
MCVersion  == ("a1" :> 1) @@ ("a2" :> 2) @@ ("b" :> 1)
MCRefused  == ("flaky" :> {}) @@ ("reliable" :> {"b"})
MCArgs(mode, interval, filter) == [mode |-> mode, interval |-> interval, filter |-> filter]
MCArgValues ==
    {MCArgs("both", 0, Events), MCArgs("both", 5, Events), MCArgs("pull", 5, Events),
     MCArgs("push", 400, {"a1", "a2"})}
=============================================================================
