---------------------------- MODULE MCConnection ----------------------------
(* A connection that competes with others for one permit; an event is fit  *)
(* to be sent, or hidden and expired.  The custom middleware turns one     *)
(* fit event into the other, and that one into a NOTICE.                   *)
EXTENDS Connection

M(type, id, visible, expired) ==
    [type |-> type, id |-> id, visible |-> visible, expired |-> expired]

MCMiddlewares == <<"relay", "nip40", "rewrite", "metrics", "auth">>
MCFit1 == M("EVENT", "e1", TRUE, FALSE)
MCFit3 == M("EVENT", "e3", TRUE, FALSE)
MCPayloads == {MCFit1, MCFit3, M("EVENT", "e2", FALSE, TRUE)}
MCRewrite == [m \in Payload |-> CASE m = MCFit1 -> MCFit3
                                 [] m = MCFit3 -> [Gone EXCEPT !.type = "NOTICE"]
                                 [] OTHER -> m]
MCMaxSends == [c \in Conns |-> 3]
MCSmallMiddlewares == <<"relay", "metrics">>
MCSmallRewrite == [m \in Payload |-> m]
MCSmallPayloads == {M("OK", "ok", TRUE, FALSE)}
=============================================================================
