-------------------------- MODULE MCRegistryDelivery -------------------------
(* Two instances of delivery.  In one, a session adds, replaces, closes and *)
(* leaves while an event of either scope is published, and every channel is *)
(* drained in time; in the other, two publishers send two events to a       *)
(* session that reads when it likes.                                        *)
EXTENDS MCRegistry, RegistryInvariant

CONSTANT u1

VARIABLE inTime   \* every channel is drained before it is full

(* Bounds of either; NeverDead: no publisher finds a channel full or closed. *)
Bounds ==
    IF inTime
    THEN /\ published' <= 1 /\ rpc'[pub2] = "idle"
         /\ event'[pub1] # None => event'[pub1].id = e1
         /\ NeverDead'
    ELSE /\ requests'[a] <= 2 /\ rsub'[a] \in {u1, None}
         /\ \A p \in Publishers : scope'[p] \in {s1, None}

DeliverySpec ==
    /\ RegInit /\ inTime \in BOOLEAN
    /\ [][RegNext /\ Bounds /\ UNCHANGED inTime]_<<regVars, inTime>>

(* For as long as no publisher finds a channel full or closed, the metric   *)
(* of active subscriptions is exact at rest (see MetricExact).              *)
MetricExactInTime == inTime => MetricExact

(* For as long, the indexes hold at rest exactly the subscriptions of the   *)
(* registered connections (see IndexMirrorsRegistry).                       *)
IndexMirrorsInTime == inTime => IndexMirrorsRegistry
=============================================================================
