---------------------------- MODULE IndexDelivery ----------------------------
(***************************************************************************)
(* SubscriptionIndex with history: which subscriptions each distribution   *)
(* owes its event to, and which were given it.  The history variables only *)
(* record; they restrict no step.                                          *)
(***************************************************************************)
EXTENDS SubscriptionIndex

CONSTANT MaxDistributions   \* bound: distributions ever started

VARIABLES
    owed,       \* <<key, event id>>: subscribed since before the distribution
    delivered,  \* <<key, event id>>: returned by some distribute_event
    started     \* distributions started so far

deliveryVars == <<vars, owed, delivered, started>>

(* Subscriptions that an event starting its distribution now must reach. *)
Subscribed(e, s) ==
    {k \in Keys :
        /\ k[1] = s
        /\ filter_groups[k] # None
        /\ \E id \in groupFilters[filter_groups[k]] :
              Settled(id) /\ MatchesEvent(tracked[id].filter, e)}

DInit == Init /\ owed = {} /\ delivered = {} /\ started = 0

Forget(k, R) == {r \in R : r[1] # k}

DCallAdd(t) == CallAdd(t) /\ UNCHANGED <<owed, delivered, started>>

DCallRemove(t) ==
    /\ CallRemove(t)
    /\ owed' = Forget(key'[t], owed)
    /\ delivered' = Forget(key'[t], delivered)
    /\ UNCHANGED started

DCallDistribute(t) ==
    /\ started < MaxDistributions
    /\ started' = started + 1
    /\ CallDistribute(t)
    /\ owed' = owed \cup
          {<<k, event'[t].id>> : k \in Subscribed(event'[t], scope'[t])}
    /\ UNCHANGED delivered

DCallStep(t) ==
    /\ CallStep(t)
    /\ delivered' = IF pc[t] = "group_mark" /\ filter_groups[key[t]] = grp[t]
                    THEN delivered \cup {<<key[t], event[t].id>>}
                    ELSE delivered
    /\ UNCHANGED <<owed, started>>

DReturn(t) == DistReturn(t) /\ UNCHANGED <<owed, delivered, started>>

DNext ==
    \/ \E t \in Writers : DCallAdd(t) \/ DCallRemove(t)
    \/ \E t \in Distributors : DCallDistribute(t) \/ DReturn(t)
    \/ \E t \in Tasks : DCallStep(t)

DSpec == DInit /\ [][DNext]_deliveryVars

-----------------------------------------------------------------------------
(* No distribution of this event is under way. *)
Finished(eid) ==
    \A t \in Tasks : Distributing(t) /\ pc[t] # "dist_done" => event[t].id # eid

(***************************************************************************)
(* At-least-once: a subscription that was fully added before an event's    *)
(* distribution began, and was not removed since, has been given the event *)
(* once every distribution of it is over - although distributions of the   *)
(* same and of other events race on the seen-marks, and other              *)
(* subscriptions come and go.                                              *)
(***************************************************************************)
AtLeastOnce ==
    \A r \in owed : Finished(r[2]) => r \in delivered

(***************************************************************************)
(* Deduplication: a subscription is not given an event it was already      *)
(* given.  (Claimed by the tests of subscription_index.rs for one call     *)
(* after the other; refuted for two at once, because distribute_event      *)
(* releases the group's lock between has_seen_event and mark_event_seen.)  *)
(***************************************************************************)
NoDuplicateDelivery ==
    [][\A t \in Tasks :
          GroupMark(t) /\ filter_groups[key[t]] = grp[t] =>
              <<key[t], event[t].id>> \notin delivered]_deliveryVars
=============================================================================
