------------------------- MODULE IndexDeliveryProofs -------------------------
(***************************************************************************)
(* At-least-once delivery for any number of tasks, subscriptions, filters  *)
(* and events: DeliveryInv of the history variables owed and delivered.    *)
(* The lemmas about the steps of the index are those of                    *)
(* SubscriptionIndexProofs; they speak of sets that do not change, here    *)
(* the values of the two variables after the step.                         *)
(***************************************************************************)
EXTENDS IndexDelivery, SubscriptionIndexProofs

(* The invariant after a step, of the values that owed and delivered have. *)
LEMMA DeliveryAfter ==
    ASSUME NEW O, NEW D, owed' = O, delivered' = D, DeliveryInv(O, D)'
    PROVE  DeliveryInv(owed, delivered)'
  BY DEF DeliveryInv, OwedLive, GroupMarks, FilterMarks, Carried, CheckedDone

(* Initially nothing is owed. *)
LEMMA HistoryInit == DInit => OverlapInv /\ DeliveryInv(owed, delivered)
<1> SUFFICES ASSUME DInit PROVE OverlapInv /\ DeliveryInv(owed, delivered)
  OBVIOUS
<1>1. OverlapInv
  BY BasicInit, FiledInit DEF DInit, OverlapInv
<1>2. DeliveryInv({}, delivered)
  <2> PICK D : D = delivered
    OBVIOUS
  <2>1. DeliveryInv({}, D)
    BY DeliveryInit DEF DInit
  <2> QED
    BY <2>1
<1> QED
  BY <1>1, <1>2 DEF DInit

(* The history variables add nothing to what the index does. *)
LEMMA DeliveryIsNext == [DNext]_deliveryVars => [Next]_vars
  BY DEF DNext, DCallAdd, DCallRemove, DCallDistribute, DCallStep, DReturn, Next, deliveryVars

(* A step of the index, for calls made in any way. *)
LEMMA NextOverlap == OverlapInv /\ [Next]_vars => OverlapInv'
<1> SUFFICES ASSUME OverlapInv, [Next]_vars PROVE OverlapInv'
  OBVIOUS
<1>1. CASE Next
  BY <1>1, CallOverlap DEF Next, CallAdd, CallRemove, CallDistribute, Tasks
<1>2. CASE UNCHANGED vars
  <2>1. ButResults /\ matching' = matching
    BY <1>2 DEF vars, callVars, ButResults
  <2> QED
    BY <2>1, OverlapStutter DEF OverlapInv, BasicInv, CallInv, TypeOK
<1> QED
  BY <1>1, <1>2

(* Every step keeps the invariant. *)
LEMMA HistoryStep ==
    OverlapInv /\ DeliveryInv(owed, delivered) /\ [DNext]_deliveryVars
       => DeliveryInv(owed, delivered)'
<1> SUFFICES ASSUME OverlapInv, DeliveryInv(owed, delivered), [DNext]_deliveryVars
             PROVE  DeliveryInv(owed, delivered)'
  OBVIOUS
<1> PICK O, D, O2, D2 : O = owed /\ D = delivered /\ O2 = owed' /\ D2 = delivered'
  OBVIOUS
<1>0. DeliveryInv(O, D)
  OBVIOUS
<1> SUFFICES DeliveryInv(O2, D2)'
  BY DeliveryAfter
<1>1. ASSUME NEW t \in Writers, DCallAdd(t) PROVE DeliveryInv(O2, D2)'
  <2>1. PICK k \in Keys, fs \in FilterLists : AddStart(t, k, fs)
    BY <1>1 DEF DCallAdd, CallAdd
  <2> QED
    BY <1>0, <1>1, <2>1, AddStartDelivery DEF DCallAdd, Tasks
<1>2. ASSUME NEW t \in Writers, DCallRemove(t) PROVE DeliveryInv(O2, D2)'
  <2>1. PICK k \in Keys : RemoveStart(t, k)
    BY <1>2 DEF DCallRemove, CallRemove
  <2>2. t \in Tasks /\ key'[t] = k
    BY <2>1 DEF RemoveStart, OverlapInv, BasicInv, CallInv, TypeOK, Tasks
  <2>3. O2 = Forget(k, O) /\ D2 = Forget(k, D)
    BY <1>2, <2>2 DEF DCallRemove
  <2> QED
    BY <1>0, <2>1, <2>2, <2>3, RemoveStartDelivery DEF Forget
<1>3. ASSUME NEW t \in Distributors, DCallDistribute(t) PROVE DeliveryInv(O2, D2)'
  <2>1. PICK e \in Events, s \in Scopes : DistStart(t, e, s)
    BY <1>3 DEF DCallDistribute, CallDistribute
  <2>2. t \in Tasks /\ event'[t] = e /\ scope'[t] = s
    BY <2>1 DEF DistStart, OverlapInv, BasicInv, CallInv, TypeOK, Tasks
  <2>3. D2 = D /\ O2 = O \cup {<<k, e.id>> : k \in Subscribed(e, s)}
    BY <1>3, <2>2 DEF DCallDistribute
  <2>4. ASSUME NEW r \in O2 \ O PROVE DueNow(r, e, s)
    <3>1. PICK k \in Subscribed(e, s) : r = <<k, e.id>>
      BY <2>3, <2>4
    <3>2. PICK id \in groupFilters[filter_groups[k]] :
             Settled(id) /\ MatchesEvent(tracked[id].filter, e)
      BY <3>1 DEF Subscribed
    <3>3. k \in Keys /\ k[1] = s /\ InGroup(k, id)
      BY <3>1, <3>2 DEF Subscribed, InGroup
    <3>4. id \in FilterIds
      BY <3>3, InGroupFilter
    <3> QED
      BY <3>1, <3>2, <3>3, <3>4 DEF DueNow
  <2> QED
    BY <1>0, <2>1, <2>2, <2>3, <2>4, DistributeDelivery
<1>4. ASSUME NEW t \in Distributors, DReturn(t) PROVE DeliveryInv(O2, D2)'
  BY <1>0, <1>4, EndDelivery DEF DReturn, Tasks
<1>5. ASSUME NEW t \in Tasks, DCallStep(t) PROVE DeliveryInv(O2, D2)'
  <2>1. /\ O2 = O /\ D \subseteq D2 /\ CallStep(t)
        /\ pc[t] = "group_mark" /\ filter_groups[key[t]] = grp[t] => <<key[t], event[t].id>> \in D2
    BY <1>5 DEF DCallStep
  <2>2. DeliveryInv(O2, D2)
    BY <1>0, <2>1, DeliveryWeaken
  <2> QED
    BY <2>1, <2>2, CallStepDelivery
<1>6. CASE UNCHANGED deliveryVars
  <2>1. O2 = O /\ D2 = D /\ ButResults
    BY <1>6 DEF deliveryVars, vars, callVars, ButResults
  <2> QED
    BY <1>0, <2>1, DeliveryStutter
<1> QED
  BY <1>1, <1>2, <1>3, <1>4, <1>5, <1>6 DEF DNext

(***************************************************************************)
(* The invariant of the index and the delivery invariant hold in every     *)
(* reachable state, however adds, removals and distributions overlap.      *)
(***************************************************************************)
THEOREM DeliveryInvariance == DSpec => [](OverlapInv /\ DeliveryInv(owed, delivered))
<1>1. OverlapInv /\ DeliveryInv(owed, delivered) /\ [DNext]_deliveryVars
         => (OverlapInv /\ DeliveryInv(owed, delivered))'
  BY HistoryStep, DeliveryIsNext, NextOverlap
<1> QED
  BY <1>1, HistoryInit, PTL DEF DSpec

(***************************************************************************)
(* At-least-once: a subscription that was fully added before an event's    *)
(* distribution began and was not removed since has been given the event   *)
(* once every distribution of it is over, for any number of distributions  *)
(* racing on the last_seen_event_id marks of filters and groups.           *)
(***************************************************************************)
THEOREM NeverMissed == DSpec => []AtLeastOnce
<1>1. OverlapInv /\ DeliveryInv(owed, delivered) => AtLeastOnce
  <2> SUFFICES ASSUME OverlapInv, DeliveryInv(owed, delivered),
                      NEW r \in owed, Finished(r[2]), r \notin delivered
               PROVE  FALSE
    BY DEF AtLeastOnce
  <2>1. PICK t \in Tasks : event[t] # None /\ event[t].id = r[2] /\ Carries(t, r[1])
    BY DEF DeliveryInv, Carried
  <2>2. Distributing(t) /\ pc[t] = "dist_done"
    BY <2>1 DEF Finished, Carries
  <2>3. ids[t] = {}
    BY <2>2 DEF OverlapInv, BasicInv, CallInv, LocalsInv, LocalsOf
  <2> QED
    BY <2>1, <2>2, <2>3 DEF Carries, HasGroup, HasFilter, Held, StillFound
<1> QED
  BY <1>1, DeliveryInvariance, PTL

(* The history variables only record: what is proved of the index (types,   *)
(* exactness, no subscription twice in a result) holds with them.           *)
LEMMA HistoryOnly == DSpec => Spec
<1>1. DInit => Init
  BY DEF DInit
<1> QED
  BY <1>1, DeliveryIsNext, PTL DEF DSpec, Spec
=============================================================================
