---------------------------- MODULE IndexInvariant ---------------------------
(***************************************************************************)
(* The inductive invariant of the subscription index.  IndexExact and      *)
(* SettledFindable speak of states in which somebody is not writing; they  *)
(* are not inductive.  What is: for every filter, group and running call,  *)
(* how far the call got and what it has therefore left in the tables.      *)
(***************************************************************************)
EXTENDS SubscriptionIndex

Adding(t)   == pc[t] \in {"add_filter", "add_group", "add_index"}
Removing(t) == pc[t] \in {"rm_snapshot", "rm_filter", "rm_index"}

(* The filters the index knows of one subscription. *)
Mine(k) == {id \in all_filters : tracked[id].parent = k}

(* The buckets a filter is filed under. *)
FiledUnder(id) == {b \in Buckets : <<b, id>> \in entries}

(* Allocation: only allocated filters and groups are referred to. *)
AllocInv ==
    /\ \A i \in FilterIds : i >= next_filter_id => tracked[i] = None
    /\ \A i \in all_filters : tracked[i] # None
    /\ \A g \in GroupIds : g >= nextGroup => groupFilters[g] = {}
    /\ \A k \in Keys : filter_groups[k] # None => filter_groups[k] < nextGroup

(* A group belongs to one subscription, and one call writes it. *)
OwnerInv ==
    /\ \A k, l \in Keys :
          filter_groups[k] # None /\ filter_groups[k] = filter_groups[l] => k = l
    /\ \A t, u \in Tasks : Writing(t) /\ Writing(u) /\ key[t] = key[u] => t = u

(* The locals of a call are set where the call uses them. *)
LocalsOf(t) ==
    /\ Writing(t) => key[t] \in Keys
    /\ Distributing(t) =>
          /\ event[t] \in Events
          /\ scope[t] \in Scopes
          /\ \A id \in ids[t] : tracked[id] # None
    /\ pc[t] = "mark_filter" => cur[t] \in FilterIds
    /\ pc[t] \in {"mark_filter", "group_get", "group_seen", "group_mark"} =>
          key[t] \in Keys
    /\ pc[t] \in {"group_seen", "group_mark"} => grp[t] \in GroupIds
    /\ pc[t] \in {"idle", "dist_done"} => ids[t] = {}
    /\ pc[t] # "lookup" => lookup[t] = 1

LocalsInv == \A t \in Tasks : LocalsOf(t)

(* Adding: the group is the live one; cur's entries are those written. *)
AddingOf(t) ==
    /\ Adding(t) =>
          /\ filter_groups[key[t]] # None
          /\ grp[t] = filter_groups[key[t]]
          /\ ids[t] = {}
    /\ pc[t] \in {"add_group", "add_index"} =>
          /\ cur[t] \in all_filters
          /\ tracked[cur[t]].parent = key[t]
    /\ pc[t] = "add_group" => FiledUnder(cur[t]) = {}
    /\ pc[t] = "add_index" =>
          /\ left[t] \subseteq FilterBuckets(tracked[cur[t]].filter)
          /\ FiledUnder(cur[t]) = FilterBuckets(tracked[cur[t]].filter) \ left[t]

AddInv == \A t \in Tasks : AddingOf(t)

(* Removing: the group is dead, and the call still holds all its filters. *)
RemovingOf(t) ==
    /\ Removing(t) => filter_groups[key[t]] = None
    /\ pc[t] = "rm_snapshot" =>
          /\ grp[t] \in GroupIds
          /\ grp[t] < nextGroup
          /\ \A k \in Keys : filter_groups[k] # grp[t]
          /\ groupFilters[grp[t]] = Mine(key[t])
          /\ ids[t] = {}
    /\ pc[t] \in {"rm_filter", "rm_index"} => ids[t] = Mine(key[t])
    /\ pc[t] = "rm_index" =>
          /\ cur[t] \in FilterIds \ all_filters
          /\ tracked[cur[t]] # None
          /\ tracked[cur[t]].parent = key[t]
          /\ FiledUnder(cur[t]) = left[t]

RemoveInv == \A t \in Tasks : RemovingOf(t)

(* The filters that are in all_filters but not yet in their group. *)
Ungrouped == {cur[t] : t \in {u \in Tasks : pc[u] = "add_group"}}

(* A live group holds the filters of its subscription that reached it; a    *)
(* subscription without a group, and without a call, has no filters.        *)
GroupInv ==
    \A k \in Keys :
        /\ filter_groups[k] # None =>
              groupFilters[filter_groups[k]] = Mine(k) \ Ungrouped
        /\ filter_groups[k] = None /\ Serialised(k) => Mine(k) = {}

(* A filter no call is working on is filed under all its buckets, or none. *)
BeingAdded(id)   == \E t \in Tasks : pc[t] \in {"add_group", "add_index"} /\ cur[t] = id
BeingRemoved(id) == \E t \in Tasks : pc[t] = "rm_index" /\ cur[t] = id

EntryInv ==
    \A id \in FilterIds :
        /\ id \in all_filters /\ ~BeingAdded(id) =>
              FiledUnder(id) = FilterBuckets(tracked[id].filter)
        /\ id \notin all_filters /\ ~BeingRemoved(id) => FiledUnder(id) = {}

(***************************************************************************)
(* The whole inductive invariant: at every point of every call the tables, *)
(* the groups and all_filters agree up to the work that call has left.     *)
(***************************************************************************)
IndexInv ==
    /\ TypeOK
    /\ AllocInv
    /\ OwnerInv
    /\ LocalsInv
    /\ AddInv
    /\ RemoveInv
    /\ GroupInv
    /\ EntryInv

-----------------------------------------------------------------------------
(***************************************************************************)
(* What holds of the index however its calls overlap, also two for one     *)
(* subscription: every call's locals are set where it uses them, a group   *)
(* only ever has filters of one subscription, and a filter is not in a     *)
(* group or a table before add_subscription puts it there.                 *)
(***************************************************************************)

(* The call holds a group to add to, or to take a snapshot of. *)
Linked(t) == Adding(t) \/ pc[t] = "rm_snapshot"

(* A writing call holds allocated objects of its own subscription. *)
WriterOf(t) ==
    /\ Linked(t) => grp[t] \in GroupIds /\ grp[t] < nextGroup /\ ids[t] = {}
    /\ pc[t] \in {"add_group", "add_index", "rm_index"} =>
          cur[t] \in FilterIds /\ tracked[cur[t]] # None /\ tracked[cur[t]].parent = key[t]
    /\ pc[t] \in {"rm_filter", "rm_index"} =>
          \A id \in ids[t] : tracked[id] # None /\ tracked[id].parent = key[t]

CallInv ==
    /\ TypeOK
    /\ AllocInv
    /\ LocalsInv
    /\ \A t \in Tasks : WriterOf(t)

(* Every group belongs to one subscription. *)
GroupOwner ==
    /\ \A g \in GroupIds : \A id \in groupFilters[g] : tracked[id] # None
    /\ \A k, l \in Keys :
          filter_groups[k] # None /\ filter_groups[k] = filter_groups[l] => k = l
    /\ \A k \in Keys : filter_groups[k] # None =>
          \A id \in groupFilters[filter_groups[k]] : tracked[id].parent = k
    /\ \A t \in Tasks : Linked(t) =>
          /\ \A id \in groupFilters[grp[t]] : tracked[id].parent = key[t]
          /\ \A k \in Keys : filter_groups[k] = grp[t] => k = key[t]
          /\ \A u \in Tasks : Linked(u) /\ grp[u] = grp[t] => key[u] = key[t]

(* A filter that is being added is in no other call's hands; it is in no   *)
(* group and no table before its call puts it there.                       *)
FreshFilters ==
    /\ \A b \in Buckets, id \in FilterIds : <<b, id>> \in entries => tracked[id] # None
    /\ \A t \in Tasks : pc[t] = "add_group" =>
          /\ \A g \in GroupIds : cur[t] \notin groupFilters[g]
          /\ FiledUnder(cur[t]) = {}
    /\ \A t, u \in Tasks :
          /\ pc[t] \in {"add_group", "add_index"} /\ pc[u] \in {"add_group", "add_index"}
          /\ cur[t] = cur[u]
          => t = u

BasicInv == CallInv /\ GroupOwner /\ FreshFilters

(***************************************************************************)
(* And the filters of a live group stay in all_filters and in the tables:  *)
(* a filter is in one group only, what remove_subscription erases was in a *)
(* group that it took out of filter_groups, and such a group never comes   *)
(* back.                                                                   *)
(***************************************************************************)

(* The filter is one of the live group of the subscription. *)
InGroup(k, id) == filter_groups[k] # None /\ id \in groupFilters[filter_groups[k]]

(* A group that was taken out of filter_groups. *)
Dead(g) == g \in GroupIds /\ g < nextGroup /\ \A k \in Keys : filter_groups[k] # g

Condemned(id) == \E g \in GroupIds : Dead(g) /\ id \in groupFilters[g]

RemovesDead(t) ==
    /\ pc[t] = "rm_snapshot" => Dead(grp[t])
    /\ pc[t] \in {"rm_filter", "rm_index"} => \A id \in ids[t] : Condemned(id)
    /\ pc[t] = "rm_index" => Condemned(cur[t])

(* The buckets that add_filter_to_indexes has yet to write. *)
Unfiled(id) == UNION {left[t] : t \in {u \in Tasks : pc[u] = "add_index" /\ cur[u] = id}}

FiledInv ==
    /\ \A g, h \in GroupIds : \A id \in groupFilters[g] : id \in groupFilters[h] => g = h
    /\ \A t \in Tasks : RemovesDead(t)
    /\ \A t \in Tasks : pc[t] = "add_group" => cur[t] \in all_filters
    /\ \A k \in Keys, id \in FilterIds : InGroup(k, id) =>
          /\ id \in all_filters
          /\ FilterBuckets(tracked[id].filter) \subseteq FiledUnder(id) \cup Unfiled(id)

OverlapInv == BasicInv /\ FiledInv

-----------------------------------------------------------------------------
(***************************************************************************)
(* What makes delivery at-least-once.  owed and delivered are sets of      *)
(* <<key, event id>>: what somebody must be given, and what somebody was   *)
(* given or will be without the index having a say in it.  The marks of    *)
(* filters and groups make a distribution skip what another one has taken  *)
(* over, so the invariant says for every mark who has.                     *)
(***************************************************************************)

(* Candidates a distribution has not decided on. *)
Held(t) == ids[t] \cup (IF pc[t] = "mark_filter" THEN {cur[t]} ELSE {})

(* The distribution is about to decide on the subscription, with its live  *)
(* group in hand.                                                          *)
HasGroup(t, k) ==
    /\ key[t] = k
    /\ \/ pc[t] = "group_get"
       \/ pc[t] \in {"group_seen", "group_mark"} /\ grp[t] = filter_groups[k]

(* The filter will be found in one of the tables not yet read. *)
StillFound(t, id) ==
    /\ pc[t] = "lookup"
    /\ \E n \in lookup[t]..Len(Tables) :
          FilterBuckets(tracked[id].filter) \cap EventBuckets(Tables[n], event[t]) # {}

(* The distribution has a filter of the subscription to come that matches. *)
HasFilter(t, k, id) ==
    /\ InGroup(k, id) /\ scope[t] = k[1]
    /\ \A u \in Tasks : pc[u] = "add_index" => cur[u] # id
    /\ MatchesEvent(tracked[id].filter, event[t])
    /\ id \in Held(t) \/ StillFound(t, id)

Carries(t, k) ==
    /\ Distributing(t)
    /\ HasGroup(t, k) \/ \E id \in FilterIds : HasFilter(t, k, id)

(* What is owed, is owed to a subscription that is there. *)
OwedLive(owed) == owed \subseteq Keys \X EventIds /\ \A r \in owed : filter_groups[r[1]] # None

(* A live group has seen no event that was not delivered. *)
GroupMarks(delivered) ==
    /\ \A g \in GroupIds : g >= nextGroup => groupSeen[g] = None
    /\ \A k \in Keys : filter_groups[k] # None /\ groupSeen[filter_groups[k]] # None =>
          <<k, groupSeen[filter_groups[k]]>> \in delivered

(* The locals of a distribution that LocalsOf does not mention: no live    *)
(* group but that of the subscription is held, checked_groups is empty     *)
(* before the candidates are looked at, and none of them is a filter that  *)
(* is not in its group yet.                                                *)
DistLocals(t) ==
    /\ pc[t] \in {"group_seen", "group_mark"} =>
          grp[t] < nextGroup /\ \A k \in Keys : filter_groups[k] = grp[t] => k = key[t]
    /\ pc[t] = "mark_filter" =>
          tracked[cur[t]] # None /\ tracked[cur[t]].parent = key[t]
    /\ pc[t] \in {"lookup", "dist_done"} \/ ~Distributing(t) => checked[t] = {}
    /\ Distributing(t) =>
          \A u \in Tasks : pc[u] = "add_group" => cur[u] \notin Held(t)

(* No event has been seen by a filter before it is in its group. *)
Unmarked ==
    \A id \in FilterIds :
       tracked[id] = None \/ (\E u \in Tasks : pc[u] = "add_group" /\ cur[u] = id)
          => filterSeen[id] = None

(* A subscription in checked_groups of which candidates are left was given *)
(* the event, or is being decided on.                                      *)
CheckedDone(t, delivered) ==
    Distributing(t) =>
       \A k \in checked[t] : \A id \in Held(t) :
          InGroup(k, id) => HasGroup(t, k) \/ <<k, event[t].id>> \in delivered

(* So was one of whose filters one has seen the event. *)
FilterMarks(delivered) ==
    \A k \in Keys, id \in FilterIds :
       InGroup(k, id) /\ filterSeen[id] # None =>
          \/ <<k, filterSeen[id]>> \in delivered
          \/ \E t \in Tasks : event[t] # None /\ event[t].id = filterSeen[id] /\ HasGroup(t, k)

(* What is owed and not delivered, somebody is about to deliver. *)
Carried(owed, delivered) == \A r \in owed \ delivered : \E t \in Tasks :
              event[t] # None /\ event[t].id = r[2] /\ Carries(t, r[1])

(* The whole of it. *)
DeliveryInv(owed, delivered) ==
    /\ OwedLive(owed) /\ GroupMarks(delivered) /\ Unmarked /\ FilterMarks(delivered)
    /\ Carried(owed, delivered)
    /\ \A t \in Tasks : DistLocals(t) /\ CheckedDone(t, delivered)

-----------------------------------------------------------------------------
(***************************************************************************)
(* What makes OncePerDistribution inductive: everything pushed so far is   *)
(* in checked_groups, and the key a distribution is about to push is not   *)
(* among what it pushed.                                                   *)
(***************************************************************************)
Deciding(t) == pc[t] \in {"group_get", "group_seen", "group_mark"}

OnceOf(t) ==
    /\ \A i, j \in DOMAIN matching[t] : matching[t][i] = matching[t][j] => i = j
    /\ pc[t] \notin {"check", "mark_filter", "dist_done"} /\ ~Deciding(t) =>
          matching[t] = <<>>
    /\ pc[t] \in {"check", "mark_filter"} \/ Deciding(t) =>
          \A i \in DOMAIN matching[t] : matching[t][i] \in checked[t]
    /\ Deciding(t) =>
          /\ key[t] \in checked[t]
          /\ \A i \in DOMAIN matching[t] : matching[t][i] # key[t]

OnceInv == \A t \in Tasks : OnceOf(t)
=============================================================================
