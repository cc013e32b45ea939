-------------------------- MODULE SubscriptionIndex --------------------------
(***************************************************************************)
(* The inverted subscription index, src/src/subscription_index.rs, one per *)
(* scope (SubscriptionRegistry.indexes), under concurrent calls.           *)
(*                                                                         *)
(* Every call of add_subscription, remove_subscription or distribute_event *)
(* is run by a task and is cut into one action per critical section: a     *)
(* DashMap operation, a section of one of the async RwLocks, or an access  *)
(* to a last_seen_event_id cell.  Between two of them any other task may   *)
(* run.                                                                    *)
(*                                                                         *)
(* Rust's Arcs keep a TrackedFilter or a FilterGroup alive after it left   *)
(* its map, so both live in a heap indexed by an allocation number.  The   *)
(* number of a filter is its FilterId; ids are drawn from one counter for  *)
(* all scopes, which keeps them unique, the only thing the code uses.      *)
(* The filters an index knows are those of its scope.                      *)
(***************************************************************************)
EXTENDS EventFilter, FiniteSets

CONSTANTS
    Writers,         \* tasks that add and remove subscriptions
    Distributors,    \* tasks that distribute events
    Scopes,          \* scopes (subdomains), one index each
    Conns,           \* connection ids
    Subs,            \* subscription ids
    FilterLists,     \* the filter lists a subscription may carry
    Events,          \* the events distributed
    MaxFilters,      \* bound: filters ever allocated
    MaxGroups,       \* bound: filter groups ever allocated
    AuthorsPerLock,  \* authors handled per hold of the authors lock (1000)
    None             \* the absent value

(***************************************************************************)
(* A connection's task does both kinds of calls, one at a time.  Splitting *)
(* the tasks by role bounds how many calls of each kind overlap.           *)
(***************************************************************************)
Tasks == Writers \cup Distributors

(* Parent of a filter and key of its group, with the scope of the index. *)
Keys == Scopes \X Conns \X Subs

FilterIds == 1..MaxFilters
GroupIds  == 1..MaxGroups

ASSUME IndexAssumption ==
    /\ MaxFilters \in Nat
    /\ MaxGroups \in Nat
    /\ AuthorsPerLock \in Nat \ {0}
    /\ FilterLists \subseteq Seq(Filter)
    /\ Events \subseteq Event
    /\ None \notin EventIds
    /\ None \notin [filter : Filter, parent : Keys]
    /\ None \notin Keys
    /\ None \notin Events
    /\ None \notin Nat

VARIABLES
    tracked,         \* heap of TrackedFilter: id -> [filter, parent] or None
    filterSeen,      \* TrackedFilter.last_seen_event_id
    all_filters,     \* ids in the all_filters map
    entries,         \* the five index tables: <<bucket, filter id>>
    next_filter_id,
    groupFilters,    \* heap of FilterGroup: filter_ids
    groupSeen,       \* heap of FilterGroup: last_seen_event_id
    filter_groups,   \* key -> group id or None
    nextGroup        \* next group allocation

VARIABLES            \* locals of the call each task is in
    pc,              \* where the task is; "idle" outside the index
    key,             \* parent_subscription of the call
    todo,            \* add: filters still to add
    grp,             \* group Arc held
    cur,             \* filter Arc held
    left,            \* buckets still to write for cur
    ids,             \* remove: snapshot of filter_ids; distribute: candidates
    event,           \* distribute: the event
    scope,           \* distribute: the index
    lookup,          \* distribute: next table to read
    checked,         \* distribute: checked_groups
    matching         \* distribute: matching_subscriptions

indexVars == <<tracked, filterSeen, all_filters, entries, next_filter_id,
               groupFilters, groupSeen, filter_groups, nextGroup>>
callVars  == <<pc, key, todo, grp, cur, left, ids, event, scope, lookup,
               checked, matching>>
vars      == <<indexVars, callVars>>

PCs == {"idle",
        "add_filter", "add_group", "add_index",
        "rm_snapshot", "rm_filter", "rm_index",
        "lookup", "check", "mark_filter", "group_get", "group_seen",
        "group_mark", "dist_done"}

TypeOK ==
    /\ tracked \in [FilterIds -> [filter : Filter, parent : Keys] \cup {None}]
    /\ filterSeen \in [FilterIds -> EventIds \cup {None}]
    /\ all_filters \subseteq FilterIds
    /\ entries \subseteq Buckets \X FilterIds
    /\ next_filter_id \in 1..(MaxFilters + 1)
    /\ groupFilters \in [GroupIds -> SUBSET FilterIds]
    /\ groupSeen \in [GroupIds -> EventIds \cup {None}]
    /\ filter_groups \in [Keys -> GroupIds \cup {None}]
    /\ nextGroup \in 1..(MaxGroups + 1)
    /\ pc \in [Tasks -> PCs]
    /\ key \in [Tasks -> Keys \cup {None}]
    /\ todo \in [Tasks -> Seq(Filter)]
    /\ grp \in [Tasks -> GroupIds \cup {None}]
    /\ cur \in [Tasks -> FilterIds \cup {None}]
    /\ left \in [Tasks -> SUBSET Buckets]
    /\ ids \in [Tasks -> SUBSET FilterIds]
    /\ event \in [Tasks -> Events \cup {None}]
    /\ scope \in [Tasks -> Scopes \cup {None}]
    /\ lookup \in [Tasks -> 1..(Len(Tables) + 1)]
    /\ checked \in [Tasks -> SUBSET Keys]
    /\ matching \in [Tasks -> Seq(Keys)]

Init ==
    /\ tracked = [i \in FilterIds |-> None]
    /\ filterSeen = [i \in FilterIds |-> None]
    /\ all_filters = {}
    /\ entries = {}
    /\ next_filter_id = 1
    /\ groupFilters = [g \in GroupIds |-> {}]
    /\ groupSeen = [g \in GroupIds |-> None]
    /\ filter_groups = [k \in Keys |-> None]
    /\ nextGroup = 1
    /\ pc = [t \in Tasks |-> "idle"]
    /\ key = [t \in Tasks |-> None]
    /\ todo = [t \in Tasks |-> <<>>]
    /\ grp = [t \in Tasks |-> None]
    /\ cur = [t \in Tasks |-> None]
    /\ left = [t \in Tasks |-> {}]
    /\ ids = [t \in Tasks |-> {}]
    /\ event = [t \in Tasks |-> None]
    /\ scope = [t \in Tasks |-> None]
    /\ lookup = [t \in Tasks |-> 1]
    /\ checked = [t \in Tasks |-> {}]
    /\ matching = [t \in Tasks |-> <<>>]

Goto(t, from, to) == pc[t] = from /\ pc' = [pc EXCEPT ![t] = to]

-----------------------------------------------------------------------------
(* add_subscription *)

(* filter_groups.entry(group_key).or_insert_with(FilterGroup::new).clone() *)
AddStart(t, k, fs) ==
    /\ Goto(t, "idle", "add_filter")
    /\ key' = [key EXCEPT ![t] = k]
    /\ todo' = [todo EXCEPT ![t] = fs]
    /\ \/ /\ filter_groups[k] # None
          /\ grp' = [grp EXCEPT ![t] = filter_groups[k]]
          /\ UNCHANGED <<filter_groups, nextGroup>>
       \/ /\ filter_groups[k] = None
          /\ nextGroup <= MaxGroups
          /\ grp' = [grp EXCEPT ![t] = nextGroup]
          /\ filter_groups' = [filter_groups EXCEPT ![k] = nextGroup]
          /\ nextGroup' = nextGroup + 1
    /\ UNCHANGED <<tracked, filterSeen, all_filters, entries, next_filter_id,
                   groupFilters, groupSeen, cur, left, ids, event, scope,
                   lookup, checked, matching>>

(* next_filter_id.fetch_add, TrackedFilter::new, all_filters.insert *)
AddFilter(t) ==
    /\ Goto(t, "add_filter", "add_group")
    /\ todo[t] # <<>>
    /\ next_filter_id <= MaxFilters
    /\ tracked' = [tracked EXCEPT ![next_filter_id] =
                      [filter |-> Head(todo[t]), parent |-> key[t]]]
    /\ all_filters' = all_filters \cup {next_filter_id}
    /\ next_filter_id' = next_filter_id + 1
    /\ cur' = [cur EXCEPT ![t] = next_filter_id]
    /\ todo' = [todo EXCEPT ![t] = Tail(todo[t])]
    /\ UNCHANGED <<filterSeen, entries, groupFilters, groupSeen,
                   filter_groups, nextGroup, key, grp, left, ids, event,
                   scope, lookup, checked, matching>>

(* filter_group.write().await.filter_ids.write().await.insert(filter_id) *)
AddToGroup(t) ==
    /\ Goto(t, "add_group", "add_index")
    /\ groupFilters' = [groupFilters EXCEPT ![grp[t]] = @ \cup {cur[t]}]
    /\ left' = [left EXCEPT ![t] = FilterBuckets(tracked[cur[t]].filter)]
    /\ UNCHANGED <<tracked, filterSeen, all_filters, entries, next_filter_id,
                   groupSeen, filter_groups, nextGroup, key, todo, grp, cur,
                   ids, event, scope, lookup, checked, matching>>

(***************************************************************************)
(* The buckets written in one hold of a table's lock.  The loops over the  *)
(* authors release the lock and yield after author AuthorsPerLock and every *)
(* multiple of it, counted from 0, so the first hold writes one more; the  *)
(* other tables are written in one hold.                                   *)
(***************************************************************************)
HoldSize(f, rest) ==
    IF rest = FilterBuckets(f) THEN AuthorsPerLock + 1 ELSE AuthorsPerLock

LockHold(f, rest) ==
    IF ChooseIndexField(f) = "Author" /\ Cardinality(rest) > HoldSize(f, rest)
    THEN {chunk \in SUBSET rest : Cardinality(chunk) = HoldSize(f, rest)}
    ELSE {rest}

(* add_filter_to_indexes, one hold of the lock *)
AddToIndex(t) ==
    /\ pc[t] = "add_index"
    /\ \E chunk \in LockHold(tracked[cur[t]].filter, left[t]) :
          /\ entries' = entries \cup (chunk \X {cur[t]})
          /\ left' = [left EXCEPT ![t] = left[t] \ chunk]
          /\ pc' = [pc EXCEPT ![t] =
                       IF left[t] \ chunk = {} THEN "add_filter" ELSE "add_index"]
          /\ cur' = [cur EXCEPT ![t] = IF left[t] \ chunk = {} THEN None ELSE @]
    /\ UNCHANGED <<tracked, filterSeen, all_filters, next_filter_id,
                   groupFilters, groupSeen, filter_groups, nextGroup, key,
                   todo, grp, ids, event, scope, lookup, checked, matching>>

AddReturn(t) ==
    /\ Goto(t, "add_filter", "idle")
    /\ todo[t] = <<>>
    /\ key' = [key EXCEPT ![t] = None]
    /\ grp' = [grp EXCEPT ![t] = None]
    /\ UNCHANGED <<indexVars, todo, cur, left, ids, event, scope, lookup,
                   checked, matching>>

-----------------------------------------------------------------------------
(* remove_subscription *)

(* filter_groups.remove(&group_key); nothing to do when it is absent *)
RemoveStart(t, k) ==
    /\ pc[t] = "idle"
    /\ key' = [key EXCEPT ![t] = k]
    /\ grp' = [grp EXCEPT ![t] = filter_groups[k]]
    /\ filter_groups' = [filter_groups EXCEPT ![k] = None]
    /\ pc' = [pc EXCEPT ![t] =
                 IF filter_groups[k] = None THEN "rm_filter" ELSE "rm_snapshot"]
    /\ UNCHANGED <<tracked, filterSeen, all_filters, entries, next_filter_id,
                   groupFilters, groupSeen, nextGroup, todo, cur, left, ids,
                   event, scope, lookup, checked, matching>>

(* Mutant: only the first filter of the group is collected. *)
RemoveSnapshotFirst(t) ==
    /\ Goto(t, "rm_snapshot", "rm_filter")
    /\ ids' = [ids EXCEPT ![t] = {CHOOSE id \in groupFilters[grp[t]] : TRUE}]
    /\ UNCHANGED <<indexVars, key, todo, grp, cur, left, event, scope,
                   lookup, checked, matching>>

(* filter_ids.read().await...collect() *)
RemoveSnapshot(t) ==
    /\ Goto(t, "rm_snapshot", "rm_filter")
    /\ ids' = [ids EXCEPT ![t] = groupFilters[grp[t]]]
    /\ UNCHANGED <<indexVars, key, todo, grp, cur, left, event, scope,
                   lookup, checked, matching>>

(* all_filters.remove(&filter_id), in the arbitrary order of the id set *)
RemoveFilter(t) ==
    /\ pc[t] = "rm_filter"
    /\ \E id \in ids[t] :
          /\ ids' = [ids EXCEPT ![t] = @ \ {id}]
          /\ all_filters' = all_filters \ {id}
          /\ IF id \in all_filters
             THEN /\ pc' = [pc EXCEPT ![t] = "rm_index"]
                  /\ cur' = [cur EXCEPT ![t] = id]
                  /\ left' = [left EXCEPT ![t] = FilterBuckets(tracked[id].filter)]
             ELSE UNCHANGED <<pc, cur, left>>
    /\ UNCHANGED <<tracked, filterSeen, entries, next_filter_id, groupFilters,
                   groupSeen, filter_groups, nextGroup, key, todo, grp, event,
                   scope, lookup, checked, matching>>

(* Mutant: the whole bucket goes, not only this filter's entry in it. *)
RemoveBuckets(t) ==
    /\ pc[t] = "rm_index"
    /\ \E chunk \in LockHold(tracked[cur[t]].filter, left[t]) :
          /\ entries' = entries \ (chunk \X FilterIds)
          /\ left' = [left EXCEPT ![t] = left[t] \ chunk]
          /\ pc' = [pc EXCEPT ![t] =
                       IF left[t] \ chunk = {} THEN "rm_filter" ELSE "rm_index"]
          /\ cur' = [cur EXCEPT ![t] = IF left[t] \ chunk = {} THEN None ELSE @]
    /\ UNCHANGED <<tracked, filterSeen, all_filters, next_filter_id,
                   groupFilters, groupSeen, filter_groups, nextGroup, key,
                   todo, grp, ids, event, scope, lookup, checked, matching>>

(* remove_filter_from_indexes, one hold of the lock *)
RemoveFromIndex(t) ==
    /\ pc[t] = "rm_index"
    /\ \E chunk \in LockHold(tracked[cur[t]].filter, left[t]) :
          /\ entries' = entries \ (chunk \X {cur[t]})
          /\ left' = [left EXCEPT ![t] = left[t] \ chunk]
          /\ pc' = [pc EXCEPT ![t] =
                       IF left[t] \ chunk = {} THEN "rm_filter" ELSE "rm_index"]
          /\ cur' = [cur EXCEPT ![t] = IF left[t] \ chunk = {} THEN None ELSE @]
    /\ UNCHANGED <<tracked, filterSeen, all_filters, next_filter_id,
                   groupFilters, groupSeen, filter_groups, nextGroup, key,
                   todo, grp, ids, event, scope, lookup, checked, matching>>

(* Mutant: the loop over the snapshot stops early. *)
RemoveReturnEarly(t) ==
    /\ Goto(t, "rm_filter", "idle")
    /\ ids' = [ids EXCEPT ![t] = {}]
    /\ key' = [key EXCEPT ![t] = None]
    /\ grp' = [grp EXCEPT ![t] = None]
    /\ UNCHANGED <<indexVars, todo, cur, left, event, scope, lookup, checked,
                   matching>>

RemoveReturn(t) ==
    /\ Goto(t, "rm_filter", "idle")
    /\ ids[t] = {}
    /\ key' = [key EXCEPT ![t] = None]
    /\ grp' = [grp EXCEPT ![t] = None]
    /\ UNCHANGED <<indexVars, todo, cur, left, ids, event, scope, lookup,
                   checked, matching>>

-----------------------------------------------------------------------------
(* distribute_event *)

DistStart(t, e, s) ==
    /\ Goto(t, "idle", "lookup")
    /\ event' = [event EXCEPT ![t] = e]
    /\ scope' = [scope EXCEPT ![t] = s]
    /\ UNCHANGED <<indexVars, key, todo, grp, cur, left, ids, lookup, checked,
                   matching>>

(* Mutant: one index for all the scopes. *)
LookupAllScopes(t) ==
    /\ pc[t] = "lookup"
    /\ ids' = [ids EXCEPT ![t] = @ \cup
                 {id \in FilterIds :
                    \E b \in EventBuckets(Tables[lookup[t]], event[t]) :
                       <<b, id>> \in entries}]
    /\ IF lookup[t] < Len(Tables)
       THEN /\ lookup' = [lookup EXCEPT ![t] = @ + 1]
            /\ UNCHANGED pc
       ELSE /\ lookup' = [lookup EXCEPT ![t] = 1]
            /\ pc' = [pc EXCEPT ![t] = "check"]
    /\ UNCHANGED <<indexVars, key, todo, grp, cur, left, event, scope,
                   checked, matching>>

(* get_candidate_filters: one table under its read lock *)
Lookup(t) ==
    /\ pc[t] = "lookup"
    /\ ids' = [ids EXCEPT ![t] = @ \cup
                 {id \in FilterIds :
                    /\ tracked[id] # None
                    /\ tracked[id].parent[1] = scope[t]
                    /\ \E b \in EventBuckets(Tables[lookup[t]], event[t]) :
                          <<b, id>> \in entries}]
    /\ IF lookup[t] < Len(Tables)
       THEN /\ lookup' = [lookup EXCEPT ![t] = @ + 1]
            /\ UNCHANGED pc
       ELSE /\ lookup' = [lookup EXCEPT ![t] = 1]
            /\ pc' = [pc EXCEPT ![t] = "check"]
    /\ UNCHANGED <<indexVars, key, todo, grp, cur, left, event, scope,
                   checked, matching>>

(***************************************************************************)
(* The loop over the candidates.  ids[t] holds those not yet looked at, so *)
(* checked_filters is implicit.  The order is arbitrary: nothing in the    *)
(* loop depends on it except which of a group's filters is marked first.   *)
(***************************************************************************)
CheckFilter(t) ==
    /\ pc[t] = "check"
    /\ \E id \in ids[t] :
          /\ ids' = [ids EXCEPT ![t] = @ \ {id}]
          /\ \/ /\ \/ filterSeen[id] = event[t].id
                   \/ ~MatchesEvent(tracked[id].filter, event[t])
                /\ UNCHANGED <<pc, cur, key>>
             \/ /\ filterSeen[id] # event[t].id
                /\ MatchesEvent(tracked[id].filter, event[t])
                /\ pc' = [pc EXCEPT ![t] = "mark_filter"]
                /\ cur' = [cur EXCEPT ![t] = id]
                /\ key' = [key EXCEPT ![t] = tracked[id].parent]
    /\ UNCHANGED <<indexVars, todo, grp, left, event, scope, lookup, checked,
                   matching>>

(* Mutant: checked_groups is not consulted, only the group's mark. *)
MarkFilterUnchecked(t) ==
    /\ Goto(t, "mark_filter", "group_get")
    /\ filterSeen' = [filterSeen EXCEPT ![cur[t]] = event[t].id]
    /\ cur' = [cur EXCEPT ![t] = None]
    /\ UNCHANGED <<tracked, all_filters, entries, next_filter_id, groupFilters,
                   groupSeen, filter_groups, nextGroup, key, todo, grp, left,
                   ids, event, scope, lookup, checked, matching>>

(* filter.mark_event_seen, then checked_groups.insert *)
MarkFilter(t) ==
    /\ pc[t] = "mark_filter"
    /\ filterSeen' = [filterSeen EXCEPT ![cur[t]] = event[t].id]
    /\ checked' = [checked EXCEPT ![t] = @ \cup {key[t]}]
    /\ pc' = [pc EXCEPT ![t] = IF key[t] \in checked[t] THEN "check" ELSE "group_get"]
    /\ cur' = [cur EXCEPT ![t] = None]
    /\ key' = [key EXCEPT ![t] = IF key[t] \in checked[t] THEN None ELSE @]
    /\ UNCHANGED <<tracked, all_filters, entries, next_filter_id, groupFilters,
                   groupSeen, filter_groups, nextGroup, todo, grp, left, ids,
                   event, scope, lookup, matching>>

(* filter_groups.get(&group_key) *)
GetGroup(t) ==
    /\ pc[t] = "group_get"
    /\ grp' = [grp EXCEPT ![t] = filter_groups[key[t]]]
    /\ IF filter_groups[key[t]] # None
       THEN /\ pc' = [pc EXCEPT ![t] = "group_seen"]
            /\ UNCHANGED key
       ELSE /\ pc' = [pc EXCEPT ![t] = "check"]
            /\ key' = [key EXCEPT ![t] = None]
    /\ UNCHANGED <<indexVars, todo, cur, left, ids, event, scope, lookup,
                   checked, matching>>

(* Mutant: any event seen before counts as this one. *)
GroupSeenAny(t) ==
    /\ pc[t] = "group_seen"
    /\ IF groupSeen[grp[t]] # None
       THEN /\ pc' = [pc EXCEPT ![t] = "check"]
            /\ grp' = [grp EXCEPT ![t] = None]
            /\ key' = [key EXCEPT ![t] = None]
       ELSE /\ pc' = [pc EXCEPT ![t] = "group_mark"]
            /\ UNCHANGED <<grp, key>>
    /\ UNCHANGED <<indexVars, todo, cur, left, ids, event, scope, lookup,
                   checked, matching>>

(* has_seen_event under the group's read lock *)
GroupSeen(t) ==
    /\ pc[t] = "group_seen"
    /\ IF groupSeen[grp[t]] = event[t].id
       THEN /\ pc' = [pc EXCEPT ![t] = "check"]
            /\ grp' = [grp EXCEPT ![t] = None]
            /\ key' = [key EXCEPT ![t] = None]
       ELSE /\ pc' = [pc EXCEPT ![t] = "group_mark"]
            /\ UNCHANGED <<grp, key>>
    /\ UNCHANGED <<indexVars, todo, cur, left, ids, event, scope, lookup,
                   checked, matching>>

(* mark_event_seen under the write lock, matching_subscriptions.push *)
GroupMark(t) ==
    /\ Goto(t, "group_mark", "check")
    /\ groupSeen' = [groupSeen EXCEPT ![grp[t]] = event[t].id]
    /\ matching' = [matching EXCEPT ![t] = Append(@, key[t])]
    /\ grp' = [grp EXCEPT ![t] = None]
    /\ key' = [key EXCEPT ![t] = None]
    /\ UNCHANGED <<tracked, filterSeen, all_filters, entries, next_filter_id,
                   groupFilters, filter_groups, nextGroup, todo, cur, left,
                   ids, event, scope, lookup, checked>>

(* the loop ends; matching_subscriptions is the result *)
DistDone(t) ==
    /\ Goto(t, "check", "dist_done")
    /\ ids[t] = {}
    /\ checked' = [checked EXCEPT ![t] = {}]
    /\ UNCHANGED <<indexVars, key, todo, grp, cur, left, ids, event, scope,
                   lookup, matching>>

(* the caller takes the result *)
DistReturn(t) ==
    /\ Goto(t, "dist_done", "idle")
    /\ event' = [event EXCEPT ![t] = None]
    /\ scope' = [scope EXCEPT ![t] = None]
    /\ matching' = [matching EXCEPT ![t] = <<>>]
    /\ UNCHANGED <<indexVars, key, todo, grp, cur, left, ids, lookup, checked>>

-----------------------------------------------------------------------------
AddStep(t) == AddFilter(t) \/ AddToGroup(t) \/ AddToIndex(t) \/ AddReturn(t)

RemoveStep(t) ==
    RemoveSnapshot(t) \/ RemoveFilter(t) \/ RemoveFromIndex(t) \/ RemoveReturn(t)

DistStep(t) ==
    \/ Lookup(t) \/ CheckFilter(t) \/ MarkFilter(t) \/ GetGroup(t)
    \/ GroupSeen(t) \/ GroupMark(t) \/ DistDone(t)

(* The steps of a call between its start and its return. *)
CallStep(t) == AddStep(t) \/ RemoveStep(t) \/ DistStep(t)

Writing(t) ==
    pc[t] \in {"add_filter", "add_group", "add_index",
               "rm_snapshot", "rm_filter", "rm_index"}

Distributing(t) ==
    pc[t] \in {"lookup", "check", "mark_filter", "group_get", "group_seen",
               "group_mark", "dist_done"}
-----------------------------------------------------------------------------
(***************************************************************************)
(* The index under the discipline its callers keep when each connection is *)
(* cleaned up only by its own task: calls for one (connection,             *)
(* subscription) never overlap, because the registry makes them under the  *)
(* write lock of the connection's subscription map.  Calls for different   *)
(* keys, and distributions, overlap freely.  (SubscriptionRegistry drops   *)
(* this assumption.)                                                       *)
(***************************************************************************)
Serialised(k) == \A t \in Tasks : Writing(t) => key[t] # k

(* Filters of the calls under way that have no id yet. *)
PendingFilters == UNION {{t} \X DOMAIN todo[t] : t \in Tasks}

(* The bound MaxFilters leaves room for the whole call. *)
RoomFor(fs) ==
    next_filter_id - 1 + Cardinality(PendingFilters) + Len(fs) <= MaxFilters

CallAdd(t) ==
    \E k \in Keys, fs \in FilterLists :
        Serialised(k) /\ RoomFor(fs) /\ AddStart(t, k, fs)

CallRemove(t) ==
    \E k \in Keys : Serialised(k) /\ filter_groups[k] # None /\ RemoveStart(t, k)

CallDistribute(t) == \E e \in Events, s \in Scopes : DistStart(t, e, s)

Next ==
    \/ \E t \in Writers : CallAdd(t) \/ CallRemove(t)
    \/ \E t \in Distributors : CallDistribute(t) \/ DistReturn(t)
    \/ \E t \in Tasks : CallStep(t)

Spec == Init /\ [][Next]_vars

-----------------------------------------------------------------------------
(***************************************************************************)
(* The index is exact whenever nobody is writing to it: the filters known  *)
(* to the index are exactly those of the live groups, and each is filed in *)
(* exactly its buckets.  Nothing leaks after remove_subscription and       *)
(* nothing registered by add_subscription is unreachable.                  *)
(***************************************************************************)
LiveFilters == UNION {groupFilters[filter_groups[k]] :
                      k \in {x \in Keys : filter_groups[x] # None}}

FiledEntries(id) == FilterBuckets(tracked[id].filter) \X {id}

IndexExact ==
    (\A t \in Tasks : ~Writing(t)) =>
        /\ all_filters = LiveFilters
        /\ entries = UNION {FiledEntries(id) : id \in all_filters}

(***************************************************************************)
(* A filter of a live group, once add_filter_to_indexes finished with it,  *)
(* stays findable under every one of its buckets while other calls add and *)
(* remove other subscriptions (the retain in remove_filter_from_indexes    *)
(* touches only its own filter).                                           *)
(***************************************************************************)
Settled(id) == id \in all_filters /\ \A t \in Tasks : Writing(t) => cur[t] # id

SettledFindable ==
    \A id \in FilterIds : Settled(id) => FiledEntries(id) \subseteq entries

(***************************************************************************)
(* distribute_event returns each subscription at most once, however many   *)
(* of its filters match and whatever concurrent distributions do to the    *)
(* last_seen_event_id cells meanwhile.                                     *)
(***************************************************************************)
OncePerDistribution ==
    \A t \in Tasks : \A i, j \in DOMAIN matching[t] :
        matching[t][i] = matching[t][j] => i = j
=============================================================================
