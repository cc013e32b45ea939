----------------------- MODULE SubscriptionIndexProofs -----------------------
(***************************************************************************)
(* Facts about the filing of filters and the lookup of events, for every   *)
(* filter and every event, and the index's invariants for any number of    *)
(* tasks, scopes, connections, subscriptions, filters and events.          *)
(***************************************************************************)
EXTENDS IndexInvariant, WellFoundedInduction, TLAPS

(* FirstTag is well defined: a least tag name exists.  (The BTreeMap of     *)
(* generic_tags is read in order up to the first non-empty one.)            *)
LEMMA FirstTagExists ==
    ASSUME NEW f \in Filter, NonEmptyTags(f) # {}
    PROVE  FirstTag(f) \in NonEmptyTags(f)
<1>1. NonEmptyTags(f) \subseteq Nat
  BY TagNamesAssumption DEF NonEmptyTags, Filter
<1> DEFINE Less == OpToRel(<, Nat)
<1>2. \A m, n \in Nat : <<m, n>> \in Less <=> m < n
  BY DEF OpToRel
<1>3. IsWellFoundedOn(Less, Nat)
  BY NatLessThanWellFounded
<1> HIDE DEF Less
<1>4. PICK n \in NonEmptyTags(f) : \A m \in NonEmptyTags(f) : <<m, n>> \notin Less
  BY <1>1, <1>3, WFMin
<1>5. ASSUME NEW m \in NonEmptyTags(f)
      PROVE  n <= m
  <2>1. m \in Nat /\ n \in Nat
    BY <1>1
  <2>2. ~(m < n)
    BY <2>1, <1>2, <1>4
  <2> QED
    BY <2>1, <2>2
<1> QED
  BY <1>5 DEF FirstTag

(* The constraint a filter is filed by, spelled out. *)
LEMMA ChooseIndexFieldCases ==
    ASSUME NEW f \in Filter
    PROVE  \/ f.ids # {} /\ ChooseIndexField(f) = "EventId"
           \/ f.authors # {} /\ ChooseIndexField(f) = "Author"
           \/ f.kinds # {} /\ ChooseIndexField(f) = "Kind"
           \/ NonEmptyTags(f) # {} /\ ChooseIndexField(f) = "Tag"
           \/ ChooseIndexField(f) = "MatchAll"
  BY DEF ChooseIndexField

(* add_filter_to_indexes files a filter in buckets of the five tables only. *)
LEMMA FilterBucketsType ==
    ASSUME NEW f \in Filter
    PROVE  FilterBuckets(f) \subseteq Buckets
<1>1. CASE f.ids # {} /\ ChooseIndexField(f) = "EventId"
  BY <1>1 DEF FilterBuckets, Buckets, Filter
<1>2. CASE f.authors # {} /\ ChooseIndexField(f) = "Author"
  BY <1>2 DEF FilterBuckets, Buckets, Filter
<1>3. CASE f.kinds # {} /\ ChooseIndexField(f) = "Kind"
  BY <1>3 DEF FilterBuckets, Buckets, Filter
<1>4. CASE NonEmptyTags(f) # {} /\ ChooseIndexField(f) = "Tag"
  <2>1. FirstTag(f) \in DOMAIN f.tags /\ FirstTag(f) \in TagNames
    BY <1>4, FirstTagExists DEF NonEmptyTags, Filter
  <2>2. f.tags[FirstTag(f)] \subseteq TagValues
    BY <2>1 DEF Filter
  <2> QED
    BY <1>4, <2>1, <2>2 DEF FilterBuckets, Buckets
<1>5. CASE ChooseIndexField(f) = "MatchAll"
  BY <1>5 DEF FilterBuckets, Buckets
<1> QED
  BY <1>1, <1>2, <1>3, <1>4, <1>5, ChooseIndexFieldCases

(* get_candidate_filters reads each of the five tables. *)
LEMMA LookupReadsTables ==
    ASSUME NEW e, NEW table \in {"match_all_filters", "event_ids", "authors", "kinds", "tags"}
    PROVE  EventBuckets(table, e) \subseteq LookupBuckets(e)
<1>1. \E i \in 1..Len(Tables) : Tables[i] = table
  BY DEF Tables
<1> QED
  BY <1>1 DEF LookupBuckets

(***************************************************************************)
(* No false negatives, for every filter and every event: whatever          *)
(* choose_index_field picks, an event the filter accepts is looked up in a *)
(* bucket the filter is filed under.                                       *)
(***************************************************************************)
THEOREM IndexComplete ==
    \A f \in Filter, e \in Event : CandidateComplete(f, e)
<1> SUFFICES ASSUME NEW f \in Filter, NEW e \in Event, MatchesEvent(f, e)
             PROVE  \E b \in FilterBuckets(f) : b \in LookupBuckets(e)
  BY DEF CandidateComplete
<1>1. CASE f.ids # {} /\ ChooseIndexField(f) = "EventId"
  <2>1. <<"event_ids", e.id>> \in FilterBuckets(f)
    BY <1>1 DEF FilterBuckets, MatchesEvent
  <2>2. <<"event_ids", e.id>> \in EventBuckets("event_ids", e)
    BY DEF EventBuckets
  <2> QED
    BY <2>1, <2>2, LookupReadsTables
<1>2. CASE f.authors # {} /\ ChooseIndexField(f) = "Author"
  <2>1. <<"authors", e.pubkey>> \in FilterBuckets(f)
    BY <1>2 DEF FilterBuckets, MatchesEvent
  <2>2. <<"authors", e.pubkey>> \in EventBuckets("authors", e)
    BY DEF EventBuckets
  <2> QED
    BY <2>1, <2>2, LookupReadsTables
<1>3. CASE f.kinds # {} /\ ChooseIndexField(f) = "Kind"
  <2>1. <<"kinds", e.kind>> \in FilterBuckets(f)
    BY <1>3 DEF FilterBuckets, MatchesEvent
  <2>2. <<"kinds", e.kind>> \in EventBuckets("kinds", e)
    BY DEF EventBuckets
  <2> QED
    BY <2>1, <2>2, LookupReadsTables
<1>4. CASE NonEmptyTags(f) # {} /\ ChooseIndexField(f) = "Tag"
  <2>1. FirstTag(f) \in DOMAIN f.tags /\ FirstTag(f) \in TagNames
    BY <1>4, FirstTagExists DEF NonEmptyTags, Filter
  <2>2. PICK tag \in e.tags : /\ tag.name = FirstTag(f)
                              /\ Len(tag.values) > 0
                              /\ tag.values[1] \in f.tags[FirstTag(f)]
    BY <2>1 DEF MatchesEvent, TagMatches
  <2>3. <<"tags", FirstTag(f), tag.values[1]>> \in FilterBuckets(f)
    BY <1>4, <2>2 DEF FilterBuckets
  <2>4. 1 \in DOMAIN tag.values
    BY <2>2 DEF Event, Tag
  <2>5. <<"tags", FirstTag(f), tag.values[1]>> \in TagBuckets(e)
    BY <2>1, <2>2, <2>4 DEF TagBuckets
  <2>6. <<"tags", FirstTag(f), tag.values[1]>> \in EventBuckets("tags", e)
    BY <2>5 DEF EventBuckets
  <2> QED
    BY <2>3, <2>6, LookupReadsTables
<1>5. CASE ChooseIndexField(f) = "MatchAll"
  <2>1. <<"match_all_filters">> \in FilterBuckets(f)
    BY <1>5 DEF FilterBuckets
  <2>2. <<"match_all_filters">> \in EventBuckets("match_all_filters", e)
    BY DEF EventBuckets
  <2> QED
    BY <2>1, <2>2, LookupReadsTables
<1> QED
  BY <1>1, <1>2, <1>3, <1>4, <1>5, ChooseIndexFieldCases

-----------------------------------------------------------------------------
(* The index *)

(* An empty index with no call under way satisfies the invariant. *)
LEMMA InitInv == Init => IndexInv
<1> SUFFICES ASSUME Init PROVE IndexInv
  OBVIOUS
<1> USE DEF Init
<1>0. \A t \in Tasks : ~Writing(t) /\ ~Distributing(t) /\ ~Adding(t) /\ ~Removing(t)
  BY DEF Writing, Distributing, Adding, Removing
<1>1. TypeOK
  BY IndexAssumption DEF TypeOK, FilterIds, GroupIds, PCs, Tables
<1>2. AllocInv
  BY DEF AllocInv
<1>3. OwnerInv
  BY <1>0 DEF OwnerInv
<1>4. LocalsInv
  BY <1>0 DEF LocalsInv, LocalsOf
<1>5. AddInv
  BY <1>0 DEF AddInv, AddingOf
<1>6. RemoveInv
  BY <1>0 DEF RemoveInv, RemovingOf
<1>7. GroupInv
  BY DEF GroupInv, Mine
<1>8. EntryInv
  BY DEF EntryInv, FiledUnder
<1> QED
  BY <1>1, <1>2, <1>3, <1>4, <1>5, <1>6, <1>7, <1>8 DEF IndexInv

-----------------------------------------------------------------------------
(* What holds of overlapping calls holds of serialised ones. *)
LEMMA IndexHasCalls == IndexInv => CallInv
<1> SUFFICES ASSUME IndexInv PROVE CallInv
  OBVIOUS
<1>1. TypeOK /\ AllocInv /\ LocalsInv
  BY DEF IndexInv
<1>2. ASSUME NEW t \in Tasks PROVE WriterOf(t)
  <2>1. AddingOf(t) /\ RemovingOf(t) /\ LocalsOf(t)
    BY DEF IndexInv, AddInv, RemoveInv, LocalsInv
  <2>2. \A id \in Mine(key[t]) : tracked[id] # None /\ tracked[id].parent = key[t]
    BY <1>1 DEF Mine, AllocInv
  <2>3. Linked(t) => grp[t] \in GroupIds /\ grp[t] < nextGroup /\ ids[t] = {}
    BY <1>1, <2>1 DEF Linked, AddingOf, RemovingOf, Adding, LocalsOf, Writing, AllocInv, TypeOK
  <2>4. pc[t] \in {"add_group", "add_index", "rm_index"} =>
          cur[t] \in FilterIds /\ tracked[cur[t]] # None /\ tracked[cur[t]].parent = key[t]
    BY <1>1, <2>1 DEF AddingOf, RemovingOf, TypeOK, AllocInv
  <2> QED
    BY <2>1, <2>2, <2>3, <2>4 DEF WriterOf, RemovingOf
<1> QED
  BY <1>1, <1>2 DEF CallInv

(* The types hold once the group is found or created. *)
LEMMA AddStartType ==
    ASSUME CallInv, NEW t \in Tasks, NEW k \in Keys, NEW fs \in FilterLists,
           AddStart(t, k, fs)
    PROVE  TypeOK'
<1>1. fs \in Seq(Filter)
  BY IndexAssumption
<1>2. CASE filter_groups[k] # None
  BY <1>1, <1>2 DEF AddStart, Goto, CallInv, TypeOK, PCs
<1>3. CASE filter_groups[k] = None
  <2>1. nextGroup \in GroupIds /\ nextGroup + 1 \in 1..(MaxGroups + 1)
    <3>1. nextGroup <= MaxGroups /\ nextGroup \in 1..(MaxGroups + 1)
      BY <1>3 DEF AddStart, CallInv, TypeOK
    <3> QED
      BY <3>1, IndexAssumption DEF GroupIds
  <2> QED
    <3>1. pc' \in [Tasks -> PCs] /\ key' \in [Tasks -> Keys \cup {None}]
      BY DEF AddStart, Goto, CallInv, TypeOK, PCs
    <3>2. todo' \in [Tasks -> Seq(Filter)]
      BY <1>1 DEF AddStart, CallInv, TypeOK
    <3>3. grp' \in [Tasks -> GroupIds \cup {None}]
      BY <1>3, <2>1 DEF AddStart, CallInv, TypeOK
    <3>4. filter_groups' = [filter_groups EXCEPT ![k] = nextGroup] /\ nextGroup' = nextGroup + 1
      BY <1>3 DEF AddStart
    <3>6. filter_groups' \in [Keys -> GroupIds \cup {None}]
      BY <2>1, <3>4 DEF CallInv, TypeOK
    <3>5. UNCHANGED <<tracked, filterSeen, all_filters, entries, next_filter_id,
                      groupFilters, groupSeen, cur, left, ids, event, scope,
                      lookup, checked, matching>>
      BY DEF AddStart
    <3> QED
      BY <2>1, <3>1, <3>2, <3>3, <3>4, <3>5, <3>6 DEF CallInv, TypeOK
<1> QED
  BY <1>2, <1>3

(* The types hold once a filter is allocated. *)
LEMMA AddFilterType ==
    ASSUME CallInv, NEW t \in Tasks, AddFilter(t)
    PROVE  TypeOK'
<1>1. next_filter_id \in FilterIds /\ next_filter_id + 1 \in 1..(MaxFilters + 1)
  <2>1. next_filter_id <= MaxFilters /\ next_filter_id \in 1..(MaxFilters + 1)
    BY DEF AddFilter, CallInv, TypeOK
  <2> QED
    BY <2>1, IndexAssumption DEF FilterIds
<1>2. todo[t] \in Seq(Filter) /\ todo[t] # <<>> /\ key[t] \in Keys
  BY DEF AddFilter, Goto, CallInv, TypeOK, LocalsInv, LocalsOf, Writing
<1>3. Head(todo[t]) \in Filter /\ Tail(todo[t]) \in Seq(Filter)
  BY <1>2
<1>4. tracked' \in [FilterIds -> [filter : Filter, parent : Keys] \cup {None}]
  BY <1>1, <1>2, <1>3 DEF AddFilter, CallInv, TypeOK
<1>5. pc' \in [Tasks -> PCs] /\ cur' \in [Tasks -> FilterIds \cup {None}]
  BY <1>1 DEF AddFilter, Goto, CallInv, TypeOK, PCs
<1>6. todo' \in [Tasks -> Seq(Filter)]
  BY <1>3 DEF AddFilter, CallInv, TypeOK
<1>7. all_filters' \subseteq FilterIds /\ next_filter_id' \in 1..(MaxFilters + 1)
  BY <1>1 DEF AddFilter, CallInv, TypeOK
<1>8. UNCHANGED <<filterSeen, entries, groupFilters, groupSeen, filter_groups,
                  nextGroup, key, grp, left, ids, event, scope, lookup,
                  checked, matching>>
  BY DEF AddFilter
<1> QED
  BY <1>4, <1>5, <1>6, <1>7, <1>8 DEF CallInv, TypeOK

(* The types hold once it joins its group. *)
LEMMA AddToGroupType ==
    ASSUME CallInv, NEW t \in Tasks, AddToGroup(t)
    PROVE  TypeOK'
<1>1. cur[t] \in FilterIds /\ grp[t] \in GroupIds
  BY DEF AddToGroup, Goto, CallInv, TypeOK, Adding, WriterOf, Linked
<1>2. tracked[cur[t]].filter \in Filter
  BY <1>1 DEF AddToGroup, Goto, CallInv, TypeOK, WriterOf
<1>3. FilterBuckets(tracked[cur[t]].filter) \subseteq Buckets
  BY <1>2, FilterBucketsType
<1> QED
  BY <1>1, <1>3 DEF AddToGroup, Goto, CallInv, TypeOK, PCs

(* The types hold once it is filed. *)
LEMMA AddToIndexType ==
    ASSUME CallInv, NEW t \in Tasks, AddToIndex(t)
    PROVE  TypeOK'
  BY DEF AddToIndex, CallInv, TypeOK, PCs, LockHold, WriterOf

(* The types hold once add_subscription returns. *)
LEMMA AddReturnType ==
    ASSUME CallInv, NEW t \in Tasks, AddReturn(t)
    PROVE  TypeOK'
  BY DEF AddReturn, Goto, indexVars, CallInv, TypeOK, PCs

(* The types hold once the group leaves filter_groups. *)
LEMMA RemoveStartType ==
    ASSUME CallInv, NEW t \in Tasks, NEW k \in Keys, RemoveStart(t, k)
    PROVE  TypeOK'
  BY DEF RemoveStart, CallInv, TypeOK, PCs

(* The types hold once its filter ids are collected. *)
LEMMA RemoveSnapshotType ==
    ASSUME CallInv, NEW t \in Tasks, RemoveSnapshot(t)
    PROVE  TypeOK'
  BY DEF RemoveSnapshot, Goto, indexVars, CallInv, TypeOK, PCs, WriterOf, Linked

(* The types hold once one of them leaves all_filters. *)
LEMMA RemoveFilterType ==
    ASSUME CallInv, NEW t \in Tasks, RemoveFilter(t)
    PROVE  TypeOK'
<1>1. PICK id \in ids[t] :
         /\ ids' = [ids EXCEPT ![t] = @ \ {id}]
         /\ all_filters' = all_filters \ {id}
         /\ IF id \in all_filters
            THEN /\ pc' = [pc EXCEPT ![t] = "rm_index"]
                 /\ cur' = [cur EXCEPT ![t] = id]
                 /\ left' = [left EXCEPT ![t] = FilterBuckets(tracked[id].filter)]
            ELSE UNCHANGED <<pc, cur, left>>
  BY DEF RemoveFilter
<1>2. id \in FilterIds
  BY DEF CallInv, TypeOK
<1>3. id \in all_filters => FilterBuckets(tracked[id].filter) \subseteq Buckets
  <2>1. id \in all_filters => tracked[id].filter \in Filter
    BY <1>2 DEF CallInv, TypeOK, AllocInv
  <2> QED
    BY <2>1, FilterBucketsType
<1> QED
  <2>1. pc' \in [Tasks -> PCs]
    BY <1>1 DEF CallInv, TypeOK, PCs
  <2>4. cur' \in [Tasks -> FilterIds \cup {None}]
    BY <1>1, <1>2 DEF CallInv, TypeOK
  <2>5. ids' \in [Tasks -> SUBSET FilterIds] /\ all_filters' \subseteq FilterIds
    BY <1>1 DEF CallInv, TypeOK
  <2>2. left' \in [Tasks -> SUBSET Buckets]
    BY <1>1, <1>3 DEF CallInv, TypeOK
  <2>3. UNCHANGED <<tracked, filterSeen, entries, next_filter_id, groupFilters,
                    groupSeen, filter_groups, nextGroup, key, todo, grp, event,
                    scope, lookup, checked, matching>>
    BY DEF RemoveFilter
  <2> QED
    BY <2>1, <2>2, <2>3, <2>4, <2>5 DEF CallInv, TypeOK

(* The types hold once it is unfiled. *)
LEMMA RemoveFromIndexType ==
    ASSUME CallInv, NEW t \in Tasks, RemoveFromIndex(t)
    PROVE  TypeOK'
  BY DEF RemoveFromIndex, CallInv, TypeOK, PCs, LockHold

(* The types hold once remove_subscription returns. *)
LEMMA RemoveReturnType ==
    ASSUME CallInv, NEW t \in Tasks, RemoveReturn(t)
    PROVE  TypeOK'
  BY DEF RemoveReturn, Goto, indexVars, CallInv, TypeOK, PCs

-----------------------------------------------------------------------------
(* The types hold once distribute_event begins. *)
LEMMA DistStartType ==
    ASSUME CallInv, NEW t \in Tasks, NEW e \in Events, NEW s \in Scopes,
           DistStart(t, e, s)
    PROVE  TypeOK'
  BY DEF DistStart, Goto, indexVars, CallInv, TypeOK, PCs

(* The types hold once get_candidate_filters reads one table. *)
LEMMA LookupType ==
    ASSUME CallInv, NEW t \in Tasks, Lookup(t)
    PROVE  TypeOK'
<1>1. Len(Tables) = 5 /\ lookup[t] \in 1..6
  BY DEF CallInv, TypeOK, Tables
<1>2. ids' \in [Tasks -> SUBSET FilterIds]
  BY DEF Lookup, CallInv, TypeOK
<1>3. lookup' \in [Tasks -> 1..(Len(Tables) + 1)]
  <2>1. lookup' = [lookup EXCEPT ![t] = IF lookup[t] < 5 THEN lookup[t] + 1 ELSE 1]
    BY <1>1 DEF Lookup, CallInv, TypeOK
  <2> QED
    BY <1>1, <2>1 DEF CallInv, TypeOK
<1>4. pc' \in [Tasks -> PCs]
  <2>1. pc' = pc \/ pc' = [pc EXCEPT ![t] = "check"]
    BY DEF Lookup
  <2> QED
    BY <2>1 DEF CallInv, TypeOK, PCs
<1>5. UNCHANGED <<indexVars, key, todo, grp, cur, left, event, scope, checked, matching>>
  BY DEF Lookup
<1> QED
  BY <1>2, <1>3, <1>4, <1>5 DEF indexVars, CallInv, TypeOK

(* The types hold once one candidate is tested. *)
LEMMA CheckFilterType ==
    ASSUME CallInv, NEW t \in Tasks, CheckFilter(t)
    PROVE  TypeOK'
<1>1. PICK id \in ids[t] :
         /\ ids' = [ids EXCEPT ![t] = @ \ {id}]
         /\ \/ UNCHANGED <<pc, cur, key>>
            \/ /\ pc' = [pc EXCEPT ![t] = "mark_filter"]
               /\ cur' = [cur EXCEPT ![t] = id]
               /\ key' = [key EXCEPT ![t] = tracked[id].parent]
  BY DEF CheckFilter
<1>2. id \in FilterIds
  BY DEF CallInv, TypeOK
<1>3. tracked[id].parent \in Keys
  BY <1>2 DEF CheckFilter, CallInv, TypeOK, LocalsInv, LocalsOf, Distributing
<1>4. pc' \in [Tasks -> PCs]
  BY <1>1 DEF CallInv, TypeOK, PCs
<1>6. cur' \in [Tasks -> FilterIds \cup {None}]
  BY <1>1, <1>2 DEF CallInv, TypeOK
<1>7. key' \in [Tasks -> Keys \cup {None}]
  BY <1>1, <1>3 DEF CallInv, TypeOK
<1>8. ids' \in [Tasks -> SUBSET FilterIds]
  BY <1>1 DEF CallInv, TypeOK
<1>5. UNCHANGED <<indexVars, todo, grp, left, event, scope, lookup, checked, matching>>
  BY DEF CheckFilter
<1> QED
  BY <1>4, <1>5, <1>6, <1>7, <1>8 DEF indexVars, CallInv, TypeOK

(* The types hold once the matching filter is marked. *)
LEMMA MarkFilterType ==
    ASSUME CallInv, NEW t \in Tasks, MarkFilter(t)
    PROVE  TypeOK'
<1>1. event[t].id \in EventIds
  BY IndexAssumption DEF MarkFilter, CallInv, LocalsInv, LocalsOf, Distributing, Event
<1> QED
  BY <1>1 DEF MarkFilter, CallInv, TypeOK, PCs, LocalsInv, LocalsOf

(* The types hold once the group is fetched. *)
LEMMA GetGroupType ==
    ASSUME CallInv, NEW t \in Tasks, GetGroup(t)
    PROVE  TypeOK'
  BY DEF GetGroup, indexVars, CallInv, TypeOK, PCs, LocalsInv, LocalsOf

(* The types hold once the group's mark is read. *)
LEMMA GroupSeenType ==
    ASSUME CallInv, NEW t \in Tasks, GroupSeen(t)
    PROVE  TypeOK'
  BY DEF GroupSeen, indexVars, CallInv, TypeOK, PCs

(* The types hold once the group is marked and the key pushed. *)
LEMMA GroupMarkType ==
    ASSUME CallInv, NEW t \in Tasks, GroupMark(t)
    PROVE  TypeOK'
<1>1. event[t].id \in EventIds
  BY IndexAssumption DEF GroupMark, Goto, CallInv, LocalsInv, LocalsOf, Distributing, Event
<1> QED
  BY <1>1 DEF GroupMark, Goto, CallInv, TypeOK, PCs, LocalsInv, LocalsOf

(* The types hold once the candidate loop ends. *)
LEMMA DistDoneType ==
    ASSUME CallInv, NEW t \in Tasks, DistDone(t)
    PROVE  TypeOK'
  BY DEF DistDone, Goto, indexVars, CallInv, TypeOK, PCs

(* The types hold once the caller takes the result. *)
LEMMA DistReturnType ==
    ASSUME CallInv, NEW t \in Tasks, DistReturn(t)
    PROVE  TypeOK'
  BY DEF DistReturn, Goto, indexVars, CallInv, TypeOK, PCs

-----------------------------------------------------------------------------
(* A step that leaves the index's structure and every writing call alone. *)
TablesSame ==
    UNCHANGED <<tracked, all_filters, entries, next_filter_id, groupFilters,
                filter_groups, nextGroup>>

SameCall(t) ==
    /\ pc'[t] = pc[t] /\ key'[t] = key[t] /\ grp'[t] = grp[t]
    /\ cur'[t] = cur[t] /\ left'[t] = left[t] /\ ids'[t] = ids[t]

Reads(t) == ~Writing(t) /\ ~Writing(t)'

StructInv == AllocInv /\ OwnerInv /\ AddInv /\ RemoveInv /\ GroupInv /\ EntryInv

(* Such a step preserves everything but the types and the locals. *)
LEMMA Frame ==
    ASSUME StructInv, TablesSame, \A t \in Tasks : SameCall(t) \/ Reads(t)
    PROVE  StructInv'
<1> USE DEF TablesSame, SameCall, Reads, StructInv
<1>0. /\ \A k : Mine(k)' = Mine(k)
      /\ \A id : FiledUnder(id)' = FiledUnder(id)
  BY DEF Mine, FiledUnder
<1>1. AllocInv'
  BY DEF AllocInv
<1>2. OwnerInv'
  BY DEF OwnerInv, Writing
<1>3. AddInv'
  BY <1>0 DEF AddInv, AddingOf, Adding, Writing
<1>4. RemoveInv'
  BY <1>0 DEF RemoveInv, RemovingOf, Removing, Writing
<1>5. GroupInv'
  BY <1>0 DEF GroupInv, Ungrouped, Writing, Serialised
<1>6. EntryInv'
  BY <1>0 DEF EntryInv, BeingAdded, BeingRemoved, Writing
<1> QED
  BY <1>1, <1>2, <1>3, <1>4, <1>5, <1>6

(* LocalsInv needs only be looked at for the task that moves. *)
OtherLocals(t) ==
    \A u \in Tasks \ {t} :
        /\ SameCall(u)
        /\ event'[u] = event[u] /\ scope'[u] = scope[u] /\ lookup'[u] = lookup[u]

(* A step of one task keeps the locals of the others as they were. *)
LEMMA LocalsFrame ==
    ASSUME LocalsInv, NEW t \in Tasks, OtherLocals(t), LocalsOf(t)',
           \A id : tracked[id] # None => tracked'[id] # None
    PROVE  LocalsInv'
<1> SUFFICES ASSUME NEW u \in Tasks, u # t
             PROVE  LocalsOf(u)'
  BY DEF LocalsInv
<1> QED
  BY DEF LocalsInv, OtherLocals, SameCall, LocalsOf, Writing, Distributing

(* A step of distribute_event need only be checked on its own locals. *)
LEMMA ReaderStep ==
    ASSUME IndexInv, NEW t \in Tasks, TypeOK', TablesSame, OtherLocals(t),
           Reads(t), LocalsOf(t)'
    PROVE  IndexInv'
<1>1. StructInv'
  BY Frame DEF IndexInv, StructInv, OtherLocals
<1>2. LocalsInv'
  BY LocalsFrame DEF IndexInv, TablesSame
<1> QED
  BY <1>1, <1>2 DEF IndexInv, StructInv

-----------------------------------------------------------------------------
(* distribute_event: its steps only read the tables. *)

Browses(t) == TypeOK' /\ TablesSame /\ OtherLocals(t) /\ Reads(t) /\ LocalsOf(t)'

(* Nothing is written when distribute_event begins. *)
LEMMA DistStartBrowses ==
    ASSUME CallInv, NEW t \in Tasks, NEW e \in Events, NEW s \in Scopes,
           DistStart(t, e, s)
    PROVE  Browses(t)
<1>1. TypeOK'
  BY DistStartType
<1>2. TablesSame
  BY DEF DistStart, Goto, indexVars, TablesSame
<1>3. OtherLocals(t)
  BY DEF DistStart, Goto, indexVars, OtherLocals, SameCall, CallInv, TypeOK
<1>4. Reads(t)
  BY DEF DistStart, Goto, indexVars, Reads, Writing, CallInv, TypeOK
<1>5. LocalsOf(t)'
  BY <1>1 DEF DistStart, Goto, indexVars, CallInv, TypeOK, LocalsInv, LocalsOf, Writing, Distributing
<1> QED
  BY <1>1, <1>2, <1>3, <1>4, <1>5 DEF Browses

(* Nothing is written when get_candidate_filters reads one table. *)
LEMMA LookupBrowses ==
    ASSUME CallInv, NEW t \in Tasks, Lookup(t)
    PROVE  Browses(t)
<1>1. TypeOK'
  BY LookupType
<1>2. TablesSame
  BY DEF Lookup, indexVars, TablesSame
<1>3. OtherLocals(t)
  BY DEF Lookup, indexVars, OtherLocals, SameCall, CallInv, TypeOK
<1>4. Reads(t)
  BY DEF Lookup, indexVars, Reads, Writing, CallInv, TypeOK
<1>5. LocalsOf(t)'
  BY <1>1 DEF Lookup, indexVars, CallInv, TypeOK, LocalsInv, LocalsOf, Writing, Distributing
<1> QED
  BY <1>1, <1>2, <1>3, <1>4, <1>5 DEF Browses

(* Nothing is written when one candidate is tested. *)
LEMMA CheckFilterBrowses ==
    ASSUME CallInv, NEW t \in Tasks, CheckFilter(t)
    PROVE  Browses(t)
<1>1. TypeOK'
  BY CheckFilterType
<1>2. TablesSame
  BY DEF CheckFilter, indexVars, TablesSame
<1>3. OtherLocals(t)
  BY DEF CheckFilter, indexVars, OtherLocals, SameCall, CallInv, TypeOK
<1>4. Reads(t)
  BY DEF CheckFilter, indexVars, Reads, Writing, CallInv, TypeOK
<1>5. LocalsOf(t)'
  BY <1>1 DEF CheckFilter, indexVars, CallInv, TypeOK, LocalsInv, LocalsOf, Writing, Distributing
<1> QED
  BY <1>1, <1>2, <1>3, <1>4, <1>5 DEF Browses

(* Nothing is written when the matching filter is marked. *)
LEMMA MarkFilterBrowses ==
    ASSUME CallInv, NEW t \in Tasks, MarkFilter(t)
    PROVE  Browses(t)
<1>1. TypeOK'
  BY MarkFilterType
<1>2. TablesSame
  BY DEF MarkFilter, TablesSame
<1>3. OtherLocals(t)
  BY DEF MarkFilter, OtherLocals, SameCall, CallInv, TypeOK
<1>4. Reads(t)
  BY DEF MarkFilter, Reads, Writing, CallInv, TypeOK
<1>5. LocalsOf(t)'
  BY <1>1 DEF MarkFilter, CallInv, TypeOK, LocalsInv, LocalsOf, Writing, Distributing
<1> QED
  BY <1>1, <1>2, <1>3, <1>4, <1>5 DEF Browses

(* Nothing is written when the group is fetched. *)
LEMMA GetGroupBrowses ==
    ASSUME CallInv, NEW t \in Tasks, GetGroup(t)
    PROVE  Browses(t)
<1>1. TypeOK'
  BY GetGroupType
<1>2. TablesSame
  BY DEF GetGroup, indexVars, TablesSame
<1>3. OtherLocals(t)
  BY DEF GetGroup, indexVars, OtherLocals, SameCall, CallInv, TypeOK
<1>4. Reads(t)
  BY DEF GetGroup, indexVars, Reads, Writing, CallInv, TypeOK
<1>5. LocalsOf(t)'
  BY <1>1 DEF GetGroup, indexVars, CallInv, TypeOK, LocalsInv, LocalsOf, Writing, Distributing
<1> QED
  BY <1>1, <1>2, <1>3, <1>4, <1>5 DEF Browses

(* Nothing is written when the group's mark is read. *)
LEMMA GroupSeenBrowses ==
    ASSUME CallInv, NEW t \in Tasks, GroupSeen(t)
    PROVE  Browses(t)
<1>1. TypeOK'
  BY GroupSeenType
<1>2. TablesSame
  BY DEF GroupSeen, indexVars, TablesSame
<1>3. OtherLocals(t)
  BY DEF GroupSeen, indexVars, OtherLocals, SameCall, CallInv, TypeOK
<1>4. Reads(t)
  BY DEF GroupSeen, indexVars, Reads, Writing, CallInv, TypeOK
<1>5. LocalsOf(t)'
  BY <1>1 DEF GroupSeen, indexVars, CallInv, TypeOK, LocalsInv, LocalsOf, Writing, Distributing
<1> QED
  BY <1>1, <1>2, <1>3, <1>4, <1>5 DEF Browses

(* Nothing is written when the group is marked and the key pushed. *)
LEMMA GroupMarkBrowses ==
    ASSUME CallInv, NEW t \in Tasks, GroupMark(t)
    PROVE  Browses(t)
<1>1. TypeOK'
  BY GroupMarkType
<1>2. TablesSame
  BY DEF GroupMark, Goto, TablesSame
<1>3. OtherLocals(t)
  BY DEF GroupMark, Goto, OtherLocals, SameCall, CallInv, TypeOK
<1>4. Reads(t)
  BY DEF GroupMark, Goto, Reads, Writing, CallInv, TypeOK
<1>5. LocalsOf(t)'
  BY <1>1 DEF GroupMark, Goto, CallInv, TypeOK, LocalsInv, LocalsOf, Writing, Distributing
<1> QED
  BY <1>1, <1>2, <1>3, <1>4, <1>5 DEF Browses

(* Nothing is written when the candidate loop ends. *)
LEMMA DistDoneBrowses ==
    ASSUME CallInv, NEW t \in Tasks, DistDone(t)
    PROVE  Browses(t)
<1>1. TypeOK'
  BY DistDoneType
<1>2. TablesSame
  BY DEF DistDone, Goto, indexVars, TablesSame
<1>3. OtherLocals(t)
  BY DEF DistDone, Goto, indexVars, OtherLocals, SameCall, CallInv, TypeOK
<1>4. Reads(t)
  BY DEF DistDone, Goto, indexVars, Reads, Writing, CallInv, TypeOK
<1>5. LocalsOf(t)'
  BY <1>1 DEF DistDone, Goto, indexVars, CallInv, TypeOK, LocalsInv, LocalsOf, Writing, Distributing
<1> QED
  BY <1>1, <1>2, <1>3, <1>4, <1>5 DEF Browses

(* Nothing is written when the caller takes the result. *)
LEMMA DistReturnBrowses ==
    ASSUME CallInv, NEW t \in Tasks, DistReturn(t)
    PROVE  Browses(t)
<1>1. TypeOK'
  BY DistReturnType
<1>2. TablesSame
  BY DEF DistReturn, Goto, indexVars, TablesSame
<1>3. OtherLocals(t)
  BY DEF DistReturn, Goto, indexVars, OtherLocals, SameCall, CallInv, TypeOK
<1>4. Reads(t)
  BY DEF DistReturn, Goto, indexVars, Reads, Writing, CallInv, TypeOK
<1>5. LocalsOf(t)'
  BY <1>1 DEF DistReturn, Goto, indexVars, CallInv, TypeOK, LocalsInv, LocalsOf, Writing, Distributing
<1> QED
  BY <1>1, <1>2, <1>3, <1>4, <1>5 DEF Browses

(* All steps of distribute_event. *)
LEMMA DistributionBrowses ==
    ASSUME CallInv, NEW t \in Tasks,
           DistStep(t) \/ DistReturn(t) \/ \E e \in Events, s \in Scopes : DistStart(t, e, s)
    PROVE  Browses(t)
  BY DistStartBrowses, LookupBrowses, CheckFilterBrowses, MarkFilterBrowses, GetGroupBrowses,
     GroupSeenBrowses, GroupMarkBrowses, DistDoneBrowses, DistReturnBrowses DEF DistStep

(* They preserve the invariant. *)
LEMMA DistributionInv ==
    ASSUME IndexInv, NEW t \in Tasks,
           DistStep(t) \/ DistReturn(t) \/ \E e \in Events, s \in Scopes : DistStart(t, e, s)
    PROVE  IndexInv'
  BY DistributionBrowses, IndexHasCalls, ReaderStep DEF Browses

-----------------------------------------------------------------------------
(* add_subscription and remove_subscription *)

(* Two writing calls never work on the same filter. *)
LEMMA CurDistinct ==
    ASSUME IndexInv, NEW t \in Tasks, NEW u \in Tasks, t # u,
           pc[t] \in {"add_group", "add_index", "rm_index"},
           pc[u] \in {"add_group", "add_index", "rm_index"}
    PROVE  cur[t] # cur[u]
<1>1. Writing(t) /\ Writing(u)
  BY DEF Writing
<1>2. tracked[cur[t]].parent = key[t] /\ tracked[cur[u]].parent = key[u]
  BY DEF IndexInv, AddInv, AddingOf, RemoveInv, RemovingOf
<1> QED
  BY <1>1, <1>2 DEF IndexInv, OwnerInv

(* A step that leaves the structure alone keeps what the other calls have. *)
LEMMA OtherCalls ==
    ASSUME IndexInv, TablesSame, NEW u \in Tasks, SameCall(u)
    PROVE  AddingOf(u)' /\ RemovingOf(u)'
<1>1. /\ \A k : Mine(k)' = Mine(k)
      /\ \A id : FiledUnder(id)' = FiledUnder(id)
  BY DEF Mine, FiledUnder, TablesSame
<1>2. AddingOf(u) /\ RemovingOf(u)
  BY DEF IndexInv, AddInv, RemoveInv
<1>3. AddingOf(u)'
  BY <1>1, <1>2 DEF AddingOf, Adding, SameCall, TablesSame
<1>4. RemovingOf(u)'
  BY <1>1, <1>2 DEF RemovingOf, Removing, SameCall, TablesSame
<1> QED
  BY <1>3, <1>4

(* The last step of a call: its subscription has its group, or nothing. *)
LEMMA CallReturn ==
    ASSUME IndexInv, NEW t \in Tasks, TypeOK', TablesSame, OtherLocals(t),
           LocalsOf(t)', pc[t] \in {"add_filter", "rm_filter"}, pc'[t] = "idle",
           filter_groups[key[t]] # None \/ Mine(key[t]) = {}
    PROVE  IndexInv'
<1>1. LocalsInv'
  BY LocalsFrame DEF IndexInv, TablesSame
<1>2. AllocInv'
  BY DEF IndexInv, AllocInv, TablesSame
<1>3. OwnerInv'
  BY DEF IndexInv, OwnerInv, Writing, OtherLocals, SameCall, TablesSame
<1>4. AddingOf(t)' /\ RemovingOf(t)'
  BY DEF AddingOf, Adding, RemovingOf, Removing
<1>5. AddInv' /\ RemoveInv'
  BY <1>4, OtherCalls DEF AddInv, RemoveInv, OtherLocals
<1>6. GroupInv'
  <2>1. Ungrouped' = Ungrouped
    BY DEF Ungrouped, OtherLocals, SameCall
  <2>2. \A k : Mine(k)' = Mine(k)
    BY DEF Mine, TablesSame
  <2>3. ASSUME NEW k \in Keys, k # key[t], Serialised(k)'
        PROVE  Serialised(k)
    BY <2>3 DEF Serialised, Writing, OtherLocals, SameCall
  <2> QED
    BY <2>1, <2>2, <2>3 DEF IndexInv, GroupInv, TablesSame
<1>7. EntryInv'
  <2>1. \A id : BeingAdded(id)' = BeingAdded(id) /\ BeingRemoved(id)' = BeingRemoved(id)
    BY DEF BeingAdded, BeingRemoved, OtherLocals, SameCall
  <2>2. \A id : FiledUnder(id)' = FiledUnder(id)
    BY DEF FiledUnder, TablesSame
  <2> QED
    BY <2>1, <2>2 DEF IndexInv, EntryInv, TablesSame
<1> QED
  BY <1>1, <1>2, <1>3, <1>5, <1>6, <1>7 DEF IndexInv

(* add_subscription returns: all its filters are grouped and filed. *)
LEMMA AddReturnInv ==
    ASSUME IndexInv, NEW t \in Tasks, AddReturn(t)
    PROVE  IndexInv'
<1>1. TypeOK'
  BY AddReturnType, IndexHasCalls
<1>2. TablesSame
  BY DEF AddReturn, indexVars, TablesSame
<1>3. OtherLocals(t)
  BY DEF AddReturn, Goto, OtherLocals, SameCall, IndexInv, TypeOK
<1>4. pc[t] = "add_filter" /\ pc'[t] = "idle" /\ ids'[t] = ids[t]
  BY DEF AddReturn, Goto, IndexInv, TypeOK
<1>5. ids[t] = {} /\ filter_groups[key[t]] # None
  BY <1>4 DEF IndexInv, AddInv, AddingOf, Adding
<1>6. LocalsOf(t)'
  BY <1>4, <1>5 DEF AddReturn, IndexInv, LocalsInv, LocalsOf, Writing, Distributing
<1> QED
  BY <1>1, <1>2, <1>3, <1>4, <1>5, <1>6, CallReturn

(* remove_subscription returns: no filter of the subscription is left. *)
LEMMA RemoveReturnInv ==
    ASSUME IndexInv, NEW t \in Tasks, RemoveReturn(t)
    PROVE  IndexInv'
<1>1. TypeOK'
  BY RemoveReturnType, IndexHasCalls
<1>2. TablesSame
  BY DEF RemoveReturn, indexVars, TablesSame
<1>3. OtherLocals(t)
  BY DEF RemoveReturn, Goto, OtherLocals, SameCall, IndexInv, TypeOK
<1>4. pc[t] = "rm_filter" /\ pc'[t] = "idle" /\ ids[t] = {} /\ ids'[t] = {}
  BY DEF RemoveReturn, Goto, IndexInv, TypeOK
<1>5. Mine(key[t]) = {}
  BY <1>4 DEF IndexInv, RemoveInv, RemovingOf
<1>6. LocalsOf(t)'
  BY <1>4 DEF RemoveReturn, IndexInv, LocalsInv, LocalsOf, Writing, Distributing
<1> QED
  BY <1>1, <1>2, <1>3, <1>4, <1>5, <1>6, CallReturn

(* add_subscription begins, on the live group or on a new one. *)
LEMMA AddStartInv ==
    ASSUME IndexInv, NEW t \in Tasks, NEW k \in Keys, NEW fs \in FilterLists,
           Serialised(k), AddStart(t, k, fs)
    PROVE  IndexInv'
<1>1. TypeOK'
  BY AddStartType, IndexHasCalls
<1>2. /\ pc[t] = "idle" /\ pc'[t] = "add_filter" /\ key'[t] = k
      /\ ids'[t] = ids[t] /\ ids[t] = {} /\ lookup'[t] = lookup[t]
  BY DEF AddStart, Goto, IndexInv, TypeOK, LocalsInv, LocalsOf
<1>3. OtherLocals(t)
  BY DEF AddStart, Goto, OtherLocals, SameCall, IndexInv, TypeOK
<1>4. UNCHANGED <<tracked, all_filters, entries, next_filter_id, groupFilters>>
  BY DEF AddStart
<1>5. LocalsInv'
  <2>1. LocalsOf(t)'
    BY <1>2 DEF IndexInv, LocalsInv, LocalsOf, Writing, Distributing
  <2> QED
    BY <1>3, <1>4, <2>1, LocalsFrame DEF IndexInv
<1>6. grp'[t] = filter_groups'[k] /\ filter_groups'[k] # None
  BY IndexAssumption DEF AddStart, IndexInv, TypeOK, GroupIds
<1>7. /\ \A l \in Keys : l # k => filter_groups'[l] = filter_groups[l]
      /\ \/ filter_groups'[k] = filter_groups[k] /\ nextGroup' = nextGroup
         \/ /\ filter_groups[k] = None /\ filter_groups'[k] = nextGroup
            /\ nextGroup' = nextGroup + 1 /\ nextGroup \in GroupIds
  BY IndexAssumption DEF AddStart, IndexInv, TypeOK, GroupIds
<1>8. nextGroup \in Nat /\ GroupIds \subseteq Nat
  BY IndexAssumption DEF IndexInv, TypeOK, GroupIds
<1>9. \A u \in Tasks : Writing(u) => u # t /\ key[u] \in Keys /\ key[u] # k
  BY <1>2 DEF Serialised, Writing, IndexInv, LocalsInv, LocalsOf
<1>10. /\ \A l : Mine(l)' = Mine(l)
       /\ \A id : FiledUnder(id)' = FiledUnder(id)
  BY <1>4 DEF Mine, FiledUnder
<1>11. AllocInv'
  <2>1. AllocInv /\ filter_groups \in [Keys -> GroupIds \cup {None}]
    BY DEF IndexInv, TypeOK
  <2>2. \A g \in GroupIds : g >= nextGroup' => groupFilters'[g] = {}
    BY <1>4, <1>7, <1>8, <2>1 DEF AllocInv
  <2>3. ASSUME NEW l \in Keys, filter_groups'[l] # None
        PROVE  filter_groups'[l] < nextGroup'
    <3>1. CASE filter_groups'[l] = filter_groups[l]
      <4>1. filter_groups[l] \in Nat /\ filter_groups[l] < nextGroup
        BY <1>8, <2>1, <2>3, <3>1 DEF AllocInv
      <4>2. nextGroup <= nextGroup'
        BY <1>7, <1>8
      <4> QED
        BY <1>7, <1>8, <3>1, <4>1, <4>2
    <3>2. CASE filter_groups'[l] # filter_groups[l]
      BY <1>7, <1>8, <3>2
    <3> QED
      BY <3>1, <3>2
  <2> QED
    BY <1>4, <2>1, <2>2, <2>3 DEF AllocInv
<1>12. OwnerInv'
  <2>1. \A l \in Keys : l # k /\ filter_groups[l] # None => filter_groups'[l] # filter_groups'[k]
    BY <1>7, <1>8 DEF IndexInv, OwnerInv, AllocInv, TypeOK
  <2>2. \A l, m \in Keys :
          filter_groups'[l] # None /\ filter_groups'[l] = filter_groups'[m] => l = m
    BY <1>6, <1>7, <2>1 DEF IndexInv, OwnerInv
  <2>3. \A u \in Tasks : u # t => Writing(u)' = Writing(u) /\ key'[u] = key[u]
    BY <1>3 DEF OtherLocals, SameCall, Writing
  <2>4. \A u, v \in Tasks : Writing(u)' /\ Writing(v)' /\ key'[u] = key'[v] => u = v
    BY <1>2, <1>9, <2>3 DEF IndexInv, OwnerInv
  <2> QED
    BY <2>2, <2>4 DEF OwnerInv
<1>13. AddInv'
  <2>1. AddingOf(t)'
    BY <1>2, <1>6 DEF AddingOf, Adding
  <2>2. ASSUME NEW u \in Tasks, u # t PROVE AddingOf(u)'
    <3>1. AddingOf(u) /\ SameCall(u)
      BY <1>3, <2>2 DEF IndexInv, AddInv, OtherLocals
    <3>2. Adding(u) => key[u] \in Keys /\ key[u] # k
      BY <1>9 DEF Adding, Writing
    <3> QED
      BY <1>4, <1>7, <1>10, <3>1, <3>2 DEF AddingOf, Adding, SameCall
  <2> QED
    BY <2>1, <2>2 DEF AddInv
<1>14. RemoveInv'
  <2>1. RemovingOf(t)'
    BY <1>2 DEF RemovingOf, Removing
  <2>2. ASSUME NEW u \in Tasks, u # t PROVE RemovingOf(u)'
    <3>1. RemovingOf(u) /\ SameCall(u)
      BY <1>3, <2>2 DEF IndexInv, RemoveInv, OtherLocals
    <3>2. Removing(u) => key[u] \in Keys /\ key[u] # k
      BY <1>9 DEF Removing, Writing
    <3>3. pc[u] = "rm_snapshot" =>
             /\ grp[u] < nextGroup'
             /\ \A l \in Keys : filter_groups'[l] # grp[u]
      <4> SUFFICES ASSUME pc[u] = "rm_snapshot"
                   PROVE  grp[u] < nextGroup' /\ \A l \in Keys : filter_groups'[l] # grp[u]
        OBVIOUS
      <4>1. /\ grp[u] \in Nat /\ grp[u] < nextGroup
            /\ \A l \in Keys : filter_groups[l] # grp[u]
        BY <1>8, <3>1 DEF RemovingOf
      <4>2. grp[u] < nextGroup'
        BY <1>7, <1>8, <4>1
      <4>3. filter_groups'[k] # grp[u]
        BY <1>7, <1>8, <4>1
      <4> QED
        BY <1>7, <4>1, <4>2, <4>3
    <3> QED
      BY <1>4, <1>7, <1>10, <3>1, <3>2, <3>3 DEF RemovingOf, Removing, SameCall
  <2> QED
    BY <2>1, <2>2 DEF RemoveInv
<1>15. GroupInv'
  <2>1. Ungrouped' = Ungrouped
    BY <1>2, <1>3 DEF Ungrouped, OtherLocals, SameCall
  <2>2. ~Serialised(k)'
    BY <1>2 DEF Serialised, Writing
  <2>3. ASSUME NEW l \in Keys, Serialised(l)' PROVE Serialised(l)
    BY <1>2, <1>3, <2>3 DEF Serialised, Writing, OtherLocals, SameCall
  <2>4. groupFilters'[filter_groups'[k]] = Mine(k)' \ Ungrouped'
    <3>1. CASE filter_groups[k] # None /\ filter_groups'[k] = filter_groups[k]
      BY <1>4, <1>10, <2>1, <3>1 DEF IndexInv, GroupInv
    <3>2. CASE filter_groups[k] = None /\ filter_groups'[k] = nextGroup /\ nextGroup \in GroupIds
      <4>1. Mine(k) = {}
        BY <3>2 DEF IndexInv, GroupInv
      <4>2. groupFilters[nextGroup] = {}
        BY <1>8, <3>2 DEF IndexInv, AllocInv
      <4> QED
        BY <1>4, <1>10, <3>2, <4>1, <4>2
    <3> QED
      BY <1>6, <1>7, <3>1, <3>2
  <2>5. ASSUME NEW l \in Keys, l # k
        PROVE  /\ filter_groups'[l] # None => groupFilters'[filter_groups'[l]] = Mine(l)' \ Ungrouped'
               /\ filter_groups'[l] = None /\ Serialised(l)' => Mine(l)' = {}
    BY <1>4, <1>7, <1>10, <2>1, <2>3, <2>5 DEF IndexInv, GroupInv
  <2> QED
    BY <2>2, <2>4, <2>5 DEF GroupInv
<1>16. EntryInv'
  <2>1. \A id : BeingAdded(id)' = BeingAdded(id) /\ BeingRemoved(id)' = BeingRemoved(id)
    BY <1>2, <1>3 DEF BeingAdded, BeingRemoved, OtherLocals, SameCall
  <2> QED
    BY <1>4, <1>10, <2>1 DEF IndexInv, EntryInv
<1> QED
  BY <1>1, <1>5, <1>11, <1>12, <1>13, <1>14, <1>15, <1>16 DEF IndexInv

(* One filter gets its id and enters all_filters. *)
LEMMA AddFilterInv ==
    ASSUME IndexInv, NEW t \in Tasks, AddFilter(t)
    PROVE  IndexInv'
<1> PICK new : new = next_filter_id
  OBVIOUS
<1> PICK k : k = key[t]
  OBVIOUS
<1>1. TypeOK'
  BY AddFilterType, IndexHasCalls
<1>2. /\ pc[t] = "add_filter" /\ pc'[t] = "add_group" /\ key'[t] = key[t]
      /\ grp'[t] = grp[t] /\ cur'[t] = new /\ ids'[t] = ids[t]
      /\ lookup'[t] = lookup[t]
  BY DEF AddFilter, Goto, IndexInv, TypeOK
<1>3. OtherLocals(t)
  BY DEF AddFilter, Goto, OtherLocals, SameCall, IndexInv, TypeOK
<1>4. UNCHANGED <<entries, groupFilters, filter_groups, nextGroup>>
  BY DEF AddFilter
<1>5. new \in FilterIds /\ key[t] \in Keys /\ Writing(t)
  BY <1>2, IndexAssumption
  DEF AddFilter, IndexInv, TypeOK, FilterIds, LocalsInv, LocalsOf, Writing
<1>6. /\ all_filters' = all_filters \cup {new}
      /\ tracked'[new] # None /\ tracked'[new].parent = key[t]
      /\ \A i : i # new => tracked'[i] = tracked[i]
  <2>1. /\ all_filters' = all_filters \cup {new}
        /\ tracked' = [tracked EXCEPT ![new] = [filter |-> Head(todo[t]), parent |-> key[t]]]
    BY DEF AddFilter
  <2>2. [filter |-> Head(todo[t]), parent |-> key[t]] \in [filter : Filter, parent : Keys]
    BY <1>5 DEF AddFilter, IndexInv, TypeOK
  <2>3. tracked \in [FilterIds -> [filter : Filter, parent : Keys] \cup {None}]
    BY DEF IndexInv, TypeOK
  <2> QED
    BY <1>5, <2>1, <2>2, <2>3, IndexAssumption
<1>7. tracked[new] = None /\ new \notin all_filters
  BY <1>5, IndexAssumption DEF IndexInv, AllocInv, FilterIds
<1>8. /\ Mine(k)' = Mine(k) \cup {new}
      /\ \A l : l # k => Mine(l)' = Mine(l)
      /\ \A l : new \notin Mine(l)
  BY <1>6, <1>7 DEF Mine
<1>9. \A id : FiledUnder(id)' = FiledUnder(id)
  BY <1>4 DEF FiledUnder
<1>10. \A u \in Tasks : u # t /\ Writing(u) => key[u] # key[t]
  BY <1>5 DEF IndexInv, OwnerInv
<1>11. \A u \in Tasks : pc[u] \in {"add_group", "add_index", "rm_index"} => cur[u] # new
  BY <1>7 DEF IndexInv, AddInv, AddingOf, RemoveInv, RemovingOf
<1>12. LocalsInv'
  <2>1. LocalsOf(t)'
    BY <1>2, <1>5 DEF LocalsOf, Writing, Distributing, IndexInv, LocalsInv
  <2> QED
    BY <1>3, <1>6, <1>7, <2>1, LocalsFrame DEF IndexInv
<1>13. AllocInv'
  <2>1. next_filter_id' = new + 1 /\ FilterIds \subseteq Nat
    BY DEF AddFilter, FilterIds
  <2> QED
    BY <1>4, <1>5, <1>6, <2>1 DEF IndexInv, AllocInv
<1>14. OwnerInv'
  BY <1>2, <1>3, <1>4 DEF IndexInv, OwnerInv, Writing, OtherLocals, SameCall
<1>15. FiledUnder(new) = {}
  <2>1. ~BeingRemoved(new)
    BY <1>11 DEF BeingRemoved
  <2> QED
    BY <1>5, <1>7, <2>1 DEF IndexInv, EntryInv
<1>16. AddInv'
  <2>1. AddingOf(t)'
    <3>1. AddingOf(t)
      BY DEF IndexInv, AddInv
    <3> QED
      BY <1>2, <1>4, <1>6, <1>9, <1>15, <3>1 DEF AddingOf, Adding
  <2>2. ASSUME NEW u \in Tasks, u # t PROVE AddingOf(u)'
    <3>1. AddingOf(u) /\ SameCall(u)
      BY <1>3, <2>2 DEF IndexInv, AddInv, OtherLocals
    <3>2. pc[u] \in {"add_group", "add_index"} => tracked'[cur[u]] = tracked[cur[u]]
      BY <1>6, <1>11
    <3> QED
      BY <1>4, <1>6, <1>9, <3>1, <3>2 DEF AddingOf, Adding, SameCall
  <2> QED
    BY <2>1, <2>2 DEF AddInv
<1>17. RemoveInv'
  <2>1. RemovingOf(t)'
    BY <1>2 DEF RemovingOf, Removing
  <2>2. ASSUME NEW u \in Tasks, u # t PROVE RemovingOf(u)'
    <3>1. RemovingOf(u) /\ SameCall(u)
      BY <1>3, <2>2 DEF IndexInv, RemoveInv, OtherLocals
    <3> PICK l : l = key[u]
      OBVIOUS
    <3>2. Removing(u) => Mine(l)' = Mine(l)
      BY <1>8, <1>10, <2>2 DEF Removing, Writing
    <3>3. pc[u] = "rm_index" => tracked'[cur[u]] = tracked[cur[u]] /\ cur[u] # new
      BY <1>6, <1>11
    <3> QED
      BY <1>4, <1>6, <1>9, <3>1, <3>2, <3>3 DEF RemovingOf, Removing, SameCall
  <2> QED
    BY <2>1, <2>2 DEF RemoveInv
<1>18. GroupInv'
  <2>1. Ungrouped' = Ungrouped \cup {new}
    BY <1>2, <1>3 DEF Ungrouped, OtherLocals, SameCall
  <2>2. \A l \in Keys : Mine(l)' \ Ungrouped' = Mine(l) \ Ungrouped
    BY <1>8, <2>1
  <2>3. ASSUME NEW l \in Keys, Serialised(l)' PROVE Serialised(l) /\ l # key[t]
    BY <1>2, <1>3, <2>3 DEF Serialised, Writing, OtherLocals, SameCall
  <2> QED
    BY <1>4, <1>8, <2>2, <2>3 DEF IndexInv, GroupInv
<1>19. EntryInv'
  <2>1. \A id : id # new => BeingAdded(id)' = BeingAdded(id)
    BY <1>2, <1>3 DEF BeingAdded, OtherLocals, SameCall
  <2>2. BeingAdded(new)'
    BY <1>2 DEF BeingAdded
  <2>3. \A id : BeingRemoved(id)' = BeingRemoved(id)
    BY <1>2, <1>3 DEF BeingRemoved, OtherLocals, SameCall
  <2> QED
    BY <1>6, <1>9, <2>1, <2>2, <2>3 DEF IndexInv, EntryInv
<1> QED
  BY <1>1, <1>12, <1>13, <1>14, <1>16, <1>17, <1>18, <1>19 DEF IndexInv

(* The filter enters its group; its buckets are still to be written. *)
LEMMA AddToGroupInv ==
    ASSUME IndexInv, NEW t \in Tasks, AddToGroup(t)
    PROVE  IndexInv'
<1> PICK id : id = cur[t]
  OBVIOUS
<1> PICK g : g = grp[t]
  OBVIOUS
<1>1. TypeOK'
  BY AddToGroupType, IndexHasCalls
<1>2. /\ pc[t] = "add_group" /\ pc'[t] = "add_index" /\ key'[t] = key[t]
      /\ grp'[t] = g /\ cur'[t] = id /\ ids'[t] = ids[t] /\ lookup'[t] = lookup[t]
      /\ left'[t] = FilterBuckets(tracked[id].filter)
  BY DEF AddToGroup, Goto, IndexInv, TypeOK
<1>3. OtherLocals(t)
  BY DEF AddToGroup, Goto, OtherLocals, SameCall, IndexInv, TypeOK
<1>4. UNCHANGED <<tracked, all_filters, entries, next_filter_id, filter_groups, nextGroup>>
  BY DEF AddToGroup
<1>5. /\ key[t] \in Keys /\ g = filter_groups[key[t]] /\ g # None /\ ids[t] = {}
      /\ id \in all_filters /\ tracked[id].parent = key[t] /\ FiledUnder(id) = {}
  BY <1>2 DEF IndexInv, LocalsInv, LocalsOf, Writing, AddInv, AddingOf, Adding
<1>6. /\ g \in GroupIds /\ groupFilters'[g] = groupFilters[g] \cup {id}
      /\ \A h \in GroupIds : h # g => groupFilters'[h] = groupFilters[h]
  BY <1>5 DEF AddToGroup, IndexInv, TypeOK
<1>7. \A l \in Keys : filter_groups[l] = g => l = key[t]
  BY <1>5 DEF IndexInv, OwnerInv
<1>8. /\ \A l : Mine(l)' = Mine(l)
      /\ \A i : FiledUnder(i)' = FiledUnder(i)
  BY <1>4 DEF Mine, FiledUnder
<1>9. LocalsInv'
  <2>1. LocalsOf(t)'
    BY <1>2, <1>5 DEF LocalsOf, Writing, Distributing, IndexInv, LocalsInv
  <2> QED
    BY <1>3, <1>4, <2>1, LocalsFrame DEF IndexInv
<1>10. AllocInv'
  <2>1. g < nextGroup /\ g \in Nat /\ nextGroup \in Nat /\ GroupIds \subseteq Nat
    BY <1>5, <1>6, IndexAssumption DEF IndexInv, AllocInv, TypeOK, GroupIds
  <2>2. ASSUME NEW h \in GroupIds, h >= nextGroup PROVE groupFilters'[h] = {}
    <3>1. h # g
      BY <2>1, <2>2
    <3> QED
      BY <1>6, <2>2, <3>1 DEF IndexInv, AllocInv
  <2> QED
    BY <1>4, <2>2 DEF IndexInv, AllocInv
<1>11. OwnerInv'
  BY <1>2, <1>3, <1>4 DEF IndexInv, OwnerInv, Writing, OtherLocals, SameCall
<1>12. AddInv'
  <2>1. AddingOf(t)'
    BY <1>2, <1>4, <1>5, <1>8 DEF AddingOf, Adding
  <2>2. ASSUME NEW u \in Tasks, u # t PROVE AddingOf(u)'
    <3>1. AddingOf(u) /\ SameCall(u)
      BY <1>3, <2>2 DEF IndexInv, AddInv, OtherLocals
    <3> QED
      BY <1>4, <1>8, <3>1 DEF AddingOf, Adding, SameCall
  <2> QED
    BY <2>1, <2>2 DEF AddInv
<1>13. RemoveInv'
  <2>1. RemovingOf(t)'
    BY <1>2 DEF RemovingOf, Removing
  <2>2. ASSUME NEW u \in Tasks, u # t PROVE RemovingOf(u)'
    <3>1. RemovingOf(u) /\ SameCall(u)
      BY <1>3, <2>2 DEF IndexInv, RemoveInv, OtherLocals
    <3>2. pc[u] = "rm_snapshot" => groupFilters'[grp[u]] = groupFilters[grp[u]]
      BY <1>5, <1>6, <3>1 DEF RemovingOf
    <3> QED
      BY <1>4, <1>8, <3>1, <3>2 DEF RemovingOf, Removing, SameCall
  <2> QED
    BY <2>1, <2>2 DEF RemoveInv
<1>14. GroupInv'
  <2>1. Ungrouped = Ungrouped' \cup {id}
    BY <1>2, <1>3 DEF Ungrouped, OtherLocals, SameCall
  <2>2. id \notin Ungrouped'
    <3>1. \A u \in Tasks : u # t /\ pc[u] = "add_group" => cur[u] # id
      BY <1>2, CurDistinct
    <3> QED
      BY <1>2, <1>3, <3>1 DEF Ungrouped, OtherLocals, SameCall
  <2>3. ASSUME NEW l \in Keys, Serialised(l)' PROVE Serialised(l)
    BY <1>2, <1>3, <2>3 DEF Serialised, Writing, OtherLocals, SameCall
  <2>4. id \in Mine(key[t]) /\ \A l \in Keys : l # key[t] => id \notin Mine(l)
    BY <1>5 DEF Mine
  <2>5. ASSUME NEW l \in Keys, filter_groups[l] # None
        PROVE  groupFilters'[filter_groups[l]] = Mine(l) \ Ungrouped'
    <3>1. filter_groups[l] \in GroupIds /\ groupFilters[filter_groups[l]] = Mine(l) \ Ungrouped
      BY <2>5 DEF IndexInv, TypeOK, GroupInv
    <3>2. CASE l = key[t]
      BY <1>5, <1>6, <2>1, <2>2, <2>4, <3>1, <3>2
    <3>3. CASE l # key[t]
      BY <1>6, <1>7, <2>1, <2>4, <3>1, <3>3
    <3> QED
      BY <3>2, <3>3
  <2> QED
    BY <1>4, <1>8, <2>3, <2>5 DEF IndexInv, GroupInv
<1>15. EntryInv'
  <2>1. \A i : BeingAdded(i)' = BeingAdded(i) /\ BeingRemoved(i)' = BeingRemoved(i)
    BY <1>2, <1>3 DEF BeingAdded, BeingRemoved, OtherLocals, SameCall
  <2> QED
    BY <1>4, <1>8, <2>1 DEF IndexInv, EntryInv
<1> QED
  BY <1>1, <1>9, <1>10, <1>11, <1>12, <1>13, <1>14, <1>15 DEF IndexInv

(* A hold of a table's lock covers part of the buckets that are left. *)
LEMMA LockHoldSubset ==
    ASSUME NEW f, NEW rest, NEW chunk \in LockHold(f, rest)
    PROVE  chunk \subseteq rest
  BY DEF LockHold

(***************************************************************************)
(* Steps that write or erase entries of one filter id, held by t, and      *)
(* leave everything else of the index alone.                               *)
(***************************************************************************)
LEMMA EntryStep ==
    ASSUME IndexInv, NEW t \in Tasks, NEW id \in FilterIds, id = cur[t],
           TypeOK', OtherLocals(t), LocalsOf(t)', AddingOf(t)', RemovingOf(t)',
           UNCHANGED <<tracked, all_filters, next_filter_id, groupFilters,
                       filter_groups, nextGroup>>,
           pc[t] \in {"add_index", "rm_index"}, key'[t] = key[t],
           \/ pc'[t] = pc[t] /\ cur'[t] = cur[t]
           \/ pc'[t] = (IF pc[t] = "add_index" THEN "add_filter" ELSE "rm_filter"),
           \A i : i # id => FiledUnder(i)' = FiledUnder(i),
           pc'[t] = "add_filter" => FiledUnder(id)' = FilterBuckets(tracked[id].filter),
           pc'[t] = "rm_filter" => FiledUnder(id)' = {}
    PROVE  IndexInv'
<1>1. LocalsInv'
  BY LocalsFrame DEF IndexInv
<1>2. AllocInv'
  BY DEF IndexInv, AllocInv
<1>3. Writing(t) /\ Writing(t)'
  BY DEF Writing
<1>4. OwnerInv'
  BY <1>3 DEF IndexInv, OwnerInv, Writing, OtherLocals, SameCall
<1>5. \A l : Mine(l)' = Mine(l)
  BY DEF Mine
<1>6. ASSUME NEW u \in Tasks, u # t PROVE AddingOf(u)' /\ RemovingOf(u)'
  <2>1. AddingOf(u) /\ RemovingOf(u) /\ SameCall(u)
    BY <1>6 DEF IndexInv, AddInv, RemoveInv, OtherLocals
  <2> PICK i : i = cur[u]
    OBVIOUS
  <2>2. pc[u] \in {"add_group", "add_index", "rm_index"} => FiledUnder(i)' = FiledUnder(i)
    BY <1>6, CurDistinct
  <2>3. AddingOf(u)'
    BY <2>1, <2>2 DEF AddingOf, Adding, SameCall
  <2>4. RemovingOf(u)'
    BY <1>5, <2>1, <2>2 DEF RemovingOf, Removing, SameCall
  <2> QED
    BY <2>3, <2>4
<1>7. AddInv' /\ RemoveInv'
  BY <1>6 DEF AddInv, RemoveInv
<1>8. GroupInv'
  <2>1. Ungrouped' = Ungrouped
    BY DEF Ungrouped, OtherLocals, SameCall
  <2>2. ASSUME NEW l \in Keys, Serialised(l)' PROVE Serialised(l)
    BY <1>3, <2>2 DEF Serialised, Writing, OtherLocals, SameCall
  <2> QED
    BY <1>5, <2>1, <2>2 DEF IndexInv, GroupInv
<1>9. EntryInv'
  <2> SUFFICES ASSUME NEW i \in FilterIds
               PROVE  /\ i \in all_filters /\ ~BeingAdded(i)' =>
                            FiledUnder(i)' = FilterBuckets(tracked[i].filter)
                      /\ i \notin all_filters /\ ~BeingRemoved(i)' => FiledUnder(i)' = {}
    BY DEF EntryInv
  <2>1. CASE i # id
    <3>1. (BeingAdded(i) => BeingAdded(i)') /\ (BeingRemoved(i) => BeingRemoved(i)')
      BY <2>1 DEF BeingAdded, BeingRemoved, OtherLocals, SameCall
    <3> QED
      BY <2>1, <3>1 DEF IndexInv, EntryInv
  <2>2. CASE i = id
    <3>1. CASE pc[t] = "add_index"
      <4>1. id \in all_filters
        BY <3>1 DEF IndexInv, AddInv, AddingOf
      <4>2. pc'[t] = "add_index" => BeingAdded(i)'
        BY <2>2, <3>1 DEF BeingAdded
      <4> QED
        BY <2>2, <3>1, <4>1, <4>2
    <3>2. CASE pc[t] = "rm_index"
      <4>1. id \notin all_filters
        BY <3>2 DEF IndexInv, RemoveInv, RemovingOf
      <4>2. pc'[t] = "rm_index" => BeingRemoved(i)'
        BY <2>2, <3>2 DEF BeingRemoved
      <4> QED
        BY <2>2, <3>2, <4>1, <4>2
    <3> QED
      BY <3>1, <3>2
  <2> QED
    BY <2>1, <2>2
<1> QED
  BY <1>1, <1>2, <1>4, <1>7, <1>8, <1>9 DEF IndexInv

(* add_filter_to_indexes files cur under the buckets of one lock hold. *)
LEMMA AddToIndexInv ==
    ASSUME IndexInv, NEW t \in Tasks, AddToIndex(t)
    PROVE  IndexInv'
<1> PICK id : id = cur[t]
  OBVIOUS
<1>1. TypeOK'
  BY AddToIndexType, IndexHasCalls
<1>2. PICK chunk \in LockHold(tracked[id].filter, left[t]) :
         /\ entries' = entries \cup (chunk \X {id})
         /\ left' = [left EXCEPT ![t] = left[t] \ chunk]
         /\ pc' = [pc EXCEPT ![t] = IF left[t] \ chunk = {} THEN "add_filter" ELSE "add_index"]
         /\ cur' = [cur EXCEPT ![t] = IF left[t] \ chunk = {} THEN None ELSE cur[t]]
  BY DEF AddToIndex
<1>3. /\ pc[t] = "add_index"
      /\ UNCHANGED <<tracked, all_filters, next_filter_id, groupFilters,
                     filter_groups, nextGroup, key, grp, ids, event, scope, lookup>>
  BY DEF AddToIndex
<1>4. OtherLocals(t)
  BY <1>2, <1>3 DEF OtherLocals, SameCall, IndexInv, TypeOK
<1>5. /\ left'[t] = left[t] \ chunk
      /\ left'[t] = {} => pc'[t] = "add_filter"
      /\ left'[t] # {} => pc'[t] = "add_index" /\ cur'[t] = id
  BY <1>2 DEF IndexInv, TypeOK
<1>6. /\ filter_groups[key[t]] # None /\ grp[t] = filter_groups[key[t]] /\ ids[t] = {}
      /\ id \in all_filters /\ tracked[id].parent = key[t]
      /\ left[t] \subseteq FilterBuckets(tracked[id].filter)
      /\ FiledUnder(id) = FilterBuckets(tracked[id].filter) \ left[t]
  BY <1>3 DEF IndexInv, AddInv, AddingOf, Adding
<1>7. chunk \subseteq left[t] /\ left[t] \subseteq Buckets /\ id \in FilterIds
  BY <1>6, LockHoldSubset DEF IndexInv, TypeOK
<1>8. /\ FiledUnder(id)' = FiledUnder(id) \cup chunk
      /\ \A i : i # id => FiledUnder(i)' = FiledUnder(i)
  BY <1>2, <1>7 DEF FiledUnder
<1>9. FiledUnder(id)' = FilterBuckets(tracked[id].filter) \ left'[t]
  BY <1>5, <1>6, <1>7, <1>8
<1>10. LocalsOf(t)'
  <2>1. LocalsOf(t)
    BY DEF IndexInv, LocalsInv
  <2> QED
    BY <1>3, <1>5, <2>1 DEF LocalsOf, Writing, Distributing
<1>11. AddingOf(t)'
  BY <1>3, <1>5, <1>6, <1>9 DEF AddingOf, Adding
<1>12. RemovingOf(t)'
  BY <1>5 DEF RemovingOf, Removing
<1>13. /\ (pc'[t] = pc[t] /\ cur'[t] = cur[t]) \/ pc'[t] = "add_filter"
       /\ pc'[t] = "add_filter" => FiledUnder(id)' = FilterBuckets(tracked[id].filter)
       /\ pc'[t] # "rm_filter"
  BY <1>3, <1>5, <1>9
<1> QED
  BY <1>1, <1>3, <1>4, <1>7, <1>8, <1>10, <1>11, <1>12, <1>13, EntryStep

(* remove_filter_from_indexes unfiles cur from those of one lock hold. *)
LEMMA RemoveFromIndexInv ==
    ASSUME IndexInv, NEW t \in Tasks, RemoveFromIndex(t)
    PROVE  IndexInv'
<1> PICK id : id = cur[t]
  OBVIOUS
<1> PICK k : k = key[t]
  OBVIOUS
<1>1. TypeOK'
  BY RemoveFromIndexType, IndexHasCalls
<1>2. PICK chunk \in LockHold(tracked[id].filter, left[t]) :
         /\ entries' = entries \ (chunk \X {id})
         /\ left' = [left EXCEPT ![t] = left[t] \ chunk]
         /\ pc' = [pc EXCEPT ![t] = IF left[t] \ chunk = {} THEN "rm_filter" ELSE "rm_index"]
         /\ cur' = [cur EXCEPT ![t] = IF left[t] \ chunk = {} THEN None ELSE cur[t]]
  BY DEF RemoveFromIndex
<1>3. /\ pc[t] = "rm_index"
      /\ UNCHANGED <<tracked, all_filters, next_filter_id, groupFilters,
                     filter_groups, nextGroup, key, grp, ids, event, scope, lookup>>
  BY DEF RemoveFromIndex
<1>4. OtherLocals(t)
  BY <1>2, <1>3 DEF OtherLocals, SameCall, IndexInv, TypeOK
<1>5. /\ left'[t] = left[t] \ chunk
      /\ left'[t] = {} => pc'[t] = "rm_filter"
      /\ left'[t] # {} => pc'[t] = "rm_index" /\ cur'[t] = id
  BY <1>2 DEF IndexInv, TypeOK
<1>6. /\ filter_groups[k] = None /\ ids[t] = Mine(k)
      /\ id \in FilterIds \ all_filters /\ tracked[id] # None /\ tracked[id].parent = k
      /\ FiledUnder(id) = left[t]
  BY <1>3 DEF IndexInv, RemoveInv, RemovingOf, Removing
<1>7. chunk \subseteq left[t] /\ left[t] \subseteq Buckets
  BY LockHoldSubset DEF IndexInv, TypeOK
<1>8. /\ FiledUnder(id)' = FiledUnder(id) \ chunk
      /\ \A i : i # id => FiledUnder(i)' = FiledUnder(i)
  BY <1>2, <1>7 DEF FiledUnder
<1>9. FiledUnder(id)' = left'[t]
  BY <1>5, <1>6, <1>8
<1>10. LocalsOf(t)'
  <2>1. LocalsOf(t)
    BY DEF IndexInv, LocalsInv
  <2> QED
    BY <1>3, <1>5, <2>1 DEF LocalsOf, Writing, Distributing
<1>11. AddingOf(t)'
  BY <1>5 DEF AddingOf, Adding
<1>12. RemovingOf(t)'
  <2>1. Mine(k)' = Mine(k)
    BY <1>3 DEF Mine
  <2> QED
    BY <1>3, <1>5, <1>6, <1>9, <2>1 DEF RemovingOf, Removing
<1>13. /\ (pc'[t] = pc[t] /\ cur'[t] = cur[t]) \/ pc'[t] = "rm_filter"
       /\ pc'[t] = "rm_filter" => FiledUnder(id)' = {}
       /\ pc'[t] # "add_filter"
  BY <1>3, <1>5, <1>9
<1> QED
  BY <1>1, <1>3, <1>4, <1>6, <1>8, <1>10, <1>11, <1>12, <1>13, EntryStep

(* remove_subscription takes the group out of filter_groups. *)
LEMMA RemoveStartInv ==
    ASSUME IndexInv, NEW t \in Tasks, NEW k \in Keys, Serialised(k),
           filter_groups[k] # None, RemoveStart(t, k)
    PROVE  IndexInv'
<1> PICK g : g = filter_groups[k]
  OBVIOUS
<1>1. TypeOK'
  BY RemoveStartType, IndexHasCalls
<1>2. /\ pc[t] = "idle" /\ pc'[t] = "rm_snapshot" /\ key'[t] = k /\ grp'[t] = g
      /\ ids'[t] = ids[t] /\ ids[t] = {} /\ lookup'[t] = lookup[t]
  BY DEF RemoveStart, IndexInv, TypeOK, LocalsInv, LocalsOf
<1>3. OtherLocals(t)
  BY DEF RemoveStart, OtherLocals, SameCall, IndexInv, TypeOK
<1>4. UNCHANGED <<tracked, all_filters, entries, next_filter_id, groupFilters, nextGroup>>
  BY DEF RemoveStart
<1>5. filter_groups'[k] = None /\ \A l \in Keys : l # k => filter_groups'[l] = filter_groups[l]
  BY DEF RemoveStart, IndexInv, TypeOK
<1>6. g \in GroupIds /\ g < nextGroup /\ \A l \in Keys : l # k => filter_groups[l] # g
  BY DEF IndexInv, TypeOK, AllocInv, OwnerInv
<1>7. \A u \in Tasks : Writing(u) => u # t /\ key[u] \in Keys /\ key[u] # k
  BY <1>2 DEF Serialised, Writing, IndexInv, LocalsInv, LocalsOf
<1>8. /\ \A l : Mine(l)' = Mine(l)
      /\ \A id : FiledUnder(id)' = FiledUnder(id)
  BY <1>4 DEF Mine, FiledUnder
<1>9. LocalsInv'
  <2>1. LocalsOf(t)'
    BY <1>2 DEF IndexInv, LocalsInv, LocalsOf, Writing, Distributing
  <2> QED
    BY <1>3, <1>4, <2>1, LocalsFrame DEF IndexInv
<1>10. AllocInv'
  BY <1>4, <1>5 DEF IndexInv, AllocInv
<1>11. OwnerInv'
  <2>1. \A l, m \in Keys :
          filter_groups'[l] # None /\ filter_groups'[l] = filter_groups'[m] => l = m
    BY <1>5 DEF IndexInv, OwnerInv
  <2>2. \A u \in Tasks : u # t => Writing(u)' = Writing(u) /\ key'[u] = key[u]
    BY <1>3 DEF OtherLocals, SameCall, Writing
  <2>3. \A u, v \in Tasks : Writing(u)' /\ Writing(v)' /\ key'[u] = key'[v] => u = v
    BY <1>2, <1>7, <2>2 DEF IndexInv, OwnerInv
  <2> QED
    BY <2>1, <2>3 DEF OwnerInv
<1>12. groupFilters[g] = Mine(k)
  <2>1. \A u \in Tasks : pc[u] = "add_group" => tracked[cur[u]].parent # k
    BY <1>7 DEF IndexInv, AddInv, AddingOf, Writing
  <2>2. \A i \in Ungrouped : i \notin Mine(k)
    BY <2>1 DEF Ungrouped, Mine
  <2> QED
    BY <2>2 DEF IndexInv, GroupInv
<1>13. AddInv'
  <2>1. AddingOf(t)'
    BY <1>2 DEF AddingOf, Adding
  <2>2. ASSUME NEW u \in Tasks, u # t PROVE AddingOf(u)'
    <3>1. AddingOf(u) /\ SameCall(u)
      BY <1>3, <2>2 DEF IndexInv, AddInv, OtherLocals
    <3>2. Adding(u) => key[u] \in Keys /\ key[u] # k
      BY <1>7 DEF Adding, Writing
    <3> QED
      BY <1>4, <1>5, <1>8, <3>1, <3>2 DEF AddingOf, Adding, SameCall
  <2> QED
    BY <2>1, <2>2 DEF AddInv
<1>14. RemoveInv'
  <2>1. RemovingOf(t)'
    <3>1. \A l \in Keys : filter_groups'[l] # g
      BY <1>5, <1>6
    <3> QED
      BY <1>2, <1>4, <1>5, <1>6, <1>8, <1>12, <3>1 DEF RemovingOf, Removing
  <2>2. ASSUME NEW u \in Tasks, u # t PROVE RemovingOf(u)'
    <3>1. RemovingOf(u) /\ SameCall(u)
      BY <1>3, <2>2 DEF IndexInv, RemoveInv, OtherLocals
    <3>2. Removing(u) => filter_groups'[key[u]] = filter_groups[key[u]]
      BY <1>5, <1>7 DEF Removing, Writing
    <3>3. pc[u] = "rm_snapshot" => \A l \in Keys : filter_groups'[l] # grp[u]
      <4>1. pc[u] = "rm_snapshot" => grp[u] # None
        BY <3>1, IndexAssumption DEF RemovingOf, GroupIds
      <4> QED
        BY <1>5, <3>1, <4>1 DEF RemovingOf
    <3> QED
      BY <1>4, <1>8, <3>1, <3>2, <3>3 DEF RemovingOf, Removing, SameCall
  <2> QED
    BY <2>1, <2>2 DEF RemoveInv
<1>15. GroupInv'
  <2>1. Ungrouped' = Ungrouped
    BY <1>2, <1>3 DEF Ungrouped, OtherLocals, SameCall
  <2>2. ~Serialised(k)'
    BY <1>2 DEF Serialised, Writing
  <2>3. ASSUME NEW l \in Keys, Serialised(l)' PROVE Serialised(l)
    BY <1>2, <1>3, <2>3 DEF Serialised, Writing, OtherLocals, SameCall
  <2> QED
    BY <1>4, <1>5, <1>8, <2>1, <2>2, <2>3 DEF IndexInv, GroupInv
<1>16. EntryInv'
  <2>1. \A id : BeingAdded(id)' = BeingAdded(id) /\ BeingRemoved(id)' = BeingRemoved(id)
    BY <1>2, <1>3 DEF BeingAdded, BeingRemoved, OtherLocals, SameCall
  <2> QED
    BY <1>4, <1>8, <2>1 DEF IndexInv, EntryInv
<1> QED
  BY <1>1, <1>9, <1>10, <1>11, <1>13, <1>14, <1>15, <1>16 DEF IndexInv

(* The snapshot is the whole of the subscription: nobody can add to it now. *)
LEMMA RemoveSnapshotInv ==
    ASSUME IndexInv, NEW t \in Tasks, RemoveSnapshot(t)
    PROVE  IndexInv'
<1> PICK k : k = key[t]
  OBVIOUS
<1>1. TypeOK'
  BY RemoveSnapshotType, IndexHasCalls
<1>2. TablesSame
  BY DEF RemoveSnapshot, indexVars, TablesSame
<1>3. OtherLocals(t)
  BY DEF RemoveSnapshot, Goto, OtherLocals, SameCall, IndexInv, TypeOK
<1>4. /\ pc[t] = "rm_snapshot" /\ pc'[t] = "rm_filter" /\ key'[t] = k
      /\ ids'[t] = groupFilters[grp[t]] /\ lookup'[t] = lookup[t]
  BY DEF RemoveSnapshot, Goto, IndexInv, TypeOK
<1>5. filter_groups[k] = None /\ groupFilters[grp[t]] = Mine(k)
  BY <1>4 DEF IndexInv, RemoveInv, RemovingOf, Removing
<1>6. \A l : Mine(l)' = Mine(l)
  BY <1>2 DEF Mine, TablesSame
<1>7. LocalsInv'
  <2>1. LocalsOf(t)'
    BY <1>4 DEF IndexInv, LocalsInv, LocalsOf, Writing, Distributing
  <2> QED
    BY <1>2, <1>3, <2>1, LocalsFrame DEF IndexInv, TablesSame
<1>8. AllocInv'
  BY <1>2 DEF IndexInv, AllocInv, TablesSame
<1>9. OwnerInv'
  BY <1>2, <1>3, <1>4 DEF IndexInv, OwnerInv, Writing, OtherLocals, SameCall, TablesSame
<1>10. AddingOf(t)' /\ RemovingOf(t)'
  BY <1>2, <1>4, <1>5, <1>6 DEF AddingOf, Adding, RemovingOf, Removing, TablesSame
<1>11. AddInv' /\ RemoveInv'
  BY <1>2, <1>3, <1>10, OtherCalls DEF AddInv, RemoveInv, OtherLocals
<1>12. GroupInv'
  <2>1. Ungrouped' = Ungrouped
    BY <1>3, <1>4 DEF Ungrouped, OtherLocals, SameCall
  <2>2. ASSUME NEW l \in Keys, Serialised(l)' PROVE Serialised(l)
    BY <1>3, <1>4, <2>2 DEF Serialised, Writing, OtherLocals, SameCall
  <2> QED
    BY <1>2, <1>6, <2>1, <2>2 DEF IndexInv, GroupInv, TablesSame
<1>13. EntryInv'
  <2>1. \A id : BeingAdded(id)' = BeingAdded(id) /\ BeingRemoved(id)' = BeingRemoved(id)
    BY <1>3, <1>4 DEF BeingAdded, BeingRemoved, OtherLocals, SameCall
  <2>2. \A id : FiledUnder(id)' = FiledUnder(id)
    BY <1>2 DEF FiledUnder, TablesSame
  <2> QED
    BY <1>2, <2>1, <2>2 DEF IndexInv, EntryInv, TablesSame
<1> QED
  BY <1>1, <1>7, <1>8, <1>9, <1>11, <1>12, <1>13 DEF IndexInv

(* One filter leaves all_filters; its entries are still to be erased. *)
LEMMA RemoveFilterInv ==
    ASSUME IndexInv, NEW t \in Tasks, RemoveFilter(t)
    PROVE  IndexInv'
<1> PICK k : k = key[t]
  OBVIOUS
<1>1. TypeOK'
  BY RemoveFilterType, IndexHasCalls
<1>2. /\ pc[t] = "rm_filter"
      /\ UNCHANGED <<tracked, entries, next_filter_id, groupFilters, filter_groups,
                     nextGroup, key, grp, event, scope, lookup>>
  BY DEF RemoveFilter
<1>3. k \in Keys /\ Writing(t) /\ filter_groups[k] = None /\ ids[t] = Mine(k)
  BY <1>2 DEF IndexInv, LocalsInv, LocalsOf, Writing, RemoveInv, RemovingOf, Removing
<1>4. PICK id \in ids[t] :
         /\ ids' = [ids EXCEPT ![t] = ids[t] \ {id}]
         /\ all_filters' = all_filters \ {id}
         /\ pc' = [pc EXCEPT ![t] = "rm_index"]
         /\ cur' = [cur EXCEPT ![t] = id]
         /\ left' = [left EXCEPT ![t] = FilterBuckets(tracked[id].filter)]
  BY <1>3 DEF RemoveFilter, Mine
<1>5. id \in all_filters /\ id \in FilterIds /\ tracked[id] # None /\ tracked[id].parent = k
  BY <1>3 DEF Mine, IndexInv, TypeOK, AllocInv
<1>6. /\ pc'[t] = "rm_index" /\ cur'[t] = id /\ ids'[t] = ids[t] \ {id}
      /\ left'[t] = FilterBuckets(tracked[id].filter)
  BY <1>4 DEF IndexInv, TypeOK
<1>7. OtherLocals(t)
  BY <1>2, <1>4 DEF OtherLocals, SameCall, IndexInv, TypeOK
<1>8. /\ Mine(k)' = Mine(k) \ {id}
      /\ \A l : l # k => Mine(l)' = Mine(l)
  BY <1>2, <1>4, <1>5 DEF Mine
<1>9. \A i : FiledUnder(i)' = FiledUnder(i)
  BY <1>2 DEF FiledUnder
<1>10. \A u \in Tasks : u # t /\ Writing(u) => key[u] # k
  BY <1>3 DEF IndexInv, OwnerInv
<1>11. \A u \in Tasks : pc[u] \in {"add_group", "add_index", "rm_index"} => cur[u] # id
  BY <1>2, <1>5, <1>10 DEF Writing, IndexInv, AddInv, AddingOf, RemoveInv, RemovingOf
<1>12. FiledUnder(id) = FilterBuckets(tracked[id].filter)
  <2>1. ~BeingAdded(id)
    BY <1>11 DEF BeingAdded
  <2> QED
    BY <1>5, <2>1 DEF IndexInv, EntryInv
<1>13. LocalsInv'
  <2>1. LocalsOf(t)'
    BY <1>2, <1>3, <1>6 DEF IndexInv, LocalsInv, LocalsOf, Writing, Distributing
  <2> QED
    BY <1>2, <1>7, <2>1, LocalsFrame DEF IndexInv
<1>14. AllocInv'
  BY <1>2, <1>4 DEF IndexInv, AllocInv
<1>15. OwnerInv'
  BY <1>2, <1>6, <1>7 DEF IndexInv, OwnerInv, Writing, OtherLocals, SameCall
<1>16. AddInv'
  <2>1. AddingOf(t)'
    BY <1>6 DEF AddingOf, Adding
  <2>2. ASSUME NEW u \in Tasks, u # t PROVE AddingOf(u)'
    <3>1. AddingOf(u) /\ SameCall(u)
      BY <1>7, <2>2 DEF IndexInv, AddInv, OtherLocals
    <3> QED
      BY <1>2, <1>4, <1>9, <1>11, <3>1 DEF AddingOf, Adding, SameCall
  <2> QED
    BY <2>1, <2>2 DEF AddInv
<1>17. RemoveInv'
  <2>1. RemovingOf(t)'
    BY <1>2, <1>3, <1>4, <1>5, <1>6, <1>8, <1>9, <1>12 DEF RemovingOf, Removing
  <2>2. ASSUME NEW u \in Tasks, u # t PROVE RemovingOf(u)'
    <3>1. RemovingOf(u) /\ SameCall(u)
      BY <1>7, <2>2 DEF IndexInv, RemoveInv, OtherLocals
    <3> PICK l : l = key[u]
      OBVIOUS
    <3>2. Removing(u) => Mine(l)' = Mine(l)
      BY <1>8, <1>10, <2>2 DEF Removing, Writing
    <3> QED
      BY <1>2, <1>4, <1>9, <3>1, <3>2 DEF RemovingOf, Removing, SameCall
  <2> QED
    BY <2>1, <2>2 DEF RemoveInv
<1>18. GroupInv'
  <2>1. Ungrouped' = Ungrouped
    BY <1>2, <1>6, <1>7 DEF Ungrouped, OtherLocals, SameCall
  <2>2. ASSUME NEW l \in Keys, Serialised(l)' PROVE Serialised(l) /\ l # k
    BY <1>2, <1>6, <1>7, <2>2 DEF Serialised, Writing, OtherLocals, SameCall
  <2> QED
    BY <1>2, <1>3, <1>8, <2>1, <2>2 DEF IndexInv, GroupInv
<1>19. EntryInv'
  <2>1. \A i : BeingAdded(i)' = BeingAdded(i)
    BY <1>2, <1>6, <1>7 DEF BeingAdded, OtherLocals, SameCall
  <2>2. BeingRemoved(id)' /\ \A i : i # id => BeingRemoved(i)' = BeingRemoved(i)
    BY <1>2, <1>6, <1>7 DEF BeingRemoved, OtherLocals, SameCall
  <2> QED
    BY <1>2, <1>4, <1>9, <2>1, <2>2 DEF IndexInv, EntryInv
<1> QED
  BY <1>1, <1>13, <1>14, <1>15, <1>16, <1>17, <1>18, <1>19 DEF IndexInv

-----------------------------------------------------------------------------
(* Every step of every call preserves the invariant. *)
LEMMA StepInv == IndexInv /\ [Next]_vars => IndexInv'
<1> SUFFICES ASSUME IndexInv, [Next]_vars PROVE IndexInv'
  OBVIOUS
<1>1. ASSUME NEW t \in Writers, CallAdd(t) PROVE IndexInv'
  BY <1>1, AddStartInv DEF CallAdd, Tasks
<1>2. ASSUME NEW t \in Writers, CallRemove(t) PROVE IndexInv'
  BY <1>2, RemoveStartInv DEF CallRemove, Tasks
<1>3. ASSUME NEW t \in Distributors, CallDistribute(t) PROVE IndexInv'
  BY <1>3, DistributionInv DEF CallDistribute, Tasks
<1>4. ASSUME NEW t \in Distributors, DistReturn(t) PROVE IndexInv'
  BY <1>4, DistributionInv DEF Tasks
<1>5. ASSUME NEW t \in Tasks, AddStep(t) PROVE IndexInv'
  BY <1>5, AddFilterInv, AddToGroupInv, AddToIndexInv, AddReturnInv DEF AddStep
<1>6. ASSUME NEW t \in Tasks, RemoveStep(t) PROVE IndexInv'
  BY <1>6, RemoveSnapshotInv, RemoveFilterInv, RemoveFromIndexInv, RemoveReturnInv
  DEF RemoveStep
<1>7. ASSUME NEW t \in Tasks, DistStep(t) PROVE IndexInv'
  BY <1>7, DistributionInv
<1>8. CASE UNCHANGED vars
  <2>1. TypeOK'
    BY <1>8 DEF IndexInv, TypeOK, vars, indexVars, callVars
  <2>2. TablesSame /\ \A t \in Tasks : SameCall(t)
    BY <1>8 DEF vars, indexVars, callVars, TablesSame, SameCall
  <2>3. StructInv'
    BY <2>2, Frame DEF IndexInv, StructInv
  <2>4. LocalsInv'
    BY <1>8 DEF IndexInv, LocalsInv, LocalsOf, Writing, Distributing, vars, indexVars, callVars
  <2> QED
    BY <2>1, <2>3, <2>4 DEF IndexInv, StructInv
<1> QED
  BY <1>1, <1>2, <1>3, <1>4, <1>5, <1>6, <1>7, <1>8 DEF Next, CallStep

(***************************************************************************)
(* The inductive invariant holds in every reachable state of the index     *)
(* (add_subscription, remove_subscription and distribute_event overlapping *)
(* in any way that keeps the calls for one subscription apart).            *)
(***************************************************************************)
THEOREM IndexInvariance == Spec => []IndexInv
  BY InitInv, StepInv, PTL DEF Spec

(* Type correctness of the index's state and of every call's locals.        *)
THEOREM TypeCorrect == Spec => []TypeOK
<1>1. IndexInv => TypeOK
  BY DEF IndexInv
<1> QED
  BY <1>1, IndexInvariance, PTL

(***************************************************************************)
(* Nothing leaks and nothing is lost: whenever no call is writing,         *)
(* all_filters is exactly the filters of the live groups and the tables    *)
(* hold exactly their entries.                                             *)
(***************************************************************************)
THEOREM ExactWhenQuiet == Spec => []IndexExact
<1>1. IndexInv => IndexExact
  <2> SUFFICES ASSUME IndexInv, \A t \in Tasks : ~Writing(t)
               PROVE  /\ all_filters = LiveFilters
                      /\ entries = UNION {FiledEntries(id) : id \in all_filters}
    BY DEF IndexExact
  <2>1. Ungrouped = {} /\ \A id : ~BeingAdded(id) /\ ~BeingRemoved(id)
    BY DEF Ungrouped, BeingAdded, BeingRemoved, Writing
  <2>2. \A k \in Keys : Serialised(k)
    BY DEF Serialised
  <2>3. \A k \in Keys :
           /\ filter_groups[k] # None => groupFilters[filter_groups[k]] = Mine(k)
           /\ filter_groups[k] = None => Mine(k) = {}
    BY <2>1, <2>2 DEF IndexInv, GroupInv
  <2>4. all_filters = LiveFilters
    <3>1. \A id \in all_filters : tracked[id].parent \in Keys
      BY DEF IndexInv, TypeOK, AllocInv
    <3>2. \A id \in all_filters : id \in Mine(tracked[id].parent)
      BY DEF Mine
    <3>3. \A k \in Keys : Mine(k) \subseteq all_filters
      BY DEF Mine
    <3>4. all_filters \subseteq LiveFilters
      BY <2>3, <3>1, <3>2 DEF LiveFilters
    <3>5. LiveFilters \subseteq all_filters
      BY <2>3, <3>3 DEF LiveFilters
    <3> QED
      BY <3>4, <3>5
  <2>5. /\ \A id \in all_filters : FiledUnder(id) = FilterBuckets(tracked[id].filter)
        /\ \A id \in FilterIds \ all_filters : FiledUnder(id) = {}
    BY <2>1 DEF IndexInv, TypeOK, EntryInv
  <2>6. ASSUME NEW x \in entries PROVE \E id \in all_filters : x \in FiledEntries(id)
    <3>1. PICK b \in Buckets, id \in FilterIds : x = <<b, id>>
      BY DEF IndexInv, TypeOK
    <3>2. b \in FiledUnder(id)
      BY <3>1 DEF FiledUnder
    <3> QED
      BY <2>5, <3>1, <3>2 DEF FiledEntries
  <2>7. ASSUME NEW id \in all_filters, NEW x \in FiledEntries(id) PROVE x \in entries
    <3>1. PICK b \in FilterBuckets(tracked[id].filter) : x = <<b, id>>
      BY DEF FiledEntries
    <3> QED
      BY <2>5, <3>1 DEF FiledUnder
  <2> QED
    BY <2>4, <2>6, <2>7
<1> QED
  BY <1>1, IndexInvariance, PTL

(***************************************************************************)
(* A filter that is in place stays findable under each of its buckets      *)
(* whatever other calls are adding, removing or distributing.              *)
(***************************************************************************)
THEOREM FindableWhileSettled == Spec => []SettledFindable
<1>1. IndexInv => SettledFindable
  <2> SUFFICES ASSUME IndexInv, NEW id \in FilterIds, Settled(id)
               PROVE  FiledEntries(id) \subseteq entries
    BY DEF SettledFindable
  <2>1. id \in all_filters /\ ~BeingAdded(id)
    BY DEF Settled, BeingAdded, Writing
  <2>2. FiledUnder(id) = FilterBuckets(tracked[id].filter)
    BY <2>1 DEF IndexInv, EntryInv
  <2> QED
    BY <2>2 DEF FiledEntries, FiledUnder
<1> QED
  BY <1>1, IndexInvariance, PTL

-----------------------------------------------------------------------------
(* A step that leaves the result of a call alone keeps OnceOf. *)
LEMMA OnceSame ==
    ASSUME NEW u \in Tasks, OnceOf(u), pc'[u] = pc[u], key'[u] = key[u],
           checked'[u] = checked[u], matching'[u] = matching[u]
    PROVE  OnceOf(u)'
  BY DEF OnceOf, Deciding

(* The steps of add_subscription and remove_subscription push nothing. *)
LEMMA OnceWriter ==
    ASSUME OnceInv, NEW t \in Tasks, matching' = matching,
           ~Distributing(t), ~Distributing(t)',
           \A u \in Tasks \ {t} : pc'[u] = pc[u] /\ key'[u] = key[u],
           checked' = checked
    PROVE  OnceInv'
<1>1. OnceOf(t)'
  BY DEF OnceInv, OnceOf, Deciding, Distributing
<1>2. \A u \in Tasks \ {t} : OnceOf(u)'
  BY OnceSame DEF OnceInv
<1> QED
  BY <1>1, <1>2 DEF OnceInv

(* add_subscription and remove_subscription, from the call to the return. *)
LEMMA OnceWriting ==
    ASSUME TypeOK, OnceInv, NEW t \in Tasks,
           \/ \E k \in Keys, fs \in FilterLists : AddStart(t, k, fs)
           \/ \E k \in Keys : RemoveStart(t, k)
           \/ AddStep(t) \/ RemoveStep(t)
    PROVE  OnceInv'
<1>0. pc \in [Tasks -> PCs] /\ key \in [Tasks -> Keys \cup {None}]
  BY DEF TypeOK
<1>1. ~Distributing(t) /\ ~Distributing(t)'
  BY <1>0 DEF AddStart, RemoveStart, AddStep, RemoveStep, AddFilter, AddToGroup, AddToIndex, AddReturn,
     RemoveSnapshot, RemoveFilter, RemoveFromIndex, RemoveReturn, Goto, Distributing
<1>2. /\ matching' = matching /\ checked' = checked
      /\ \A u \in Tasks \ {t} : pc'[u] = pc[u] /\ key'[u] = key[u]
  BY <1>0 DEF AddStart, RemoveStart, AddStep, RemoveStep, AddFilter, AddToGroup, AddToIndex, AddReturn,
     RemoveSnapshot, RemoveFilter, RemoveFromIndex, RemoveReturn, Goto
<1> QED
  BY <1>1, <1>2, OnceWriter

(* distribute_event pushes a key at most once. *)
LEMMA OnceDistributing ==
    ASSUME TypeOK, OnceInv, NEW t \in Tasks,
           \/ \E e \in Events, s \in Scopes : DistStart(t, e, s)
           \/ DistStep(t) \/ DistReturn(t)
    PROVE  OnceInv'
<1>0. OnceOf(t) /\ matching[t] \in Seq(Keys) /\ pc \in [Tasks -> PCs]
      /\ key \in [Tasks -> Keys \cup {None}] /\ checked \in [Tasks -> SUBSET Keys]
      /\ matching \in [Tasks -> Seq(Keys)]
  BY DEF OnceInv, TypeOK
<1>1. \A u \in Tasks \ {t} : /\ pc'[u] = pc[u] /\ key'[u] = key[u]
                             /\ checked'[u] = checked[u] /\ matching'[u] = matching[u]
  BY <1>0 DEF DistStart, DistReturn, DistStep, Lookup, CheckFilter, MarkFilter, GetGroup, GroupSeen,
              GroupMark, DistDone, Goto
<1> SUFFICES OnceOf(t)'
  BY <1>1, OnceSame DEF OnceInv
<1>2. CASE Lookup(t)
  BY <1>0, <1>2 DEF Lookup, OnceOf, Deciding
<1>3. CASE CheckFilter(t)
  BY <1>0, <1>3 DEF CheckFilter, OnceOf, Deciding
<1>4. CASE MarkFilter(t)
  BY <1>0, <1>4 DEF MarkFilter, OnceOf, Deciding
<1>5. CASE GetGroup(t)
  BY <1>0, <1>5 DEF GetGroup, OnceOf, Deciding
<1>6. CASE GroupSeen(t)
  BY <1>0, <1>6 DEF GroupSeen, OnceOf, Deciding
<1>7. CASE GroupMark(t)
  BY <1>0, <1>7 DEF GroupMark, Goto, OnceOf, Deciding
<1>8. CASE DistDone(t)
  BY <1>0, <1>8 DEF DistDone, Goto, OnceOf, Deciding
<1>9. CASE DistReturn(t) \/ \E e \in Events, s \in Scopes : DistStart(t, e, s)
  BY <1>0, <1>9 DEF DistStart, DistReturn, Goto, OnceOf, Deciding
<1> QED
  BY <1>2, <1>3, <1>4, <1>5, <1>6, <1>7, <1>8, <1>9 DEF DistStep

(* A step of no call keeps OnceInv. *)
LEMMA OnceStutter == OnceInv /\ UNCHANGED <<pc, key, checked, matching>> => OnceInv'
  BY OnceSame DEF OnceInv

(* Every step of the index keeps OnceInv. *)
LEMMA OnceStep == TypeOK /\ OnceInv /\ [Next]_vars => OnceInv'
<1> SUFFICES ASSUME TypeOK, OnceInv, [Next]_vars PROVE OnceInv'
  OBVIOUS
<1>1. CASE UNCHANGED vars
  BY <1>1, OnceStutter DEF vars, callVars
<1>2. ASSUME NEW t \in Writers, CallAdd(t) \/ CallRemove(t) PROVE OnceInv'
  BY <1>2, OnceWriting DEF Tasks, CallAdd, CallRemove
<1>3. ASSUME NEW t \in Distributors, CallDistribute(t) \/ DistReturn(t) PROVE OnceInv'
  BY <1>3, OnceDistributing DEF Tasks, CallDistribute
<1>4. ASSUME NEW t \in Tasks, CallStep(t) PROVE OnceInv'
  BY <1>4, OnceWriting, OnceDistributing DEF CallStep
<1> QED
  BY <1>1, <1>2, <1>3, <1>4 DEF Next

(* distribute_event never returns a subscription twice, for any number of   *)
(* filters of it that match and whatever other tasks do meanwhile.          *)
THEOREM NeverTwice == Spec => []OncePerDistribution
<1>1. Init => OnceInv
  BY DEF Init, OnceInv, OnceOf, Deciding
<1>2. OnceInv => OncePerDistribution
  BY DEF OnceInv, OnceOf, OncePerDistribution
<1> QED
  BY <1>1, <1>2, OnceStep, TypeCorrect, PTL DEF Spec

-----------------------------------------------------------------------------
(***************************************************************************)
(* However the calls overlap: BasicInv.  Nothing here assumes that calls    *)
(* for one subscription are kept apart.                                     *)
(***************************************************************************)

(* What a call refers to stays allocated, so only the task that moves       *)
(* needs a look.                                                            *)
LEMMA CallFrame ==
    ASSUME CallInv, NEW t \in Tasks, TypeOK', AllocInv', OtherLocals(t), LocalsOf(t)', WriterOf(t)',
           nextGroup <= nextGroup',
           \A id \in FilterIds : tracked[id] # None => tracked'[id] = tracked[id]
    PROVE  CallInv'
<1>0. /\ \A u \in Tasks : ids[u] \subseteq FilterIds /\ (grp[u] \in GroupIds => grp[u] \in Nat)
      /\ None \notin FilterIds /\ nextGroup \in Nat /\ nextGroup' \in Nat
  <2>1. ids \in [Tasks -> SUBSET FilterIds]
    BY DEF CallInv, TypeOK
  <2>2. nextGroup \in Nat /\ nextGroup' \in Nat
    BY DEF TypeOK, CallInv
  <2>3. None \notin FilterIds
    BY IndexAssumption DEF FilterIds
  <2>4. \A u \in Tasks : grp[u] \in GroupIds => grp[u] \in Nat
    BY DEF GroupIds
  <2> QED
    BY <2>1, <2>2, <2>3, <2>4
<1>1. ASSUME NEW u \in Tasks, u # t PROVE LocalsOf(u)' /\ WriterOf(u)'
  <2>1. LocalsOf(u) /\ WriterOf(u)
    BY DEF CallInv, LocalsInv
  <2>2. SameCall(u) /\ event'[u] = event[u] /\ scope'[u] = scope[u] /\ lookup'[u] = lookup[u]
    BY <1>1 DEF OtherLocals
  <2>3. LocalsOf(u)'
    BY <1>0, <2>1, <2>2 DEF LocalsOf, SameCall, Writing, Distributing
  <2>4. WriterOf(u)'
    BY <1>0, <2>1, <2>2 DEF WriterOf, SameCall, Linked, Adding
  <2> QED
    BY <2>3, <2>4
<1> QED
  BY <1>1 DEF CallInv, LocalsInv

(* What a step of t gives that allocates nothing.                           *)
AllocSame ==
    /\ UNCHANGED <<tracked, groupFilters, next_filter_id, nextGroup>>
    /\ all_filters' \subseteq all_filters
    /\ \A k \in Keys : filter_groups'[k] \in {filter_groups[k], None}

LEMMA CallMoves ==
    ASSUME CallInv, NEW t \in Tasks, TypeOK', AllocSame, OtherLocals(t), LocalsOf(t)', WriterOf(t)'
    PROVE  CallInv'
<1>1. AllocInv'
  BY DEF CallInv, AllocInv, AllocSame
<1>2. nextGroup <= nextGroup'
  BY IndexAssumption DEF CallInv, TypeOK, AllocSame
<1> QED
  BY <1>1, <1>2, CallFrame DEF AllocSame

(* Its group is the one it had, or one it finds in filter_groups.           *)
KeepsLink(t) ==
    Linked(t)' =>
       \/ Linked(t) /\ grp'[t] = grp[t] /\ key'[t] = key[t]
       \/ /\ grp'[t] # None /\ key'[t] \in Keys /\ grp'[t] = filter_groups[key'[t]]

KeepsFresh(t) ==
    /\ pc'[t] # "add_group"
    /\ pc'[t] = "add_index" => pc[t] = "add_index" /\ cur'[t] = cur[t]
    /\ \A b \in Buckets, id \in FilterIds : <<b, id>> \in entries' =>
          <<b, id>> \in entries \/ (pc[t] = "add_index" /\ id = cur[t])

LEMMA BasicFrame ==
    ASSUME BasicInv, NEW t \in Tasks, TypeOK', AllocSame, OtherLocals(t), LocalsOf(t)', WriterOf(t)',
           KeepsLink(t), KeepsFresh(t)
    PROVE  BasicInv'
<1>1. CallInv'
  BY CallMoves DEF BasicInv
<1>2. /\ GroupOwner /\ FreshFilters /\ WriterOf(t) /\ \A u \in Tasks : pc[u] = "add_group" => cur[u] \in FilterIds
      /\ filter_groups \in [Keys -> GroupIds \cup {None}]
  BY DEF BasicInv, CallInv, TypeOK, WriterOf
<1>3. \A u \in Tasks \ {t} : /\ pc'[u] = pc[u] /\ grp'[u] = grp[u] /\ key'[u] = key[u] /\ cur'[u] = cur[u]
                             /\ Linked(u)' = Linked(u)
  BY DEF OtherLocals, SameCall, Linked, Adding
<1>4. GroupOwner'
  <2>1. \A g \in GroupIds : \A id \in groupFilters'[g] : tracked'[id] # None
    BY <1>2 DEF GroupOwner, AllocSame
  <2>2. \A k \in Keys : filter_groups'[k] # None => filter_groups'[k] = filter_groups[k]
    BY DEF AllocSame
  <2>3. \A k, l \in Keys : filter_groups'[k] # None /\ filter_groups'[k] = filter_groups'[l] => k = l
    BY <1>2, <2>2 DEF GroupOwner
  <2>4. \A k \in Keys : filter_groups'[k] # None =>
          \A id \in groupFilters'[filter_groups'[k]] : tracked'[id].parent = k
    BY <1>2, <2>2 DEF GroupOwner, AllocSame
  <2>5. ASSUME NEW u \in Tasks, Linked(u)'
        PROVE  /\ grp'[u] # None
               /\ \A id \in groupFilters'[grp'[u]] : tracked'[id].parent = key'[u]
               /\ \A k \in Keys : filter_groups[k] = grp'[u] => k = key'[u]
               /\ \A v \in Tasks : Linked(v) /\ grp[v] = grp'[u] => key[v] = key'[u]
    <3>1. \/ Linked(u) /\ grp'[u] = grp[u] /\ key'[u] = key[u]
          \/ grp'[u] # None /\ key'[u] \in Keys /\ grp'[u] = filter_groups[key'[u]]
      BY <1>3, <2>5 DEF KeepsLink
    <3>2. CASE Linked(u) /\ grp'[u] = grp[u] /\ key'[u] = key[u]
      <4>1. grp[u] # None
        BY <3>2, IndexAssumption DEF BasicInv, CallInv, WriterOf, GroupIds
      <4> QED
        BY <1>2, <3>2, <4>1 DEF GroupOwner, AllocSame
    <3>3. CASE grp'[u] # None /\ key'[u] \in Keys /\ grp'[u] = filter_groups[key'[u]]
      BY <1>2, <3>3 DEF GroupOwner, AllocSame
    <3> QED
      BY <3>1, <3>2, <3>3
  <2>6. ASSUME NEW u \in Tasks, NEW v \in Tasks, Linked(u)', Linked(v)', grp'[v] = grp'[u]
        PROVE  key'[v] = key'[u]
    <3>1. CASE Linked(v) /\ grp'[v] = grp[v] /\ key'[v] = key[v]
      BY <2>5, <2>6, <3>1
    <3>2. CASE grp'[v] # None /\ key'[v] \in Keys /\ grp'[v] = filter_groups[key'[v]]
      BY <2>5, <2>6, <3>2
    <3> QED
      BY <1>3, <2>6, <3>1, <3>2 DEF KeepsLink
  <2>7. \A u \in Tasks : Linked(u)' => \A k \in Keys : filter_groups'[k] = grp'[u] => k = key'[u]
    BY <2>2, <2>5
  <2> QED
    BY <2>1, <2>3, <2>4, <2>5, <2>6, <2>7 DEF GroupOwner
<1>5. FreshFilters'
  <2>1. \A b \in Buckets, id \in FilterIds : <<b, id>> \in entries' => tracked'[id] # None
    BY <1>2 DEF FreshFilters, KeepsFresh, AllocSame, WriterOf
  <2>2. ASSUME NEW u \in Tasks, pc'[u] = "add_group"
        PROVE  /\ \A g \in GroupIds : cur'[u] \notin groupFilters'[g]
               /\ FiledUnder(cur[u])' = {}
    <3>1. u # t /\ pc[u] = "add_group" /\ cur'[u] = cur[u] /\ cur[u] \in FilterIds
      BY <1>2, <1>3, <2>2 DEF KeepsFresh
    <3>2. pc[t] = "add_index" => cur[t] # cur[u]
      BY <1>2, <3>1 DEF FreshFilters
    <3>3. FiledUnder(cur[u]) = {} /\ \A g \in GroupIds : cur[u] \notin groupFilters[g]
      BY <1>2, <3>1 DEF FreshFilters
    <3> QED
      BY <3>1, <3>2, <3>3 DEF KeepsFresh, FiledUnder, AllocSame
  <2>3. \A u \in Tasks : pc'[u] \in {"add_group", "add_index"} =>
           pc[u] \in {"add_group", "add_index"} /\ cur'[u] = cur[u]
    BY <1>3 DEF KeepsFresh
  <2>4. \A u, v \in Tasks :
          /\ pc'[u] \in {"add_group", "add_index"} /\ pc'[v] \in {"add_group", "add_index"}
          /\ cur'[u] = cur'[v]
          => u = v
    BY <1>2, <2>3 DEF FreshFilters
  <2> QED
    BY <2>1, <2>2, <2>4 DEF FreshFilters
<1> QED
  BY <1>1, <1>4, <1>5 DEF BasicInv

(* distribute_event reads; it links and adds nothing. *)
LEMMA BrowseBasic ==
    ASSUME BasicInv, NEW t \in Tasks,
           DistStep(t) \/ DistReturn(t) \/ \E e \in Events, s \in Scopes : DistStart(t, e, s)
    PROVE  BasicInv'
<1>1. Browses(t)
  BY DistributionBrowses DEF BasicInv
<1>2. AllocSame
  BY <1>1 DEF Browses, TablesSame, AllocSame
<1>3. WriterOf(t)' /\ KeepsLink(t) /\ KeepsFresh(t)
  BY <1>1 DEF Browses, TablesSame, Reads, WriterOf, Linked, Adding, Writing, KeepsLink, KeepsFresh
<1> QED
  BY <1>1, <1>2, <1>3, BasicFrame DEF Browses

(* A filter is filed under the next buckets. *)
LEMMA AddToIndexBasic ==
    ASSUME BasicInv, NEW t \in Tasks, AddToIndex(t)
    PROVE  BasicInv'
<1>1. TypeOK' /\ AllocSame
  BY AddToIndexType DEF BasicInv, AddToIndex, AllocSame
<1>2. OtherLocals(t)
  BY DEF BasicInv, CallInv, TypeOK, AddToIndex, OtherLocals, SameCall
<1>3. PICK chunk \in LockHold(tracked[cur[t]].filter, left[t]) :
         /\ entries' = entries \cup (chunk \X {cur[t]})
         /\ pc'[t] = IF left[t] \ chunk = {} THEN "add_filter" ELSE "add_index"
         /\ cur'[t] = IF left[t] \ chunk = {} THEN None ELSE cur[t]
  BY DEF AddToIndex, BasicInv, CallInv, TypeOK
<1>4. pc[t] = "add_index" /\ LocalsOf(t) /\ WriterOf(t)
  BY DEF AddToIndex, BasicInv, CallInv, LocalsInv
<1>5. LocalsOf(t)'
  BY <1>3, <1>4 DEF AddToIndex, LocalsOf, Writing, Distributing
<1>6. WriterOf(t)'
  BY <1>3, <1>4 DEF AddToIndex, WriterOf, Linked, Adding
<1>7. KeepsLink(t) /\ KeepsFresh(t)
  BY <1>3, <1>4 DEF AddToIndex, KeepsLink, KeepsFresh, Linked, Adding
<1> QED
  BY <1>1, <1>2, <1>5, <1>6, <1>7, BasicFrame

(* add_subscription or remove_subscription returns. *)
LEMMA ReturnBasic ==
    ASSUME BasicInv, NEW t \in Tasks, AddReturn(t) \/ RemoveReturn(t)
    PROVE  BasicInv'
<1>1. TypeOK' /\ AllocSame /\ entries' = entries
  BY AddReturnType, RemoveReturnType DEF BasicInv, AddReturn, RemoveReturn, AllocSame, indexVars
<1>2. OtherLocals(t)
  BY DEF BasicInv, CallInv, TypeOK, AddReturn, RemoveReturn, Goto, OtherLocals, SameCall
<1>3. pc'[t] = "idle"
  BY DEF AddReturn, RemoveReturn, Goto, BasicInv, CallInv, TypeOK
<1>4. pc[t] \in {"add_filter", "rm_filter"} /\ LocalsOf(t) /\ WriterOf(t)
  BY DEF AddReturn, RemoveReturn, Goto, BasicInv, CallInv, LocalsInv
<1>5. ids'[t] = {} /\ lookup'[t] = 1
  BY <1>4 DEF AddReturn, RemoveReturn, Goto, WriterOf, Linked, Adding, LocalsOf
<1>6. LocalsOf(t)'
  BY <1>3, <1>5 DEF LocalsOf, Writing, Distributing
<1>7. WriterOf(t)' /\ KeepsLink(t) /\ KeepsFresh(t)
  BY <1>1, <1>3 DEF WriterOf, Linked, Adding, KeepsLink, KeepsFresh
<1> QED
  BY <1>1, <1>2, <1>6, <1>7, BasicFrame

(* remove_subscription takes the group, or finds none. *)
LEMMA RemoveStartBasic ==
    ASSUME BasicInv, NEW t \in Tasks, NEW k \in Keys, RemoveStart(t, k)
    PROVE  BasicInv'
<1>0. filter_groups \in [Keys -> GroupIds \cup {None}] /\ ids[t] = {} /\ lookup[t] = 1 /\ AllocInv
  BY DEF BasicInv, CallInv, TypeOK, LocalsInv, LocalsOf, RemoveStart
<1>1. TypeOK' /\ AllocSame /\ entries' = entries
  BY <1>0, RemoveStartType DEF BasicInv, RemoveStart, AllocSame
<1>2. OtherLocals(t)
  BY DEF BasicInv, CallInv, TypeOK, RemoveStart, OtherLocals, SameCall
<1>3. /\ pc'[t] = IF filter_groups[k] = None THEN "rm_filter" ELSE "rm_snapshot"
      /\ key'[t] = k /\ grp'[t] = filter_groups[k] /\ ids'[t] = {} /\ lookup'[t] = 1
  BY <1>0 DEF RemoveStart, BasicInv, CallInv, TypeOK
<1>4. LocalsOf(t)'
  BY <1>3 DEF LocalsOf, Writing, Distributing
<1>5. WriterOf(t)'
  BY <1>0, <1>1, <1>3 DEF WriterOf, Linked, Adding, AllocInv, AllocSame
<1>6. KeepsLink(t) /\ KeepsFresh(t)
  BY <1>1, <1>3 DEF KeepsLink, KeepsFresh, Linked, Adding
<1> QED
  BY <1>1, <1>2, <1>4, <1>5, <1>6, BasicFrame

(* It collects the filters of the group: they are of its subscription. *)
LEMMA RemoveSnapshotBasic ==
    ASSUME BasicInv, NEW t \in Tasks, RemoveSnapshot(t)
    PROVE  BasicInv'
<1>1. TypeOK' /\ AllocSame /\ entries' = entries
  BY RemoveSnapshotType DEF BasicInv, RemoveSnapshot, AllocSame, indexVars
<1>2. OtherLocals(t)
  BY DEF BasicInv, CallInv, TypeOK, RemoveSnapshot, Goto, OtherLocals, SameCall
<1>3. /\ pc[t] = "rm_snapshot" /\ pc'[t] = "rm_filter" /\ ids'[t] = groupFilters[grp[t]] /\ key'[t] = key[t]
      /\ lookup'[t] = lookup[t]
  BY DEF RemoveSnapshot, Goto, BasicInv, CallInv, TypeOK
<1>4. LocalsOf(t) /\ WriterOf(t) /\ GroupOwner
  BY DEF BasicInv, CallInv, LocalsInv
<1>5. LocalsOf(t)'
  BY <1>3, <1>4 DEF LocalsOf, Writing, Distributing
<1>6. WriterOf(t)'
  BY <1>1, <1>3, <1>4 DEF WriterOf, Linked, Adding, GroupOwner, AllocSame
<1>7. KeepsLink(t) /\ KeepsFresh(t)
  BY <1>1, <1>3 DEF KeepsLink, KeepsFresh, Linked, Adding
<1> QED
  BY <1>1, <1>2, <1>5, <1>6, <1>7, BasicFrame

(* One of them leaves all_filters. *)
LEMMA RemoveFilterBasic ==
    ASSUME BasicInv, NEW t \in Tasks, RemoveFilter(t)
    PROVE  BasicInv'
<1>1. TypeOK' /\ AllocSame /\ entries' = entries
  BY RemoveFilterType DEF BasicInv, RemoveFilter, AllocSame
<1>2. OtherLocals(t)
  BY DEF BasicInv, CallInv, TypeOK, RemoveFilter, OtherLocals, SameCall
<1>3. PICK id \in ids[t] :
         /\ ids'[t] = ids[t] \ {id}
         /\ \/ pc'[t] = "rm_index" /\ cur'[t] = id
            \/ pc'[t] = pc[t] /\ cur'[t] = cur[t]
  BY DEF RemoveFilter, BasicInv, CallInv, TypeOK
<1>4. /\ pc[t] = "rm_filter" /\ LocalsOf(t) /\ WriterOf(t) /\ key'[t] = key[t] /\ lookup'[t] = lookup[t]
      /\ id \in FilterIds
  BY DEF RemoveFilter, BasicInv, CallInv, LocalsInv, TypeOK
<1>5. LocalsOf(t)'
  BY <1>3, <1>4 DEF LocalsOf, Writing, Distributing
<1>6. WriterOf(t)'
  BY <1>1, <1>3, <1>4 DEF WriterOf, Linked, Adding, AllocSame
<1>7. KeepsLink(t) /\ KeepsFresh(t)
  BY <1>1, <1>3, <1>4 DEF KeepsLink, KeepsFresh, Linked, Adding
<1> QED
  BY <1>1, <1>2, <1>5, <1>6, <1>7, BasicFrame

(* Its entries go. *)
LEMMA RemoveFromIndexBasic ==
    ASSUME BasicInv, NEW t \in Tasks, RemoveFromIndex(t)
    PROVE  BasicInv'
<1>1. TypeOK' /\ AllocSame
  BY RemoveFromIndexType DEF BasicInv, RemoveFromIndex, AllocSame
<1>2. OtherLocals(t)
  BY DEF BasicInv, CallInv, TypeOK, RemoveFromIndex, OtherLocals, SameCall
<1>3. PICK chunk \in LockHold(tracked[cur[t]].filter, left[t]) :
         /\ entries' = entries \ (chunk \X {cur[t]})
         /\ pc'[t] = IF left[t] \ chunk = {} THEN "rm_filter" ELSE "rm_index"
         /\ cur'[t] = IF left[t] \ chunk = {} THEN None ELSE cur[t]
  BY DEF RemoveFromIndex, BasicInv, CallInv, TypeOK
<1>4. pc[t] = "rm_index" /\ LocalsOf(t) /\ WriterOf(t)
  BY DEF RemoveFromIndex, BasicInv, CallInv, LocalsInv
<1>5. LocalsOf(t)'
  BY <1>3, <1>4 DEF RemoveFromIndex, LocalsOf, Writing, Distributing
<1>6. WriterOf(t)'
  BY <1>3, <1>4 DEF RemoveFromIndex, WriterOf, Linked, Adding
<1>7. KeepsLink(t) /\ KeepsFresh(t)
  BY <1>3, <1>4 DEF RemoveFromIndex, KeepsLink, KeepsFresh, Linked, Adding
<1> QED
  BY <1>1, <1>2, <1>5, <1>6, <1>7, BasicFrame

(* add_subscription finds the group or creates one: an empty group of nobody else. *)
LEMMA AddStartBasic ==
    ASSUME BasicInv, NEW t \in Tasks, NEW k \in Keys, NEW fs \in FilterLists, AddStart(t, k, fs)
    PROVE  BasicInv'
<1>0. /\ filter_groups \in [Keys -> GroupIds \cup {None}] /\ ids[t] = {} /\ lookup[t] = 1 /\ AllocInv
      /\ nextGroup \in Nat /\ GroupIds \subseteq Nat /\ TypeOK
      /\ nextGroup \in 1..(MaxGroups + 1) /\ GroupOwner /\ FreshFilters /\ LocalsOf(t)
  BY IndexAssumption DEF BasicInv, CallInv, TypeOK, LocalsInv, LocalsOf, AddStart, Goto, GroupIds
<1>1. TypeOK'
  BY AddStartType DEF BasicInv
<1>2. OtherLocals(t)
  BY <1>0 DEF TypeOK, AddStart, Goto, OtherLocals, SameCall
<1>3. /\ pc[t] = "idle" /\ pc'[t] = "add_filter" /\ key'[t] = k /\ ids'[t] = {} /\ lookup'[t] = 1
      /\ UNCHANGED <<tracked, groupFilters, next_filter_id, all_filters, entries>>
  BY <1>0 DEF TypeOK, AddStart, Goto
<1>4. LocalsOf(t)'
  BY <1>3 DEF LocalsOf, Writing, Distributing
<1>5. CASE filter_groups[k] # None /\ grp' = [grp EXCEPT ![t] = filter_groups[k]]
           /\ UNCHANGED <<filter_groups, nextGroup>>
  <2>1. AllocSame /\ grp'[t] = filter_groups[k]
    BY <1>0, <1>3, <1>5 DEF AllocSame, TypeOK
  <2>2. WriterOf(t)'
    BY <1>0, <1>3, <1>5, <2>1 DEF WriterOf, Linked, AllocInv
  <2>3. KeepsLink(t) /\ KeepsFresh(t)
    BY <1>3, <1>5, <2>1 DEF KeepsLink, KeepsFresh
  <2> QED
    BY <1>1, <1>2, <1>4, <2>1, <2>2, <2>3, BasicFrame
<1>6. ASSUME filter_groups[k] = None, nextGroup <= MaxGroups, grp' = [grp EXCEPT ![t] = nextGroup],
             filter_groups' = [filter_groups EXCEPT ![k] = nextGroup], nextGroup' = nextGroup + 1
      PROVE  BasicInv'
  <2>1. nextGroup \in GroupIds /\ nextGroup <= nextGroup' /\ grp'[t] = nextGroup /\ nextGroup < nextGroup'
        /\ groupFilters[nextGroup] = {}
    <3>1. nextGroup \in GroupIds /\ nextGroup >= nextGroup
      BY <1>0, <1>6, IndexAssumption DEF GroupIds
    <3> QED
      BY <1>0, <1>6, <3>1 DEF TypeOK, AllocInv
  <2>2. AllocInv'
    <3>1. \A l \in Keys : filter_groups'[l] # None => filter_groups'[l] < nextGroup'
      <4> TAKE l \in Keys
      <4>1. filter_groups[l] # None => filter_groups[l] \in Nat /\ filter_groups[l] < nextGroup
        BY <1>0 DEF AllocInv
      <4> QED
        BY <1>0, <1>6, <4>1
    <3>2. ASSUME NEW g \in GroupIds, g >= nextGroup' PROVE groupFilters[g] = {}
      <4>1. g \in Nat /\ g >= nextGroup + 1
        BY <1>0, <1>6, <3>2
      <4>2. g >= nextGroup
        BY <1>0, <4>1
      <4> QED
        BY <1>0, <4>2 DEF AllocInv
    <3> QED
      BY <1>0, <1>3, <3>1, <3>2 DEF AllocInv
  <2>3. WriterOf(t)'
    BY <1>3, <2>1 DEF WriterOf, Linked
  <2>4. CallInv'
    BY <1>1, <1>2, <1>3, <1>4, <2>1, <2>2, <2>3, CallFrame DEF BasicInv
  <2>5. \A u \in Tasks \ {t} : /\ pc'[u] = pc[u] /\ grp'[u] = grp[u] /\ key'[u] = key[u] /\ cur'[u] = cur[u]
                               /\ Linked(u)' = Linked(u)
    BY <1>2 DEF OtherLocals, SameCall, Linked, Adding
  <2>6. \A u \in Tasks : Linked(u) => grp[u] \in Nat /\ grp[u] < nextGroup /\ grp[u] # nextGroup
    <3> TAKE u \in Tasks
    <3> HAVE Linked(u)
    <3>1. grp[u] \in Nat /\ grp[u] < nextGroup
      BY <1>0 DEF BasicInv, CallInv, WriterOf
    <3>2. \A m, n \in Nat : m < n => m # n
      OBVIOUS
    <3> QED
      BY <1>0, <3>1, <3>2
  <2>7. \A l \in Keys : filter_groups[l] # nextGroup
    BY <1>0, IndexAssumption DEF AllocInv
  <2>8. \A l \in Keys : filter_groups'[l] = IF l = k THEN nextGroup ELSE filter_groups[l]
    BY <1>0, <1>6
  <2>9. GroupOwner'
    <3>1. \A l, m \in Keys : filter_groups'[l] # None /\ filter_groups'[l] = filter_groups'[m] => l = m
      BY <1>0, <2>7, <2>8 DEF GroupOwner
    <3>2. \A l \in Keys : filter_groups'[l] # None =>
            \A id \in groupFilters'[filter_groups'[l]] : tracked'[id].parent = l
      BY <1>0, <1>3, <2>1, <2>8 DEF GroupOwner
    <3>3. ASSUME NEW u \in Tasks, Linked(u)'
          PROVE  /\ \A id \in groupFilters'[grp'[u]] : tracked'[id].parent = key'[u]
                 /\ \A l \in Keys : filter_groups'[l] = grp'[u] => l = key'[u]
                 /\ \A v \in Tasks : Linked(v)' /\ grp'[v] = grp'[u] => key'[v] = key'[u]
      <4>1. CASE u = t
        BY <1>3, <2>1, <2>5, <2>6, <2>7, <2>8, <4>1
      <4>2. CASE u # t
        BY <1>0, <1>3, <2>1, <2>5, <2>6, <2>8, <3>3, <4>2 DEF GroupOwner
      <4> QED
        BY <4>1, <4>2
    <3> QED
      BY <1>0, <1>3, <3>1, <3>2, <3>3 DEF GroupOwner
  <2>10. FreshFilters'
    BY <1>0, <1>3, <2>5 DEF FreshFilters, FiledUnder
  <2> QED
    BY <2>4, <2>9, <2>10 DEF BasicInv
<1> QED
  BY <1>5, <1>6 DEF AddStart

(* A filter is allocated that nobody has. *)
LEMMA AddFilterBasic ==
    ASSUME BasicInv, NEW t \in Tasks, AddFilter(t)
    PROVE  BasicInv'
<1> PICK new : new = next_filter_id
  OBVIOUS
<1>0. /\ AllocInv /\ TypeOK /\ GroupOwner /\ FreshFilters /\ LocalsOf(t) /\ WriterOf(t)
      /\ new \in 1..(MaxFilters + 1) /\ new <= MaxFilters /\ FilterIds = 1..MaxFilters
      /\ tracked \in [FilterIds -> [filter : Filter, parent : Keys] \cup {None}]
      /\ None \notin [filter : Filter, parent : Keys]
      /\ groupFilters \in [GroupIds -> SUBSET FilterIds] /\ nextGroup \in Nat
  BY IndexAssumption DEF BasicInv, CallInv, TypeOK, LocalsInv, AddFilter, FilterIds
<1>1. TypeOK'
  BY AddFilterType DEF BasicInv
<1>2. OtherLocals(t)
  BY <1>0 DEF TypeOK, AddFilter, Goto, OtherLocals, SameCall
<1>3. /\ pc[t] = "add_filter" /\ pc'[t] = "add_group" /\ key'[t] = key[t] /\ grp'[t] = grp[t]
      /\ ids'[t] = ids[t] /\ lookup'[t] = lookup[t] /\ cur'[t] = new /\ next_filter_id' = new + 1
      /\ tracked' = [tracked EXCEPT ![new] = [filter |-> Head(todo[t]), parent |-> key[t]]]
      /\ all_filters' = all_filters \cup {new}
      /\ UNCHANGED <<entries, groupFilters, filter_groups, nextGroup>>
  BY <1>0 DEF TypeOK, AddFilter, Goto
<1>4. /\ new \in FilterIds /\ tracked[new] = None /\ key[t] \in Keys
      /\ tracked'[new] = [filter |-> Head(todo[t]), parent |-> key[t]]
  <2>1. new \in FilterIds /\ new >= next_filter_id
    BY <1>0, IndexAssumption
  <2> QED
    BY <1>0, <1>3, <2>1 DEF AllocInv, LocalsOf, Writing
<1>5. \A id \in FilterIds : tracked[id] # None => tracked'[id] = tracked[id] /\ id # new
  BY <1>0, <1>3, <1>4
<1>6. tracked'[new] # None /\ tracked'[new].parent = key[t]
  <2>1. tracked'[new] \in [filter : Filter, parent : Keys] \cup {None}
    BY <1>1, <1>4 DEF TypeOK
  <2>2. todo[t] \in Seq(Filter) /\ todo[t] # <<>>
    BY <1>0 DEF TypeOK, AddFilter
  <2>3. Head(todo[t]) \in Filter
    BY <2>2
  <2> QED
    BY <1>0, <1>4, <2>3
<1>7. AllocInv'
  <2>1. \A i \in FilterIds : i >= new + 1 => tracked'[i] = None
    <3> TAKE i \in FilterIds
    <3> HAVE i >= new + 1
    <3>1. i >= next_filter_id /\ i # new
      BY <1>0
    <3> QED
      BY <1>0, <1>3, <3>1 DEF AllocInv
  <2>2. \A i \in all_filters' : tracked'[i] # None
    BY <1>0, <1>3, <1>5, <1>6 DEF AllocInv, TypeOK
  <2> QED
    BY <1>0, <1>3, <2>1, <2>2 DEF AllocInv
<1>8. LocalsOf(t)'
  BY <1>0, <1>3, <1>4 DEF LocalsOf, Writing, Distributing
<1>9. WriterOf(t)'
  BY <1>0, <1>3, <1>4, <1>6 DEF WriterOf, Linked, Adding
<1>10. CallInv'
  <2>1. nextGroup <= nextGroup'
    BY <1>0, <1>3
  <2> QED
    BY <1>1, <1>2, <1>5, <1>7, <1>8, <1>9, <2>1, CallFrame DEF BasicInv
<1>11. \A u \in Tasks : grp'[u] = grp[u] /\ key'[u] = key[u] /\ Linked(u)' = Linked(u)
                        /\ (u # t => pc'[u] = pc[u] /\ cur'[u] = cur[u])
  BY <1>2, <1>3 DEF OtherLocals, SameCall, Linked, Adding
<1>12. \A g \in GroupIds : \A id \in groupFilters[g] : id \in FilterIds /\ tracked'[id] = tracked[id] /\ id # new
  BY <1>0, <1>5 DEF GroupOwner
<1>13. GroupOwner'
  <2>1. \A u \in Tasks : Linked(u) => grp[u] \in GroupIds
    BY DEF BasicInv, CallInv, WriterOf
  <2>2. \A k \in Keys : filter_groups[k] # None => filter_groups[k] \in GroupIds
    BY <1>0 DEF TypeOK
  <2>3. /\ \A g \in GroupIds : \A id \in groupFilters'[g] : tracked'[id] # None
        /\ \A k, l \in Keys :
              filter_groups'[k] # None /\ filter_groups'[k] = filter_groups'[l] => k = l
        /\ \A k \in Keys : filter_groups'[k] # None =>
              \A id \in groupFilters'[filter_groups'[k]] : tracked'[id].parent = k
    BY <1>0, <1>3, <1>12, <2>2 DEF GroupOwner
  <2>4. \A u \in Tasks : Linked(u)' =>
          /\ \A id \in groupFilters'[grp'[u]] : tracked'[id].parent = key'[u]
          /\ \A k \in Keys : filter_groups'[k] = grp'[u] => k = key'[u]
          /\ \A v \in Tasks : Linked(v)' /\ grp'[v] = grp'[u] => key'[v] = key'[u]
    BY <1>0, <1>3, <1>11, <1>12, <2>1 DEF GroupOwner
  <2> QED
    BY <2>3, <2>4 DEF GroupOwner
<1>14. FreshFilters'
  <2>1. \A b \in Buckets, id \in FilterIds : <<b, id>> \in entries' => tracked'[id] # None /\ id # new
    BY <1>0, <1>3, <1>5 DEF FreshFilters
  <2>2. ASSUME NEW u \in Tasks, pc'[u] = "add_group"
        PROVE  /\ \A g \in GroupIds : cur'[u] \notin groupFilters'[g]
               /\ FiledUnder(cur[u])' = {}
    <3>1. CASE u = t
      BY <1>3, <1>4, <1>12, <2>1, <3>1 DEF FiledUnder
    <3>2. CASE u # t
      BY <1>0, <1>3, <1>11, <2>2, <3>2 DEF FreshFilters, FiledUnder
    <3> QED
      BY <3>1, <3>2
  <2>3. \A u \in Tasks \ {t} : pc'[u] \in {"add_group", "add_index"} =>
          pc[u] \in {"add_group", "add_index"} /\ cur'[u] = cur[u] /\ cur[u] # new
    BY <1>4, <1>11 DEF BasicInv, CallInv, WriterOf
  <2>4. \A u, v \in Tasks :
          /\ pc'[u] \in {"add_group", "add_index"} /\ pc'[v] \in {"add_group", "add_index"}
          /\ cur'[u] = cur'[v]
          => u = v
    BY <1>0, <1>3, <2>3 DEF FreshFilters
  <2> QED
    BY <2>1, <2>2, <2>4 DEF FreshFilters
<1> QED
  BY <1>10, <1>13, <1>14 DEF BasicInv

(* It joins its group, and no other. *)
LEMMA AddToGroupBasic ==
    ASSUME BasicInv, NEW t \in Tasks, AddToGroup(t)
    PROVE  BasicInv'
<1>0. /\ AllocInv /\ TypeOK /\ GroupOwner /\ FreshFilters /\ LocalsOf(t) /\ WriterOf(t)
      /\ groupFilters \in [GroupIds -> SUBSET FilterIds] /\ nextGroup \in Nat
      /\ filter_groups \in [Keys -> GroupIds \cup {None}] /\ GroupIds \subseteq Nat
  BY IndexAssumption DEF BasicInv, CallInv, TypeOK, LocalsInv, GroupIds
<1>1. TypeOK'
  BY AddToGroupType DEF BasicInv
<1>2. OtherLocals(t)
  BY <1>0 DEF TypeOK, AddToGroup, Goto, OtherLocals, SameCall
<1>3. /\ pc[t] = "add_group" /\ pc'[t] = "add_index" /\ key'[t] = key[t] /\ grp'[t] = grp[t]
      /\ ids'[t] = ids[t] /\ lookup'[t] = lookup[t] /\ cur'[t] = cur[t]
      /\ groupFilters' = [groupFilters EXCEPT ![grp[t]] = @ \cup {cur[t]}]
      /\ UNCHANGED <<entries, tracked, all_filters, next_filter_id, filter_groups, nextGroup>>
  BY <1>0 DEF TypeOK, AddToGroup, Goto
<1>4. /\ Linked(t) /\ grp[t] \in GroupIds /\ grp[t] < nextGroup
      /\ cur[t] \in FilterIds /\ tracked[cur[t]] # None /\ tracked[cur[t]].parent = key[t]
  BY <1>0, <1>3 DEF WriterOf, Linked, Adding
<1>5. \A g \in GroupIds : groupFilters'[g] = IF g = grp[t] THEN groupFilters[g] \cup {cur[t]} ELSE groupFilters[g]
  BY <1>0, <1>3
<1>6. AllocInv'
  <2>1. \A g \in GroupIds : g >= nextGroup => g # grp[t]
    BY <1>0, <1>4
  <2> QED
    BY <1>0, <1>3, <1>5, <2>1 DEF AllocInv
<1>7. LocalsOf(t)'
  BY <1>0, <1>3 DEF LocalsOf, Writing, Distributing
<1>8. WriterOf(t)'
  BY <1>0, <1>3, <1>4 DEF WriterOf, Linked, Adding
<1>9. CallInv'
  <2>1. nextGroup <= nextGroup'
    BY <1>0, <1>3
  <2> QED
    BY <1>1, <1>2, <1>3, <1>6, <1>7, <1>8, <2>1, CallFrame DEF BasicInv
<1>10. \A u \in Tasks : /\ grp'[u] = grp[u] /\ key'[u] = key[u] /\ Linked(u)' = Linked(u)
                        /\ cur'[u] = cur[u] /\ (u # t => pc'[u] = pc[u])
  BY <1>2, <1>3 DEF OtherLocals, SameCall, Linked, Adding
<1>11. GroupOwner'
  <2>1. /\ \A g \in GroupIds : \A id \in groupFilters'[g] : tracked'[id] # None
        /\ \A k, l \in Keys :
              filter_groups'[k] # None /\ filter_groups'[k] = filter_groups'[l] => k = l
    BY <1>0, <1>3, <1>4, <1>5 DEF GroupOwner
  <2>2. \A k \in Keys : filter_groups'[k] # None =>
              \A id \in groupFilters'[filter_groups'[k]] : tracked'[id].parent = k
    BY <1>0, <1>3, <1>4, <1>5 DEF GroupOwner
  <2>3. ASSUME NEW u \in Tasks, Linked(u)'
        PROVE  /\ \A id \in groupFilters'[grp'[u]] : tracked'[id].parent = key'[u]
               /\ \A k \in Keys : filter_groups'[k] = grp'[u] => k = key'[u]
               /\ \A v \in Tasks : Linked(v)' /\ grp'[v] = grp'[u] => key'[v] = key'[u]
    <3>1. Linked(u) /\ grp[u] \in GroupIds
      BY <1>10, <2>3 DEF BasicInv, CallInv, WriterOf
    <3>2. grp[u] = grp[t] => key[u] = key[t]
      BY <1>0, <1>4, <3>1 DEF GroupOwner
    <3> QED
      BY <1>0, <1>3, <1>4, <1>5, <1>10, <3>1, <3>2 DEF GroupOwner
  <2> QED
    BY <2>1, <2>2, <2>3 DEF GroupOwner
<1>12. FreshFilters'
  <2>1. ASSUME NEW u \in Tasks, pc'[u] = "add_group"
        PROVE  /\ \A g \in GroupIds : cur[u] \notin groupFilters'[g]
               /\ FiledUnder(cur[u])' = {}
    <3>1. u # t /\ pc[u] = "add_group" /\ cur[u] # cur[t]
      BY <1>0, <1>3, <1>10, <2>1 DEF FreshFilters
    <3> QED
      BY <1>0, <1>3, <1>5, <1>10, <3>1 DEF FreshFilters, FiledUnder
  <2>2. \A u \in Tasks : pc'[u] \in {"add_group", "add_index"} => pc[u] \in {"add_group", "add_index"}
    BY <1>3, <1>10
  <2> QED
    BY <1>0, <1>3, <1>10, <2>1, <2>2 DEF FreshFilters
<1> QED
  BY <1>9, <1>11, <1>12 DEF BasicInv

(* Every step of a call. *)
LEMMA CallStepBasic ==
    ASSUME BasicInv, NEW t \in Tasks, CallStep(t)
    PROVE  BasicInv'
  BY AddFilterBasic, AddToGroupBasic, AddToIndexBasic, ReturnBasic, RemoveSnapshotBasic,
     RemoveFilterBasic, RemoveFromIndexBasic, BrowseBasic
  DEF CallStep, AddStep, RemoveStep

LEMMA BasicInit == Init => BasicInv
<1> SUFFICES ASSUME Init PROVE BasicInv
  OBVIOUS
<1>1. CallInv
  BY InitInv, IndexHasCalls
<1>2. GroupOwner /\ FreshFilters
  BY DEF Init, GroupOwner, FreshFilters, Linked, Adding
<1> QED
  BY <1>1, <1>2 DEF BasicInv

-----------------------------------------------------------------------------
(***************************************************************************)
(* However the calls overlap: FiledInv.                                     *)
(***************************************************************************)

(* A dead group stays dead, so only the task that moves needs a look.       *)
LEMMA RemovesDeadFrame ==
    ASSUME FiledInv, NEW t \in Tasks, OtherLocals(t), RemovesDead(t)',
           \A g \in GroupIds : Dead(g) => Dead(g)' /\ groupFilters[g] \subseteq groupFilters'[g]
    PROVE  \A u \in Tasks : RemovesDead(u)'
<1> SUFFICES ASSUME NEW u \in Tasks, u # t PROVE RemovesDead(u)'
  OBVIOUS
<1>1. RemovesDead(u) /\ SameCall(u)
  BY DEF FiledInv, OtherLocals
<1>2. \A id : Condemned(id) => Condemned(id)'
  BY DEF Condemned
<1>3. \A g : Dead(g) => Dead(g)'
  BY DEF Dead
<1> QED
  BY <1>1, <1>2, <1>3 DEF RemovesDead, SameCall

(* A step that allocates nothing and erases only what was condemned.        *)
LEMMA FiledFrame ==
    ASSUME BasicInv, FiledInv, NEW t \in Tasks, AllocSame, OtherLocals(t), RemovesDead(t)',
           pc'[t] # "add_group",
           \A id \in all_filters : id \in all_filters' \/ Condemned(id),
           \A b \in Buckets, id \in FilterIds :
              <<b, id>> \in entries => <<b, id>> \in entries' \/ Condemned(id),
           pc[t] = "add_index" =>
              \A b \in left[t] : <<b, cur[t]>> \in entries' \/ (pc'[t] = "add_index" /\ cur'[t] = cur[t] /\ b \in left'[t])
    PROVE  FiledInv'
<1>0. /\ filter_groups \in [Keys -> GroupIds \cup {None}] /\ left \in [Tasks -> SUBSET Buckets]
      /\ \A k \in Keys : filter_groups'[k] # None => filter_groups'[k] = filter_groups[k]
  BY DEF BasicInv, CallInv, TypeOK, AllocSame
<1>1. \A g \in GroupIds : Dead(g) => Dead(g)' /\ groupFilters[g] \subseteq groupFilters'[g]
  BY IndexAssumption DEF Dead, AllocSame, GroupIds
<1>2. \A u \in Tasks : RemovesDead(u)'
  BY <1>1, RemovesDeadFrame
<1>3. \A k \in Keys : \A id \in FilterIds : InGroup(k, id) => ~Condemned(id)
  BY <1>0 DEF InGroup, Condemned, Dead, FiledInv
<1>4. \A u \in Tasks \ {t} : pc'[u] = pc[u] /\ cur'[u] = cur[u] /\ left'[u] = left[u]
  BY DEF OtherLocals, SameCall
<1>5. ASSUME NEW u \in Tasks, pc'[u] = "add_group" PROVE cur'[u] \in all_filters'
  <2>1. u # t /\ pc[u] = "add_group" /\ cur'[u] = cur[u] /\ cur[u] \in all_filters
    BY <1>4, <1>5 DEF FiledInv
  <2>2. ~Condemned(cur[u])
    BY <2>1 DEF BasicInv, FreshFilters, Condemned
  <2> QED
    BY <2>1, <2>2
<1>6. ASSUME NEW k \in Keys, NEW id \in FilterIds, InGroup(k, id)'
      PROVE  /\ id \in all_filters'
             /\ FilterBuckets(tracked'[id].filter) \subseteq FiledUnder(id)' \cup Unfiled(id)'
  <2>1. InGroup(k, id) /\ ~Condemned(id) /\ tracked'[id] = tracked[id]
    BY <1>0, <1>3, <1>6 DEF InGroup, AllocSame
  <2>2. id \in all_filters' /\ FilterBuckets(tracked[id].filter) \subseteq FiledUnder(id) \cup Unfiled(id)
    BY <2>1 DEF FiledInv
  <2>3. ASSUME NEW b \in FiledUnder(id) PROVE b \in FiledUnder(id)'
    BY <2>1, <2>3 DEF FiledUnder
  <2>4. ASSUME NEW b \in Unfiled(id) PROVE b \in FiledUnder(id)' \/ b \in Unfiled(id)'
    <3>1. PICK u \in Tasks : pc[u] = "add_index" /\ cur[u] = id /\ b \in left[u]
      BY <2>4 DEF Unfiled
    <3>2. b \in Buckets
      BY <1>0, <3>1
    <3>3. CASE <<b, id>> \in entries'
      BY <3>2, <3>3 DEF FiledUnder
    <3>4. CASE pc'[u] = "add_index" /\ cur'[u] = id /\ b \in left'[u]
      BY <3>4 DEF Unfiled
    <3> QED
      BY <1>4, <3>1, <3>3, <3>4
  <2> QED
    BY <2>1, <2>2, <2>3, <2>4
<1> QED
  BY <1>2, <1>5, <1>6 DEF FiledInv, AllocSame

(* distribute_event and the returns erase nothing. *)
LEMMA BrowseFiled ==
    ASSUME BasicInv, FiledInv, NEW t \in Tasks,
           DistStep(t) \/ DistReturn(t) \/ \E e \in Events, s \in Scopes : DistStart(t, e, s)
    PROVE  FiledInv'
<1>1. Browses(t)
  BY DistributionBrowses DEF BasicInv
<1>2. AllocSame
  BY <1>1 DEF Browses, TablesSame, AllocSame
<1>3. RemovesDead(t)' /\ pc'[t] # "add_group" /\ pc[t] # "add_index"
  BY <1>1 DEF Browses, Reads, RemovesDead, Writing
<1> QED
  BY <1>1, <1>2, <1>3, FiledFrame DEF Browses, TablesSame

LEMMA ReturnFiled ==
    ASSUME BasicInv, FiledInv, NEW t \in Tasks, AddReturn(t) \/ RemoveReturn(t)
    PROVE  FiledInv'
<1>1. AllocSame /\ entries' = entries /\ all_filters' = all_filters
  BY DEF BasicInv, AddReturn, RemoveReturn, AllocSame, indexVars
<1>2. OtherLocals(t)
  BY DEF BasicInv, CallInv, TypeOK, AddReturn, RemoveReturn, Goto, OtherLocals, SameCall
<1>3. pc'[t] = "idle" /\ pc[t] \in {"add_filter", "rm_filter"}
  BY DEF AddReturn, RemoveReturn, Goto, BasicInv, CallInv, TypeOK
<1>4. RemovesDead(t)'
  BY <1>3 DEF RemovesDead
<1> QED
  BY <1>1, <1>2, <1>3, <1>4, FiledFrame

(* The buckets written leave those left to write. *)
LEMMA AddToIndexFiled ==
    ASSUME BasicInv, FiledInv, NEW t \in Tasks, AddToIndex(t)
    PROVE  FiledInv'
<1>1. AllocSame /\ all_filters' = all_filters
  BY DEF AddToIndex, AllocSame
<1>2. OtherLocals(t)
  BY DEF BasicInv, CallInv, TypeOK, AddToIndex, OtherLocals, SameCall
<1>3. PICK chunk \in LockHold(tracked[cur[t]].filter, left[t]) :
         /\ entries' = entries \cup (chunk \X {cur[t]})
         /\ left'[t] = left[t] \ chunk
         /\ pc'[t] = IF left[t] \ chunk = {} THEN "add_filter" ELSE "add_index"
         /\ cur'[t] = IF left[t] \ chunk = {} THEN None ELSE cur[t]
  BY DEF AddToIndex, BasicInv, CallInv, TypeOK
<1>4. RemovesDead(t)' /\ pc'[t] # "add_group"
  BY <1>3 DEF RemovesDead
<1> QED
  BY <1>1, <1>2, <1>3, <1>4, FiledFrame

(* The group that is taken is dead: it was of one subscription. *)
LEMMA RemoveStartFiled ==
    ASSUME BasicInv, FiledInv, NEW t \in Tasks, NEW k \in Keys, RemoveStart(t, k)
    PROVE  FiledInv'
<1>0. filter_groups \in [Keys -> GroupIds \cup {None}] /\ ids[t] = {} /\ AllocInv /\ GroupOwner
  BY DEF BasicInv, CallInv, TypeOK, LocalsInv, LocalsOf, RemoveStart
<1>1. AllocSame /\ entries' = entries /\ all_filters' = all_filters
  BY <1>0 DEF BasicInv, RemoveStart, AllocSame
<1>2. OtherLocals(t)
  BY DEF BasicInv, CallInv, TypeOK, RemoveStart, OtherLocals, SameCall
<1>3. /\ pc[t] = "idle" /\ pc'[t] = IF filter_groups[k] = None THEN "rm_filter" ELSE "rm_snapshot"
      /\ grp'[t] = filter_groups[k] /\ ids'[t] = {} /\ nextGroup' = nextGroup
      /\ filter_groups' = [filter_groups EXCEPT ![k] = None]
  BY <1>0 DEF RemoveStart, BasicInv, CallInv, TypeOK
<1>4. filter_groups[k] # None =>
         filter_groups[k] < nextGroup /\ \A l \in Keys : filter_groups'[l] # filter_groups[k]
  BY <1>0, <1>3 DEF AllocInv, GroupOwner
<1>5. RemovesDead(t)'
  <2>1. pc'[t] = "rm_snapshot" => Dead(grp[t])'
    BY <1>0, <1>3, <1>4 DEF Dead
  <2> QED
    BY <1>3, <2>1 DEF RemovesDead
<1> QED
  BY <1>1, <1>2, <1>3, <1>5, FiledFrame

LEMMA RemoveSnapshotFiled ==
    ASSUME BasicInv, FiledInv, NEW t \in Tasks, RemoveSnapshot(t)
    PROVE  FiledInv'
<1>1. AllocSame /\ UNCHANGED <<entries, all_filters, filter_groups>>
  BY DEF RemoveSnapshot, AllocSame, indexVars
<1>2. OtherLocals(t)
  BY DEF BasicInv, CallInv, TypeOK, RemoveSnapshot, Goto, OtherLocals, SameCall
<1>3. pc[t] = "rm_snapshot" /\ pc'[t] = "rm_filter" /\ ids'[t] = groupFilters[grp[t]]
  BY DEF RemoveSnapshot, Goto, BasicInv, CallInv, TypeOK
<1>4. RemovesDead(t)
  BY DEF FiledInv
<1>5. \A id \in ids'[t] : Condemned(id)
  BY <1>3, <1>4 DEF RemovesDead, Condemned, Dead
<1>6. \A id : Condemned(id) => Condemned(id)'
  BY <1>1 DEF Condemned, Dead, AllocSame
<1>7. RemovesDead(t)'
  BY <1>3, <1>5, <1>6 DEF RemovesDead
<1> QED
  BY <1>1, <1>2, <1>3, <1>7, FiledFrame

LEMMA RemoveFilterFiled ==
    ASSUME BasicInv, FiledInv, NEW t \in Tasks, RemoveFilter(t)
    PROVE  FiledInv'
<1>1. AllocSame /\ UNCHANGED <<entries, filter_groups>>
  BY DEF RemoveFilter, AllocSame
<1>2. OtherLocals(t)
  BY DEF BasicInv, CallInv, TypeOK, RemoveFilter, OtherLocals, SameCall
<1>3. PICK id \in ids[t] :
         /\ ids'[t] = ids[t] \ {id}
         /\ all_filters' = all_filters \ {id}
         /\ \/ pc'[t] = "rm_index" /\ cur'[t] = id
            \/ pc'[t] = pc[t] /\ cur'[t] = cur[t]
  BY DEF RemoveFilter, BasicInv, CallInv, TypeOK
<1>4. pc[t] = "rm_filter" /\ RemovesDead(t)
  BY DEF RemoveFilter, FiledInv
<1>5. \A i \in ids[t] : Condemned(i)
  BY <1>4 DEF RemovesDead
<1>6. \A i : Condemned(i) => Condemned(i)'
  BY <1>1 DEF Condemned, Dead, AllocSame
<1>7. RemovesDead(t)'
  <2>1. pc'[t] = "rm_index" => Condemned(cur'[t])
    BY <1>3, <1>4, <1>5
  <2> QED
    BY <1>3, <1>4, <1>5, <1>6, <2>1 DEF RemovesDead
<1> QED
  BY <1>1, <1>2, <1>3, <1>4, <1>5, <1>7, FiledFrame

LEMMA RemoveFromIndexFiled ==
    ASSUME BasicInv, FiledInv, NEW t \in Tasks, RemoveFromIndex(t)
    PROVE  FiledInv'
<1>1. AllocSame /\ UNCHANGED <<all_filters, filter_groups>>
  BY DEF RemoveFromIndex, AllocSame
<1>2. OtherLocals(t)
  BY DEF BasicInv, CallInv, TypeOK, RemoveFromIndex, OtherLocals, SameCall
<1>3. PICK chunk \in LockHold(tracked[cur[t]].filter, left[t]) :
         /\ entries' = entries \ (chunk \X {cur[t]})
         /\ pc'[t] = IF left[t] \ chunk = {} THEN "rm_filter" ELSE "rm_index"
         /\ cur'[t] = IF left[t] \ chunk = {} THEN None ELSE cur[t]
  BY DEF RemoveFromIndex, BasicInv, CallInv, TypeOK
<1>4. pc[t] = "rm_index" /\ RemovesDead(t) /\ ids'[t] = ids[t]
  BY DEF RemoveFromIndex, FiledInv
<1>5. Condemned(cur[t]) /\ \A i \in ids[t] : Condemned(i)
  BY <1>4 DEF RemovesDead
<1>6. \A i : Condemned(i) => Condemned(i)'
  BY <1>1 DEF Condemned, Dead, AllocSame
<1>7. RemovesDead(t)'
  BY <1>3, <1>4, <1>5, <1>6 DEF RemovesDead
<1> QED
  BY <1>1, <1>2, <1>3, <1>4, <1>5, <1>7, FiledFrame

(* A new group is not one of the dead. *)
LEMMA AddStartFiled ==
    ASSUME BasicInv, FiledInv, NEW t \in Tasks, NEW k \in Keys, NEW fs, AddStart(t, k, fs)
    PROVE  FiledInv'
<1>0. filter_groups \in [Keys -> GroupIds \cup {None}] /\ TypeOK /\ AllocInv
  BY DEF BasicInv, CallInv, TypeOK
<1>1. UNCHANGED <<tracked, groupFilters, next_filter_id, all_filters, entries>>
  BY DEF AddStart
<1>2. OtherLocals(t)
  BY <1>0 DEF TypeOK, AddStart, Goto, OtherLocals, SameCall
<1>3. pc[t] = "idle" /\ pc'[t] = "add_filter"
  BY <1>0 DEF TypeOK, AddStart, Goto
<1>4. RemovesDead(t)'
  BY <1>3 DEF RemovesDead
<1>5. CASE UNCHANGED <<filter_groups, nextGroup>>
  <2>1. AllocSame
    BY <1>1, <1>5 DEF AllocSame
  <2> QED
    BY <1>1, <1>2, <1>3, <1>4, <2>1, FiledFrame
<1>6. CASE /\ filter_groups[k] = None /\ nextGroup <= MaxGroups /\ nextGroup' = nextGroup + 1
           /\ filter_groups' = [filter_groups EXCEPT ![k] = nextGroup]
  <2>0. nextGroup \in Nat /\ nextGroup \in GroupIds /\ groupFilters[nextGroup] = {} /\ GroupIds \subseteq Nat
    <3>1. nextGroup \in Nat /\ nextGroup \in GroupIds /\ nextGroup >= nextGroup /\ GroupIds \subseteq Nat
      BY <1>0, <1>6, IndexAssumption DEF TypeOK, GroupIds
    <3> QED
      BY <1>0, <3>1 DEF AllocInv
  <2>1. ASSUME NEW g \in GroupIds, Dead(g) PROVE Dead(g)' /\ groupFilters[g] \subseteq groupFilters'[g]
    <3>1. g \in Nat /\ g < nextGroup /\ g # nextGroup /\ g < nextGroup'
      <4>1. \A m, n \in Nat : m < n => m # n /\ m < n + 1
        OBVIOUS
      <4> QED
        BY <1>6, <2>0, <2>1, <4>1 DEF Dead
    <3> QED
      BY <1>0, <1>1, <1>6, <2>1, <3>1 DEF Dead
  <2>2. \A u \in Tasks : RemovesDead(u)'
    BY <1>2, <1>4, <2>1, RemovesDeadFrame
  <2>3. \A u \in Tasks \ {t} : pc'[u] = pc[u] /\ cur'[u] = cur[u] /\ left'[u] = left[u]
    BY <1>2 DEF OtherLocals, SameCall
  <2>4. \A l \in Keys, id \in FilterIds : InGroup(l, id)' => InGroup(l, id)
    BY <1>0, <1>1, <1>6, <2>0 DEF InGroup
  <2>5. \A id : FiledUnder(id)' = FiledUnder(id) /\ Unfiled(id)' = Unfiled(id)
    <3>1. \A u \in Tasks : pc'[u] = "add_index" <=> pc[u] = "add_index"
      BY <1>3, <2>3
    <3>2. \A u \in Tasks : pc[u] = "add_index" => cur'[u] = cur[u] /\ left'[u] = left[u]
      BY <1>3, <2>3
    <3> QED
      BY <1>1, <3>1, <3>2 DEF FiledUnder, Unfiled
  <2> QED
    BY <1>1, <1>3, <2>2, <2>3, <2>4, <2>5 DEF FiledInv
<1> QED
  BY <1>5, <1>6 DEF AddStart

LEMMA AddFilterFiled ==
    ASSUME BasicInv, FiledInv, NEW t \in Tasks, AddFilter(t)
    PROVE  FiledInv'
<1> PICK new : new = next_filter_id
  OBVIOUS
<1>0. /\ AllocInv /\ TypeOK /\ new \in FilterIds /\ tracked[new] = None
      /\ tracked \in [FilterIds -> [filter : Filter, parent : Keys] \cup {None}]
      /\ filter_groups \in [Keys -> GroupIds \cup {None}] /\ GroupOwner
  <2>1. new \in FilterIds /\ new >= next_filter_id
    BY IndexAssumption DEF BasicInv, CallInv, TypeOK, AddFilter, FilterIds
  <2> QED
    BY <2>1 DEF BasicInv, CallInv, TypeOK, AllocInv
<1>1. OtherLocals(t)
  BY <1>0 DEF TypeOK, AddFilter, Goto, OtherLocals, SameCall
<1>2. /\ pc[t] = "add_filter" /\ pc'[t] = "add_group" /\ cur'[t] = new
      /\ \A id \in FilterIds : tracked[id] # None => tracked'[id] = tracked[id]
      /\ all_filters' = all_filters \cup {new}
      /\ UNCHANGED <<entries, groupFilters, filter_groups, nextGroup>>
  BY <1>0 DEF TypeOK, AddFilter, Goto
<1>3. RemovesDead(t)'
  BY <1>2 DEF RemovesDead
<1>4. \A u \in Tasks : RemovesDead(u)'
  BY <1>1, <1>2, <1>3, RemovesDeadFrame DEF Dead
<1>5. \A u \in Tasks \ {t} : pc'[u] = pc[u] /\ cur'[u] = cur[u] /\ left'[u] = left[u]
  BY <1>1 DEF OtherLocals, SameCall
<1>6. \A id : FiledUnder(id)' = FiledUnder(id) /\ Unfiled(id)' = Unfiled(id)
  <2>1. \A u \in Tasks : pc'[u] = "add_index" <=> pc[u] = "add_index"
    BY <1>2, <1>5
  <2>2. \A u \in Tasks : pc[u] = "add_index" => cur'[u] = cur[u] /\ left'[u] = left[u]
    BY <1>2, <1>5
  <2> QED
    BY <1>2, <2>1, <2>2 DEF FiledUnder, Unfiled
<1>7. \A k \in Keys, id \in FilterIds : InGroup(k, id)' => InGroup(k, id) /\ tracked'[id] = tracked[id]
  <2> TAKE k \in Keys, id \in FilterIds
  <2> HAVE InGroup(k, id)'
  <2>1. InGroup(k, id) /\ filter_groups[k] \in GroupIds
    BY <1>0, <1>2 DEF InGroup
  <2>2. tracked[id] # None
    BY <1>0, <2>1 DEF InGroup, GroupOwner
  <2> QED
    BY <1>2, <2>1, <2>2
<1> QED
  BY <1>2, <1>4, <1>5, <1>6, <1>7 DEF FiledInv

LEMMA AddToGroupFiled ==
    ASSUME BasicInv, FiledInv, NEW t \in Tasks, AddToGroup(t)
    PROVE  FiledInv'
<1>0. /\ TypeOK /\ FreshFilters /\ grp[t] \in GroupIds
      /\ groupFilters \in [GroupIds -> SUBSET FilterIds]
      /\ filter_groups \in [Keys -> GroupIds \cup {None}]
      /\ left \in [Tasks -> SUBSET Buckets]
  BY DEF BasicInv, CallInv, TypeOK, WriterOf, Linked, Adding, AddToGroup, Goto
<1>1. OtherLocals(t)
  BY <1>0 DEF TypeOK, AddToGroup, Goto, OtherLocals, SameCall
<1>2. /\ pc[t] = "add_group" /\ pc'[t] = "add_index" /\ cur'[t] = cur[t]
      /\ left'[t] = FilterBuckets(tracked[cur[t]].filter)
      /\ groupFilters' = [groupFilters EXCEPT ![grp[t]] = @ \cup {cur[t]}]
      /\ UNCHANGED <<entries, tracked, all_filters, next_filter_id, filter_groups, nextGroup>>
  BY <1>0 DEF TypeOK, AddToGroup, Goto
<1>3. \A g \in GroupIds : groupFilters'[g] = IF g = grp[t] THEN groupFilters[g] \cup {cur[t]} ELSE groupFilters[g]
  BY <1>0, <1>2
<1>4. RemovesDead(t)'
  BY <1>2 DEF RemovesDead
<1>5. \A u \in Tasks : RemovesDead(u)'
  BY <1>1, <1>2, <1>3, <1>4, RemovesDeadFrame DEF Dead
<1>6. \A u \in Tasks \ {t} : pc'[u] = pc[u] /\ cur'[u] = cur[u] /\ left'[u] = left[u]
  BY <1>1 DEF OtherLocals, SameCall
<1>7. \A g \in GroupIds : cur[t] \notin groupFilters[g]
  BY <1>0, <1>2 DEF FreshFilters
<1>8. \A g, h \in GroupIds : \A id \in groupFilters'[g] : id \in groupFilters'[h] => g = h
  <2> SUFFICES ASSUME NEW g \in GroupIds, NEW h \in GroupIds, NEW id,
                      id \in groupFilters'[g], id \in groupFilters'[h]
               PROVE  g = h
    OBVIOUS
  <2>1. CASE id = cur[t]
    BY <1>3, <1>7, <2>1
  <2>2. CASE id # cur[t]
    <3>1. id \in groupFilters[g] /\ id \in groupFilters[h]
      BY <1>3, <2>2
    <3> QED
      BY <3>1 DEF FiledInv
  <2> QED
    BY <2>1, <2>2
<1>9. ASSUME NEW k \in Keys, NEW id \in FilterIds, InGroup(k, id)'
      PROVE  /\ id \in all_filters'
             /\ FilterBuckets(tracked'[id].filter) \subseteq FiledUnder(id)' \cup Unfiled(id)'
  <2>1. filter_groups[k] # None /\ filter_groups[k] \in GroupIds /\ id \in groupFilters'[filter_groups[k]]
    BY <1>0, <1>2, <1>9 DEF InGroup
  <2>2. CASE id = cur[t]
    <3>1. left'[t] \subseteq Unfiled(id)'
      BY <1>2, <2>2 DEF Unfiled
    <3> QED
      BY <1>2, <2>2, <3>1 DEF FiledInv
  <2>3. CASE id # cur[t]
    <3>1. InGroup(k, id)
      BY <1>3, <2>1, <2>3 DEF InGroup
    <3>2. FiledUnder(id)' = FiledUnder(id) /\ Unfiled(id) \subseteq Unfiled(id)'
      BY <1>2, <1>6 DEF FiledUnder, Unfiled
    <3> QED
      BY <1>2, <3>1, <3>2 DEF FiledInv
  <2> QED
    BY <2>2, <2>3
<1> QED
  BY <1>2, <1>5, <1>6, <1>8, <1>9 DEF FiledInv

(* Every step of a call. *)
LEMMA CallStepFiled ==
    ASSUME BasicInv, FiledInv, NEW t \in Tasks, CallStep(t)
    PROVE  FiledInv'
  BY AddFilterFiled, AddToGroupFiled, AddToIndexFiled, ReturnFiled, RemoveSnapshotFiled,
     RemoveFilterFiled, RemoveFromIndexFiled, BrowseFiled
  DEF CallStep, AddStep, RemoveStep

LEMMA FiledInit == Init => FiledInv
  BY DEF Init, FiledInv, RemovesDead, InGroup

-----------------------------------------------------------------------------
(***************************************************************************)
(* However the calls overlap: what is owed is delivered (DeliveryInv).      *)
(***************************************************************************)

(* What InGroup says of a filter. *)
LEMMA InGroupFilter ==
    ASSUME OverlapInv, NEW k \in Keys, NEW id, InGroup(k, id)
    PROVE  /\ id \in FilterIds /\ id \in all_filters /\ tracked[id] # None
           /\ tracked[id].parent = k
           /\ \A u \in Tasks : pc[u] = "add_group" => cur[u] # id
<1>1. filter_groups[k] # None /\ filter_groups[k] \in GroupIds /\ id \in groupFilters[filter_groups[k]]
  BY DEF InGroup, OverlapInv, BasicInv, CallInv, TypeOK
<1>2. id \in FilterIds
  BY <1>1 DEF OverlapInv, BasicInv, CallInv, TypeOK
<1> QED
  BY <1>1, <1>2 DEF OverlapInv, BasicInv, GroupOwner, FreshFilters, FiledInv

(* Only t's locals change. *)
Others(t) ==
    \A u \in Tasks \ {t} :
       /\ pc'[u] = pc[u] /\ key'[u] = key[u] /\ grp'[u] = grp[u] /\ cur'[u] = cur[u]
       /\ ids'[u] = ids[u] /\ event'[u] = event[u] /\ scope'[u] = scope[u]
       /\ lookup'[u] = lookup[u] /\ checked'[u] = checked[u]

LEMMA OthersStay ==
    ASSUME NEW t \in Tasks, Others(t), NEW u \in Tasks, u # t
    PROVE  /\ Held(u)' = Held(u) /\ (Distributing(u)' <=> Distributing(u))
           /\ \A k : filter_groups'[k] = filter_groups[k] => (HasGroup(u, k)' <=> HasGroup(u, k))
           /\ \A id : tracked'[id] = tracked[id] => (StillFound(u, id)' <=> StillFound(u, id))
  BY DEF Others, Held, Distributing, HasGroup, StillFound

(* A step of a distribution leaves what the others carry. *)
LEMMA OthersCarry ==
    ASSUME NEW t \in Tasks, Others(t), NEW u \in Tasks, u # t, NEW k \in Keys, Carries(u, k),
           filter_groups'[k] = filter_groups[k],
           \A id : InGroup(k, id) =>
              /\ InGroup(k, id)' /\ tracked'[id] = tracked[id]
              /\ pc'[t] = "add_index" => cur'[t] # id \/ (pc[t] = "add_index" /\ cur[t] = id)
    PROVE  Carries(u, k)'
<1>1. CASE HasGroup(u, k)
  BY <1>1, OthersStay DEF Carries
<1>2. ASSUME NEW id \in FilterIds, HasFilter(u, k, id) PROVE HasFilter(u, k, id)'
  <2>1. InGroup(k, id)' /\ tracked'[id] = tracked[id]
    BY <1>2 DEF HasFilter
  <2>2. scope'[u] = k[1] /\ MatchesEvent(tracked'[id].filter, event'[u])
    BY <1>2, <2>1 DEF HasFilter, Others
  <2>3. ASSUME NEW v \in Tasks, pc'[v] = "add_index" PROVE cur'[v] # id
    BY <1>2, <2>3 DEF HasFilter, Others
  <2>4. id \in Held(u)' \/ StillFound(u, id)'
    BY <1>2, <2>1, OthersStay DEF HasFilter
  <2> QED
    BY <2>1, <2>2, <2>3, <2>4 DEF HasFilter
<1> QED
  BY <1>1, <1>2, OthersStay DEF Carries

(* The marks of filters when a distribution goes on that marks none.       *)
KeepsGroup(t, D2) ==
    \A k \in Keys : filter_groups[k] # None /\ HasGroup(t, k) =>
       \/ HasGroup(t, k)' /\ event'[t] = event[t]
       \/ <<k, event[t].id>> \in D2

LEMMA FilterMarksKept ==
    ASSUME NEW D, NEW D2, FilterMarks(D), NEW t \in Tasks, Others(t), KeepsGroup(t, D2), D \subseteq D2,
           UNCHANGED <<groupFilters, filter_groups, filterSeen>>
    PROVE  FilterMarks(D2)'
<1> SUFFICES ASSUME NEW k \in Keys, NEW id \in FilterIds, InGroup(k, id)', filterSeen'[id] # None
             PROVE  \/ <<k, filterSeen'[id]>> \in D2
                    \/ \E u \in Tasks : /\ event'[u] # None /\ event'[u].id = filterSeen'[id]
                                        /\ HasGroup(u, k)'
  BY DEF FilterMarks
<1>1. InGroup(k, id) /\ filterSeen[id] # None /\ filter_groups[k] # None
  BY DEF InGroup
<1>2. CASE <<k, filterSeen[id]>> \in D
  BY <1>2
<1>3. ASSUME NEW u \in Tasks, event[u] # None, event[u].id = filterSeen[id], HasGroup(u, k)
      PROVE  \/ <<k, filterSeen'[id]>> \in D2
             \/ \E v \in Tasks : /\ event'[v] # None /\ event'[v].id = filterSeen'[id]
                                 /\ HasGroup(v, k)'
  <2>1. CASE u = t
    BY <1>1, <1>3, <2>1 DEF KeepsGroup
  <2>2. CASE u # t
    <3>1. HasGroup(u, k)' /\ event'[u] = event[u]
      BY <1>3, <2>2, OthersStay DEF Others
    <3> QED
      BY <1>3, <3>1
  <2> QED
    BY <2>1, <2>2
<1> QED
  BY <1>1, <1>2, <1>3 DEF FilterMarks

KeepsFilter(t, D2) ==
    \A k \in Keys, id \in FilterIds : Distributing(t) /\ HasFilter(t, k, id) =>
       \/ (HasFilter(t, k, id)' \/ HasGroup(t, k)') /\ Distributing(t)' /\ event'[t] = event[t]
       \/ filterSeen'[id] = event[t].id \/ <<k, event[t].id>> \in D2

(* No filter is added or filed that was not before. *)
AddsNone(t) ==
    /\ pc'[t] # "add_group"
    /\ pc'[t] = "add_index" => pc[t] = "add_index" /\ cur'[t] = cur[t]

(* A step that leaves the filters and the groups. *)
LEMMA StepKeeps ==
    ASSUME OverlapInv, NEW O, NEW D, NEW O2, NEW D2, DeliveryInv(O, D), NEW t \in Tasks, Others(t),
           UNCHANGED <<tracked, groupFilters, filter_groups, nextGroup>>,
           D \subseteq D2, AddsNone(t),
           Unmarked', GroupMarks(D2)', FilterMarks(D2)', DistLocals(t)', CheckedDone(t, D2)',
           KeepsGroup(t, D2), KeepsFilter(t, D2), O \subseteq O2,
           \A r \in O2 \ O :
              /\ r \in Keys \X EventIds /\ filter_groups[r[1]] # None
              /\ event'[t] # None /\ event'[t].id = r[2] /\ Carries(t, r[1])'
    PROVE  DeliveryInv(O2, D2)'
<1>0. /\ OwedLive(O) /\ Carried(O, D) /\ \A u \in Tasks : DistLocals(u) /\ CheckedDone(u, D)
      /\ event \in [Tasks -> Events \cup {None}]
      /\ \A e \in Events : e.id \in EventIds /\ e.id # None
  BY IndexAssumption DEF DeliveryInv, OverlapInv, BasicInv, CallInv, TypeOK, Event
<1>1. OwedLive(O2)'
  BY <1>0 DEF OwedLive
<1>2. ASSUME NEW u \in Tasks, u # t PROVE DistLocals(u)' /\ CheckedDone(u, D2)'
  <2>1. /\ Held(u)' = Held(u) /\ (Distributing(u)' <=> Distributing(u))
        /\ \A k : HasGroup(u, k)' <=> HasGroup(u, k)
    BY <1>2, OthersStay
  <2>2. /\ pc'[u] = pc[u] /\ key'[u] = key[u] /\ grp'[u] = grp[u] /\ cur'[u] = cur[u]
        /\ event'[u] = event[u] /\ checked'[u] = checked[u]
    BY <1>2 DEF Others
  <2>3. ASSUME NEW v \in Tasks, pc'[v] = "add_group" PROVE pc[v] = "add_group" /\ cur'[v] = cur[v]
    BY <2>3 DEF Others, AddsNone
  <2>4. DistLocals(u)'
    BY <1>0, <2>1, <2>2, <2>3 DEF DistLocals
  <2>5. CheckedDone(u, D2)'
    BY <1>0, <2>1, <2>2 DEF CheckedDone, InGroup
  <2> QED
    BY <2>4, <2>5
<1>3. ASSUME NEW r \in O2, r \notin D2
      PROVE  \E u \in Tasks : event'[u] # None /\ event'[u].id = r[2] /\ Carries(u, r[1])'
  <2>1. CASE r \notin O
    BY <1>3, <2>1
  <2>2. CASE r \in O
    <3>1. PICK u \in Tasks : event[u] # None /\ event[u].id = r[2] /\ Carries(u, r[1])
      BY <1>0, <1>3, <2>2 DEF Carried
    <3>2. r[1] \in Keys /\ r[2] \in EventIds /\ r = <<r[1], r[2]>> /\ filter_groups[r[1]] # None
      BY <1>0, <2>2 DEF OwedLive
    <3>3. CASE u # t
      <4>1. Carries(u, r[1])'
        BY <3>1, <3>2, <3>3, OthersCarry DEF InGroup, AddsNone
      <4> QED
        BY <3>1, <3>3, <4>1 DEF Others
    <3>4. CASE u = t /\ HasGroup(t, r[1])
      <4>1. HasGroup(t, r[1])' /\ event'[t] = event[t]
        BY <1>3, <3>1, <3>2, <3>4 DEF KeepsGroup
      <4>2. Distributing(t)'
        BY <4>1 DEF HasGroup, Distributing
      <4> QED
        BY <3>1, <3>4, <4>1, <4>2 DEF Carries
    <3>5. ASSUME u = t, NEW id \in FilterIds, HasFilter(t, r[1], id)
          PROVE  \E v \in Tasks : event'[v] # None /\ event'[v].id = r[2] /\ Carries(v, r[1])'
      <4>1. CASE (HasFilter(t, r[1], id)' \/ HasGroup(t, r[1])') /\ Distributing(t)' /\ event'[t] = event[t]
        BY <3>1, <3>5, <4>1 DEF Carries
      <4>2. CASE filterSeen'[id] = event[t].id
        <5>1. InGroup(r[1], id)' /\ filterSeen'[id] = r[2] /\ filterSeen'[id] # None
          BY <3>1, <3>2, <3>5, <4>2, IndexAssumption DEF HasFilter, InGroup
        <5>2. PICK v \in Tasks : event'[v] # None /\ event'[v].id = r[2] /\ HasGroup(v, r[1])'
          BY <1>3, <3>2, <5>1 DEF FilterMarks
        <5>3. Distributing(v)'
          BY <5>2 DEF HasGroup, Distributing
        <5> QED
          BY <5>2, <5>3 DEF Carries
      <4> QED
        BY <1>3, <3>1, <3>2, <3>5, <4>1, <4>2 DEF KeepsFilter, Carries
    <3> QED
      BY <3>1, <3>3, <3>4, <3>5 DEF Carries
  <2> QED
    BY <2>1, <2>2
<1>4. Carried(O2, D2)'
  BY <1>3 DEF Carried
<1> QED
  BY <1>1, <1>2, <1>4 DEF DeliveryInv

-----------------------------------------------------------------------------
(* A filter that accepts an event is found in one of the tables. *)
LEMMA FoundSomewhere ==
    ASSUME NEW f \in Filter, NEW e \in Event, MatchesEvent(f, e)
    PROVE  \E n \in 1..Len(Tables) : FilterBuckets(f) \cap EventBuckets(Tables[n], e) # {}
<1>1. PICK b : b \in FilterBuckets(f) /\ b \in LookupBuckets(e)
  BY IndexComplete DEF CandidateComplete
<1> QED
  BY <1>1 DEF LookupBuckets

(* A subscription that must get an event whose distribution begins.         *)
DueNow(r, e, s) ==
    \E k \in Keys, id \in FilterIds :
       /\ r = <<k, e.id>> /\ k[1] = s
       /\ InGroup(k, id) /\ Settled(id) /\ MatchesEvent(tracked[id].filter, e)

(* distribute_event begins: it will come upon every subscription it owes the event to. *)
LEMMA DistributeDelivery ==
    ASSUME OverlapInv, NEW O, NEW D, NEW O2, DeliveryInv(O, D), NEW t \in Tasks,
           NEW e \in Events, NEW s \in Scopes, DistStart(t, e, s),
           O \subseteq O2, \A r \in O2 \ O : DueNow(r, e, s)
    PROVE  DeliveryInv(O2, D)'
<1>0. /\ pc \in [Tasks -> PCs] /\ event \in [Tasks -> Events \cup {None}]
      /\ scope \in [Tasks -> Scopes \cup {None}]
      /\ LocalsOf(t) /\ DistLocals(t) /\ GroupMarks(D) /\ Unmarked /\ FilterMarks(D)
      /\ e \in Event /\ e # None /\ e.id \in EventIds
  BY IndexAssumption DEF OverlapInv, BasicInv, CallInv, TypeOK, LocalsInv, DeliveryInv, Event
<1>1. /\ pc[t] = "idle" /\ pc'[t] = "lookup" /\ event'[t] = e /\ scope'[t] = s
      /\ lookup'[t] = 1 /\ ids'[t] = {} /\ ids[t] = {} /\ checked'[t] = {}
  BY <1>0 DEF DistStart, Goto, LocalsOf, DistLocals, Distributing
<1>2. Others(t) /\ UNCHANGED <<tracked, filterSeen, groupFilters, groupSeen, filter_groups, nextGroup>>
  BY <1>0 DEF DistStart, Goto, indexVars, Others
<1>3. AddsNone(t) /\ Held(t) = {} /\ Held(t)' = {}
  BY <1>1 DEF AddsNone, Held
<1>4. KeepsGroup(t, D) /\ KeepsFilter(t, D)
  BY <1>1, <1>3 DEF KeepsGroup, KeepsFilter, HasGroup, HasFilter, StillFound
<1>5. Unmarked' /\ GroupMarks(D)' /\ FilterMarks(D)'
  <2>1. Unmarked'
    BY <1>0, <1>1, <1>2 DEF Unmarked, Others
  <2>2. GroupMarks(D)'
    BY <1>0, <1>2 DEF GroupMarks
  <2> QED
    BY <1>0, <1>2, <1>4, <2>1, <2>2, FilterMarksKept
<1>6. DistLocals(t)' /\ CheckedDone(t, D)'
  BY <1>1, <1>3 DEF DistLocals, CheckedDone
<1>7. ASSUME NEW r \in O2, r \notin O
      PROVE  /\ r \in Keys \X EventIds /\ filter_groups[r[1]] # None
             /\ event'[t] # None /\ event'[t].id = r[2] /\ Carries(t, r[1])'
  <2>1. PICK k \in Keys, id \in FilterIds :
           /\ r = <<k, e.id>> /\ k[1] = s
           /\ InGroup(k, id) /\ Settled(id) /\ MatchesEvent(tracked[id].filter, e)
    BY <1>7 DEF DueNow
  <2>2. Settled(id) /\ MatchesEvent(tracked[id].filter, e)
    BY <2>1
  <2>3. k \in Keys /\ k[1] = s /\ filter_groups[k] # None
    BY <2>1 DEF InGroup
  <2>4. InGroup(k, id)
    BY <2>1
  <2>5. id \in FilterIds /\ tracked[id].filter \in Filter
    BY <2>3, <2>4, InGroupFilter DEF OverlapInv, BasicInv, CallInv, TypeOK
  <2>6. StillFound(t, id)'
    BY <1>0, <1>1, <1>2, <2>2, <2>5, FoundSomewhere DEF StillFound
  <2>7. \A u \in Tasks : pc'[u] = "add_index" => cur'[u] # id
    BY <1>1, <1>2, <2>2 DEF Others, Settled, Writing
  <2>8. HasFilter(t, k, id)'
    BY <1>1, <1>2, <2>2, <2>3, <2>4, <2>6, <2>7 DEF HasFilter, InGroup
  <2> QED
    BY <1>0, <1>1, <2>1, <2>3, <2>5, <2>8 DEF Carries, Distributing
<1> QED
  BY <1>2, <1>3, <1>4, <1>5, <1>6, <1>7, StepKeeps

(* A step that leaves the marks as well. *)
LEMMA QuietStep ==
    ASSUME OverlapInv, NEW O, NEW D, DeliveryInv(O, D), NEW t \in Tasks, Others(t),
           UNCHANGED <<tracked, filterSeen, groupFilters, groupSeen, filter_groups, nextGroup>>,
           AddsNone(t), DistLocals(t)', CheckedDone(t, D)', KeepsGroup(t, D), KeepsFilter(t, D)
    PROVE  DeliveryInv(O, D)'
<1>1. Unmarked'
  <2>1. \A u \in Tasks : pc'[u] = "add_group" => pc[u] = "add_group" /\ cur'[u] = cur[u]
    BY DEF Others, AddsNone
  <2> QED
    BY <2>1 DEF Unmarked, DeliveryInv
<1>2. GroupMarks(D)'
  BY DEF GroupMarks, DeliveryInv
<1>3. FilterMarks(D)'
  BY FilterMarksKept DEF DeliveryInv
<1> QED
  BY <1>1, <1>2, <1>3, StepKeeps

(* get_candidate_filters: a filter in place and in the table is found. *)
LEMMA LookupDelivery ==
    ASSUME OverlapInv, NEW O, NEW D, DeliveryInv(O, D), NEW t \in Tasks, Lookup(t)
    PROVE  DeliveryInv(O, D)'
<1> DEFINE Found == {id \in FilterIds :
                       /\ tracked[id] # None
                       /\ tracked[id].parent[1] = scope[t]
                       /\ \E b \in EventBuckets(Tables[lookup[t]], event[t]) : <<b, id>> \in entries}
<1>0. /\ pc \in [Tasks -> PCs] /\ lookup[t] \in 1..6 /\ Len(Tables) = 5
      /\ lookup \in [Tasks -> 1..(Len(Tables) + 1)] /\ ids \in [Tasks -> SUBSET FilterIds]
      /\ entries \subseteq Buckets \X FilterIds
      /\ FreshFilters /\ FiledInv /\ DistLocals(t)
  BY DEF OverlapInv, BasicInv, CallInv, TypeOK, DeliveryInv, Tables
<1>1. /\ pc[t] = "lookup" /\ pc'[t] \in {"lookup", "check"} /\ ids'[t] = ids[t] \cup Found
      /\ lookup[t] < 5 => pc'[t] = "lookup" /\ lookup'[t] = lookup[t] + 1
      /\ event'[t] = event[t] /\ scope'[t] = scope[t] /\ checked'[t] = checked[t] /\ checked[t] = {}
  BY <1>0 DEF Lookup, DistLocals
<1>2. Others(t) /\ UNCHANGED <<tracked, filterSeen, groupFilters, groupSeen, filter_groups, nextGroup>>
  BY <1>0 DEF Lookup, indexVars, Others
<1>3. AddsNone(t) /\ Held(t) = ids[t] /\ Held(t)' = ids[t] \cup Found /\ Distributing(t)' /\ Distributing(t)
  BY <1>1 DEF AddsNone, Held, Distributing
<1>4. KeepsGroup(t, D)
  BY <1>1 DEF KeepsGroup, HasGroup
<1>5. KeepsFilter(t, D)
  <2> SUFFICES ASSUME NEW k \in Keys, NEW id \in FilterIds, HasFilter(t, k, id)
               PROVE  HasFilter(t, k, id)'
    BY <1>1, <1>3 DEF KeepsFilter
  <2>1. id \in Held(t)' \/ StillFound(t, id)'
    <3>1. CASE id \in Held(t)
      BY <1>3, <3>1
    <3>2. CASE StillFound(t, id)
      <4>1. PICK n \in lookup[t]..5 :
               FilterBuckets(tracked[id].filter) \cap EventBuckets(Tables[n], event[t]) # {}
        BY <1>0, <3>2 DEF StillFound
      <4>2. CASE n = lookup[t]
        <5>1. PICK b : b \in FilterBuckets(tracked[id].filter) /\ b \in EventBuckets(Tables[n], event[t])
          BY <4>1
        <5>2. tracked[id] # None /\ tracked[id].parent = k /\ InGroup(k, id)
          BY InGroupFilter DEF HasFilter
        <5>3. <<b, id>> \in entries
          <6>1. Unfiled(id) = {}
            BY DEF HasFilter, Unfiled
          <6> QED
            BY <1>0, <5>1, <5>2, <6>1 DEF FiledInv, FiledUnder
        <5>4. tracked[id].parent[1] = scope[t]
          BY <5>2 DEF HasFilter
        <5> QED
          BY <1>3, <4>2, <5>1, <5>2, <5>3, <5>4
      <4>3. CASE n # lookup[t]
        <5>1. lookup[t] < 5 /\ n \in lookup[t] + 1..5
          BY <1>0, <4>1, <4>3
        <5> QED
          BY <1>0, <1>1, <1>2, <4>1, <5>1 DEF StillFound
      <4> QED
        BY <4>2, <4>3
    <3> QED
      BY <3>1, <3>2 DEF HasFilter
  <2>2. \A u \in Tasks : pc'[u] = "add_index" => cur'[u] # id
    BY <1>1, <1>2 DEF HasFilter, Others
  <2> QED
    BY <1>1, <1>2, <2>1, <2>2 DEF HasFilter, InGroup
<1>6. DistLocals(t)'
  <2>1. ASSUME NEW u \in Tasks, pc'[u] = "add_group" PROVE cur'[u] \notin Held(t)'
    <3>1. pc[u] = "add_group" /\ cur'[u] = cur[u]
      BY <1>1, <1>2, <2>1 DEF Others
    <3>2. FiledUnder(cur[u]) = {} /\ cur[u] \notin ids[t]
      BY <1>0, <1>3, <3>1 DEF FreshFilters, DistLocals
    <3> QED
      BY <1>0, <1>3, <3>1, <3>2 DEF FiledUnder
  <2> QED
    BY <1>1, <2>1 DEF DistLocals
<1>7. CheckedDone(t, D)'
  BY <1>1 DEF CheckedDone
<1> QED
  BY <1>2, <1>3, <1>4, <1>5, <1>6, <1>7, QuietStep

(* A candidate is passed over if it has seen the event, or does not match. *)
LEMMA CheckDelivery ==
    ASSUME OverlapInv, NEW O, NEW D, DeliveryInv(O, D), NEW t \in Tasks, CheckFilter(t)
    PROVE  DeliveryInv(O, D)'
<1>0. /\ pc \in [Tasks -> PCs] /\ ids \in [Tasks -> SUBSET FilterIds]
      /\ cur \in [Tasks -> FilterIds \cup {None}] /\ key \in [Tasks -> Keys \cup {None}]
      /\ LocalsOf(t) /\ DistLocals(t) /\ CheckedDone(t, D)
  BY DEF OverlapInv, BasicInv, CallInv, TypeOK, LocalsInv, DeliveryInv
<1> PICK id \in ids[t] :
         /\ ids'[t] = ids[t] \ {id}
         /\ \/ /\ filterSeen[id] = event[t].id \/ ~MatchesEvent(tracked[id].filter, event[t])
               /\ pc' = pc /\ cur' = cur /\ key' = key
            \/ pc'[t] = "mark_filter" /\ cur'[t] = id /\ key'[t] = tracked[id].parent
  BY <1>0 DEF CheckFilter
<1>1. /\ pc[t] = "check" /\ event'[t] = event[t] /\ scope'[t] = scope[t] /\ checked'[t] = checked[t]
      /\ pc'[t] \in {"check", "mark_filter"}
  BY DEF CheckFilter
<1>2. Others(t) /\ UNCHANGED <<tracked, filterSeen, groupFilters, groupSeen, filter_groups, nextGroup>>
  BY <1>0 DEF CheckFilter, indexVars, Others
<1>3. AddsNone(t) /\ Held(t) = ids[t] /\ Distributing(t)' /\ Distributing(t)
      /\ Held(t)' \subseteq Held(t) /\ tracked[id] # None
  BY <1>0, <1>1 DEF AddsNone, Held, Distributing, LocalsOf
<1>4. KeepsGroup(t, D)
  BY <1>1 DEF KeepsGroup, HasGroup
<1>5. KeepsFilter(t, D)
  <2> SUFFICES ASSUME NEW k \in Keys, NEW i \in FilterIds, HasFilter(t, k, i)
               PROVE  HasFilter(t, k, i)' \/ filterSeen'[i] = event[t].id
    BY <1>1, <1>3 DEF KeepsFilter
  <2>1. i \in ids[t] /\ MatchesEvent(tracked[i].filter, event[t])
    BY <1>1, <1>3 DEF HasFilter, StillFound
  <2>2. i \in Held(t)' \/ filterSeen[i] = event[t].id
    BY <1>1, <2>1 DEF Held
  <2>3. \A u \in Tasks : pc'[u] = "add_index" => cur'[u] # i
    BY <1>1, <1>2 DEF HasFilter, Others
  <2> QED
    BY <1>1, <1>2, <2>2, <2>3 DEF HasFilter, InGroup
<1>6. DistLocals(t)'
  <2>1. \A u \in Tasks : pc'[u] = "add_group" => pc[u] = "add_group" /\ cur'[u] = cur[u]
    BY <1>1, <1>2 DEF Others
  <2>2. pc'[t] = "mark_filter" => tracked'[cur'[t]] # None /\ tracked'[cur'[t]].parent = key'[t]
    BY <1>1, <1>2, <1>3
  <2> QED
    BY <1>0, <1>1, <1>3, <2>1, <2>2 DEF DistLocals
<1>7. CheckedDone(t, D)'
  BY <1>0, <1>1, <1>2, <1>3 DEF CheckedDone, InGroup, HasGroup
<1> QED
  BY <1>2, <1>3, <1>4, <1>5, <1>6, <1>7, QuietStep

(* A filter is marked once its subscription is in checked_groups.           *)
LEMMA MarkFilterDelivery ==
    ASSUME OverlapInv, NEW O, NEW D, DeliveryInv(O, D), NEW t \in Tasks, MarkFilter(t)
    PROVE  DeliveryInv(O, D)'
<1>0. /\ pc \in [Tasks -> PCs] /\ checked \in [Tasks -> SUBSET Keys] /\ cur[t] \in FilterIds
      /\ cur \in [Tasks -> FilterIds \cup {None}] /\ key \in [Tasks -> Keys \cup {None}]
      /\ filterSeen \in [FilterIds -> EventIds \cup {None}]
      /\ LocalsOf(t) /\ DistLocals(t) /\ CheckedDone(t, D) /\ Unmarked /\ GroupMarks(D) /\ FilterMarks(D)
      /\ \A i \in FilterIds : i # None
  BY IndexAssumption DEF OverlapInv, BasicInv, CallInv, TypeOK, LocalsInv, LocalsOf, DeliveryInv, MarkFilter, FilterIds
<1>1. /\ pc[t] = "mark_filter" /\ event'[t] = event[t] /\ scope'[t] = scope[t] /\ ids'[t] = ids[t]
      /\ checked'[t] = checked[t] \cup {key[t]}
      /\ filterSeen' = [filterSeen EXCEPT ![cur[t]] = event[t].id]
      /\ \/ key[t] \in checked[t] /\ pc'[t] = "check"
         \/ key[t] \notin checked[t] /\ pc'[t] = "group_get" /\ key'[t] = key[t]
  BY <1>0 DEF MarkFilter
<1>2. Others(t) /\ UNCHANGED <<tracked, groupFilters, groupSeen, filter_groups, nextGroup>>
  BY <1>0 DEF MarkFilter, Others
<1>3. /\ AddsNone(t) /\ Held(t) = ids[t] \cup {cur[t]} /\ Held(t)' = ids[t]
      /\ Distributing(t)' /\ Distributing(t) /\ \A k : ~HasGroup(t, k)
      /\ event[t] # None /\ tracked[cur[t]] # None /\ tracked[cur[t]].parent = key[t]
      /\ \A u \in Tasks : pc[u] = "add_group" => cur[u] # cur[t]
  <2>1. Held(t) = ids[t] \cup {cur[t]}
    BY <1>1 DEF Held
  <2> QED
    BY <1>0, <1>1, <2>1, IndexAssumption DEF AddsNone, Held, Distributing, HasGroup, DistLocals, LocalsOf
<1>4. KeepsGroup(t, D)
  BY <1>3 DEF KeepsGroup
<1>5. KeepsFilter(t, D)
  <2> SUFFICES ASSUME NEW k \in Keys, NEW i \in FilterIds, HasFilter(t, k, i)
               PROVE  HasFilter(t, k, i)' \/ filterSeen'[i] = event[t].id
    BY <1>1, <1>3 DEF KeepsFilter
  <2>1. i \in Held(t)' \/ filterSeen'[i] = event[t].id
    BY <1>0, <1>1, <1>3 DEF HasFilter, StillFound
  <2>2. \A u \in Tasks : pc'[u] = "add_index" => cur'[u] # i
    BY <1>1, <1>2 DEF HasFilter, Others
  <2> QED
    BY <1>1, <1>2, <2>1, <2>2 DEF HasFilter, InGroup
<1>6. DistLocals(t)'
  <2>1. \A u \in Tasks : pc'[u] = "add_group" => pc[u] = "add_group" /\ cur'[u] = cur[u]
    BY <1>1, <1>2 DEF Others
  <2> QED
    BY <1>0, <1>1, <1>3, <2>1 DEF DistLocals
<1>7. CheckedDone(t, D)'
  <2> SUFFICES ASSUME NEW k \in checked'[t], NEW id \in ids[t], InGroup(k, id)
               PROVE  HasGroup(t, k)' \/ <<k, event[t].id>> \in D
    BY <1>1, <1>2, <1>3 DEF CheckedDone, InGroup
  <2>1. CASE k \in checked[t]
    BY <1>0, <1>3, <2>1 DEF CheckedDone
  <2>2. CASE k \notin checked[t]
    BY <1>1, <2>2 DEF HasGroup
  <2> QED
    BY <2>1, <2>2
<1>8. Unmarked'
  <2>1. \A u \in Tasks : pc'[u] = "add_group" => pc[u] = "add_group" /\ cur'[u] = cur[u]
    BY <1>1, <1>2 DEF Others
  <2> QED
    BY <1>0, <1>1, <1>2, <1>3, <2>1 DEF Unmarked
<1>9. GroupMarks(D)'
  BY <1>0, <1>2 DEF GroupMarks
<1>10. FilterMarks(D)'
  <2> SUFFICES ASSUME NEW k \in Keys, NEW id \in FilterIds, InGroup(k, id), filterSeen'[id] # None
               PROVE  \/ <<k, filterSeen'[id]>> \in D
                      \/ \E u \in Tasks : /\ event'[u] # None /\ event'[u].id = filterSeen'[id]
                                          /\ HasGroup(u, k)'
    BY <1>2 DEF FilterMarks, InGroup
  <2>1. CASE id = cur[t]
    <3>1. k = key[t] /\ filterSeen'[id] = event[t].id
      BY <1>0, <1>1, <1>3, <2>1, InGroupFilter
    <3>2. CASE key[t] \in checked[t]
      BY <1>0, <1>3, <2>1, <3>1, <3>2 DEF CheckedDone
    <3>3. CASE key[t] \notin checked[t]
      BY <1>1, <1>3, <3>1, <3>3 DEF HasGroup
    <3> QED
      BY <3>2, <3>3
  <2>2. CASE id # cur[t]
    <3>1. filterSeen'[id] = filterSeen[id]
      BY <1>0, <1>1, <2>2
    <3>2. ASSUME NEW u \in Tasks, event[u] # None, event[u].id = filterSeen[id], HasGroup(u, k)
          PROVE  event'[u] # None /\ event'[u].id = filterSeen'[id] /\ HasGroup(u, k)'
      <4>1. u # t
        BY <1>3, <3>2
      <4> QED
        BY <1>2, <3>1, <3>2, <4>1, OthersStay DEF Others
    <3> QED
      BY <1>0, <3>1, <3>2 DEF FilterMarks
  <2> QED
    BY <2>1, <2>2
<1> QED
  BY <1>2, <1>3, <1>4, <1>5, <1>6, <1>7, <1>8, <1>9, <1>10, StepKeeps

(* The live group is fetched, if there is one. *)
LEMMA GetGroupDelivery ==
    ASSUME OverlapInv, NEW O, NEW D, DeliveryInv(O, D), NEW t \in Tasks, GetGroup(t)
    PROVE  DeliveryInv(O, D)'
<1>0. /\ pc \in [Tasks -> PCs] /\ grp \in [Tasks -> GroupIds \cup {None}]
      /\ key \in [Tasks -> Keys \cup {None}] /\ filter_groups \in [Keys -> GroupIds \cup {None}]
      /\ LocalsOf(t) /\ DistLocals(t) /\ CheckedDone(t, D) /\ AllocInv /\ GroupOwner
  BY DEF OverlapInv, BasicInv, CallInv, TypeOK, LocalsInv, DeliveryInv
<1>1. /\ pc[t] = "group_get" /\ event'[t] = event[t] /\ scope'[t] = scope[t] /\ ids'[t] = ids[t]
      /\ checked'[t] = checked[t] /\ grp'[t] = filter_groups[key[t]] /\ key[t] \in Keys
      /\ \/ filter_groups[key[t]] # None /\ pc'[t] = "group_seen" /\ key'[t] = key[t]
         \/ filter_groups[key[t]] = None /\ pc'[t] = "check"
  BY <1>0 DEF GetGroup, LocalsOf
<1>2. Others(t) /\ UNCHANGED <<tracked, filterSeen, groupFilters, groupSeen, filter_groups, nextGroup>>
  BY <1>0 DEF GetGroup, indexVars, Others
<1>3. AddsNone(t) /\ Held(t)' = Held(t) /\ Distributing(t)' /\ Distributing(t)
  BY <1>1 DEF AddsNone, Held, Distributing
<1>4. \A k \in Keys : filter_groups[k] # None /\ HasGroup(t, k) => HasGroup(t, k)'
  BY <1>1, <1>2 DEF HasGroup
<1>5. KeepsGroup(t, D)
  BY <1>1, <1>4 DEF KeepsGroup
<1>6. KeepsFilter(t, D)
  <2> SUFFICES ASSUME NEW k \in Keys, NEW i \in FilterIds, HasFilter(t, k, i)
               PROVE  HasFilter(t, k, i)'
    BY <1>1, <1>3 DEF KeepsFilter
  <2>1. i \in Held(t)'
    BY <1>1, <1>3 DEF HasFilter, StillFound
  <2>2. \A u \in Tasks : pc'[u] = "add_index" => cur'[u] # i
    BY <1>1, <1>2 DEF HasFilter, Others
  <2> QED
    BY <1>1, <1>2, <2>1, <2>2 DEF HasFilter, InGroup
<1>7. DistLocals(t)'
  <2>1. \A u \in Tasks : pc'[u] = "add_group" => pc[u] = "add_group" /\ cur'[u] = cur[u]
    BY <1>1, <1>2 DEF Others
  <2>2. pc'[t] = "group_seen" =>
          grp'[t] < nextGroup /\ \A k \in Keys : filter_groups[k] = grp'[t] => k = key'[t]
    BY <1>0, <1>1 DEF AllocInv, GroupOwner
  <2> QED
    BY <1>0, <1>1, <1>2, <1>3, <2>1, <2>2 DEF DistLocals
<1>8. CheckedDone(t, D)'
  <2> SUFFICES ASSUME NEW k \in checked[t], NEW id \in Held(t), InGroup(k, id)
               PROVE  HasGroup(t, k)' \/ <<k, event[t].id>> \in D
    BY <1>1, <1>2, <1>3 DEF CheckedDone, InGroup
  <2>1. k \in Keys
    BY DEF OverlapInv, BasicInv, CallInv, TypeOK
  <2> QED
    BY <1>0, <1>3, <1>4, <2>1 DEF CheckedDone, InGroup
<1> QED
  BY <1>2, <1>3, <1>5, <1>6, <1>7, <1>8, QuietStep

(* A group that has seen the event has been given it. *)
LEMMA GroupSeenDelivery ==
    ASSUME OverlapInv, NEW O, NEW D, DeliveryInv(O, D), NEW t \in Tasks, GroupSeen(t)
    PROVE  DeliveryInv(O, D)'
<1>0. /\ pc \in [Tasks -> PCs] /\ grp \in [Tasks -> GroupIds \cup {None}]
      /\ key \in [Tasks -> Keys \cup {None}]
      /\ LocalsOf(t) /\ DistLocals(t) /\ CheckedDone(t, D) /\ GroupMarks(D)
  BY DEF OverlapInv, BasicInv, CallInv, TypeOK, LocalsInv, DeliveryInv
<1>1. /\ pc[t] = "group_seen" /\ event'[t] = event[t] /\ scope'[t] = scope[t] /\ ids'[t] = ids[t]
      /\ checked'[t] = checked[t]
      /\ \/ groupSeen[grp[t]] = event[t].id /\ pc'[t] = "check"
         \/ pc'[t] = "group_mark" /\ key'[t] = key[t] /\ grp'[t] = grp[t]
  BY <1>0 DEF GroupSeen
<1>2. Others(t) /\ UNCHANGED <<tracked, filterSeen, groupFilters, groupSeen, filter_groups, nextGroup>>
  BY <1>0 DEF GroupSeen, indexVars, Others
<1>3. AddsNone(t) /\ Held(t)' = Held(t) /\ Distributing(t)' /\ Distributing(t)
  BY <1>1 DEF AddsNone, Held, Distributing
<1>4. ASSUME NEW k \in Keys, filter_groups[k] # None, HasGroup(t, k)
      PROVE  HasGroup(t, k)' \/ <<k, event[t].id>> \in D
  <2>1. event[t].id # None
    BY <1>0, <1>3, IndexAssumption DEF LocalsOf, Event
  <2>2. CASE groupSeen[grp[t]] = event[t].id
    BY <1>0, <1>1, <1>4, <2>1, <2>2 DEF GroupMarks, HasGroup
  <2>3. CASE pc'[t] = "group_mark" /\ key'[t] = key[t] /\ grp'[t] = grp[t]
    BY <1>1, <1>2, <1>4, <2>3 DEF HasGroup
  <2> QED
    BY <1>1, <2>2, <2>3
<1>5. KeepsGroup(t, D)
  BY <1>1, <1>4 DEF KeepsGroup
<1>6. KeepsFilter(t, D)
  <2> SUFFICES ASSUME NEW k \in Keys, NEW i \in FilterIds, HasFilter(t, k, i)
               PROVE  HasFilter(t, k, i)'
    BY <1>1, <1>3 DEF KeepsFilter
  <2>1. i \in Held(t)'
    BY <1>1, <1>3 DEF HasFilter, StillFound
  <2>2. \A u \in Tasks : pc'[u] = "add_index" => cur'[u] # i
    BY <1>1, <1>2 DEF HasFilter, Others
  <2> QED
    BY <1>1, <1>2, <2>1, <2>2 DEF HasFilter, InGroup
<1>7. DistLocals(t)'
  <2>1. \A u \in Tasks : pc'[u] = "add_group" => pc[u] = "add_group" /\ cur'[u] = cur[u]
    BY <1>1, <1>2 DEF Others
  <2> QED
    BY <1>0, <1>1, <1>2, <1>3, <2>1 DEF DistLocals
<1>8. CheckedDone(t, D)'
  <2> SUFFICES ASSUME NEW k \in checked[t], NEW id \in Held(t), InGroup(k, id)
               PROVE  HasGroup(t, k)' \/ <<k, event[t].id>> \in D
    BY <1>1, <1>2, <1>3 DEF CheckedDone, InGroup
  <2>1. k \in Keys
    BY DEF OverlapInv, BasicInv, CallInv, TypeOK
  <2> QED
    BY <1>0, <1>3, <1>4, <2>1 DEF CheckedDone, InGroup
<1> QED
  BY <1>2, <1>3, <1>5, <1>6, <1>7, <1>8, QuietStep

(* The group is marked and the subscription given the event.                *)
LEMMA GroupMarkDelivery ==
    ASSUME OverlapInv, NEW O, NEW D, NEW D2, DeliveryInv(O, D), NEW t \in Tasks, GroupMark(t), D \subseteq D2,
           filter_groups[key[t]] = grp[t] => <<key[t], event[t].id>> \in D2
    PROVE  DeliveryInv(O, D2)'
<1>0. /\ pc \in [Tasks -> PCs] /\ grp \in [Tasks -> GroupIds \cup {None}]
      /\ key \in [Tasks -> Keys \cup {None}] /\ groupSeen \in [GroupIds -> EventIds \cup {None}]
      /\ LocalsOf(t) /\ DistLocals(t) /\ CheckedDone(t, D) /\ GroupMarks(D) /\ Unmarked /\ FilterMarks(D)
      /\ nextGroup \in Nat /\ GroupIds \subseteq Nat /\ filter_groups \in [Keys -> GroupIds \cup {None}]
  BY IndexAssumption DEF OverlapInv, BasicInv, CallInv, TypeOK, LocalsInv, DeliveryInv, GroupIds
<1>1. /\ pc[t] = "group_mark" /\ event'[t] = event[t] /\ scope'[t] = scope[t] /\ ids'[t] = ids[t]
      /\ checked'[t] = checked[t] /\ pc'[t] = "check" /\ grp[t] \in GroupIds /\ grp[t] < nextGroup
      /\ \A k \in Keys : filter_groups[k] = grp[t] => k = key[t]
      /\ groupSeen' = [groupSeen EXCEPT ![grp[t]] = event[t].id]
      /\ D \subseteq D2
  BY <1>0 DEF GroupMark, Goto, LocalsOf, DistLocals
<1>2. Others(t) /\ UNCHANGED <<tracked, filterSeen, groupFilters, filter_groups, nextGroup>>
  BY <1>0 DEF GroupMark, Goto, Others
<1>3. AddsNone(t) /\ Held(t)' = Held(t) /\ Distributing(t)' /\ Distributing(t)
  BY <1>1 DEF AddsNone, Held, Distributing
<1>4. \A k \in Keys : filter_groups[k] # None /\ HasGroup(t, k) => <<k, event[t].id>> \in D2
  BY <1>1 DEF HasGroup
<1>5. KeepsGroup(t, D2)
  BY <1>1, <1>4 DEF KeepsGroup
<1>6. KeepsFilter(t, D2)
  <2> SUFFICES ASSUME NEW k \in Keys, NEW i \in FilterIds, HasFilter(t, k, i)
               PROVE  HasFilter(t, k, i)'
    BY <1>1, <1>3 DEF KeepsFilter
  <2>1. i \in Held(t)'
    BY <1>1, <1>3 DEF HasFilter, StillFound
  <2>2. \A u \in Tasks : pc'[u] = "add_index" => cur'[u] # i
    BY <1>1, <1>2 DEF HasFilter, Others
  <2> QED
    BY <1>1, <1>2, <2>1, <2>2 DEF HasFilter, InGroup
<1>7. \A u \in Tasks : pc'[u] = "add_group" => pc[u] = "add_group" /\ cur'[u] = cur[u]
  BY <1>1, <1>2 DEF Others
<1>8. DistLocals(t)'
  BY <1>0, <1>1, <1>2, <1>3, <1>7 DEF DistLocals
<1>9. CheckedDone(t, D2)'
  <2> SUFFICES ASSUME NEW k \in checked[t], NEW id \in Held(t), InGroup(k, id)
               PROVE  <<k, event[t].id>> \in D2
    BY <1>1, <1>2, <1>3 DEF CheckedDone, InGroup
  <2>1. k \in Keys
    BY DEF OverlapInv, BasicInv, CallInv, TypeOK
  <2> QED
    BY <1>0, <1>1, <1>3, <1>4, <2>1 DEF CheckedDone, InGroup
<1>10. Unmarked'
  BY <1>0, <1>2, <1>7 DEF Unmarked
<1>11. GroupMarks(D2)'
  <2>1. ASSUME NEW g \in GroupIds, g >= nextGroup PROVE groupSeen'[g] = None
    <3>1. g # grp[t]
      BY <1>0, <1>1, <2>1
    <3> QED
      BY <1>0, <1>1, <2>1, <3>1 DEF GroupMarks
  <2>2. ASSUME NEW k \in Keys, filter_groups[k] # None, groupSeen'[filter_groups[k]] # None
        PROVE  <<k, groupSeen'[filter_groups[k]]>> \in D2
    <3>1. CASE filter_groups[k] = grp[t]
      BY <1>0, <1>1, <3>1
    <3>2. CASE filter_groups[k] # grp[t]
      BY <1>0, <1>1, <2>2, <3>2 DEF GroupMarks
    <3> QED
      BY <3>1, <3>2
  <2> QED
    BY <1>2, <2>1, <2>2 DEF GroupMarks
<1>12. FilterMarks(D2)'
  BY <1>0, <1>1, <1>2, <1>5, FilterMarksKept
<1> QED
  BY <1>1, <1>2, <1>3, <1>5, <1>6, <1>8, <1>9, <1>10, <1>11, <1>12, StepKeeps

(* The loop ends with no candidate left, and the call returns. *)
LEMMA EndDelivery ==
    ASSUME OverlapInv, NEW O, NEW D, DeliveryInv(O, D), NEW t \in Tasks, DistDone(t) \/ DistReturn(t)
    PROVE  DeliveryInv(O, D)'
<1>0. /\ pc \in [Tasks -> PCs] /\ checked \in [Tasks -> SUBSET Keys] /\ LocalsOf(t) /\ DistLocals(t)
      /\ event \in [Tasks -> Events \cup {None}] /\ scope \in [Tasks -> Scopes \cup {None}]
  BY DEF OverlapInv, BasicInv, CallInv, TypeOK, LocalsInv, DeliveryInv
<1>1. /\ pc[t] \in {"check", "dist_done"} /\ pc'[t] \in {"dist_done", "idle"} /\ ids'[t] = {}
      /\ ids[t] = {} /\ checked'[t] = {}
  BY <1>0 DEF DistDone, DistReturn, Goto, LocalsOf, DistLocals
<1>2. Others(t) /\ UNCHANGED <<tracked, filterSeen, groupFilters, groupSeen, filter_groups, nextGroup>>
  BY <1>0 DEF DistDone, DistReturn, Goto, indexVars, Others
<1>3. AddsNone(t) /\ Held(t) = {} /\ Held(t)' = {}
  BY <1>1 DEF AddsNone, Held
<1>4. KeepsGroup(t, D) /\ KeepsFilter(t, D)
  BY <1>1, <1>3 DEF KeepsGroup, KeepsFilter, HasGroup, HasFilter, StillFound
<1>5. DistLocals(t)' /\ CheckedDone(t, D)'
  BY <1>1, <1>3 DEF DistLocals, CheckedDone
<1> QED
  BY <1>2, <1>3, <1>4, <1>5, QuietStep

-----------------------------------------------------------------------------
(* add_subscription and remove_subscription where they neither allocate nor *)
(* link nor unlink.                                                         *)
LEMMA WriterDelivery ==
    ASSUME OverlapInv, NEW O, NEW D, DeliveryInv(O, D), NEW t \in Tasks,
           \/ AddToIndex(t) \/ AddReturn(t) \/ RemoveSnapshot(t) \/ RemoveFilter(t)
           \/ RemoveFromIndex(t) \/ RemoveReturn(t)
    PROVE  DeliveryInv(O, D)'
<1>0. /\ pc \in [Tasks -> PCs] /\ cur \in [Tasks -> FilterIds \cup {None}] /\ DistLocals(t)
      /\ ids \in [Tasks -> SUBSET FilterIds] /\ key \in [Tasks -> Keys \cup {None}]
      /\ grp \in [Tasks -> GroupIds \cup {None}]
  BY DEF OverlapInv, BasicInv, CallInv, TypeOK, DeliveryInv
<1>1. Others(t) /\ UNCHANGED <<tracked, filterSeen, groupFilters, groupSeen, filter_groups, nextGroup>>
  BY <1>0 DEF AddToIndex, AddReturn, RemoveSnapshot, RemoveFilter, RemoveFromIndex, RemoveReturn,
              Goto, indexVars, Others
<1>2. AddsNone(t) /\ ~Distributing(t) /\ ~Distributing(t)' /\ checked'[t] = checked[t]
  BY <1>0 DEF AddToIndex, AddReturn, RemoveSnapshot, RemoveFilter, RemoveFromIndex, RemoveReturn,
              Goto, AddsNone, Distributing
<1>3. KeepsGroup(t, D) /\ KeepsFilter(t, D)
  BY <1>2 DEF KeepsGroup, KeepsFilter, HasGroup, Distributing
<1>4. DistLocals(t)' /\ CheckedDone(t, D)'
  BY <1>0, <1>2 DEF DistLocals, CheckedDone, Distributing
<1> QED
  BY <1>1, <1>2, <1>3, <1>4, QuietStep

(***************************************************************************)
(* add_subscription and remove_subscription where they do.  A live group   *)
(* is the one it was and loses no filter, or is new and empty; a filter    *)
(* that joins a group has no mark and is no candidate.                     *)
(***************************************************************************)
SameGroup(t, k, D, D2) ==
    /\ filter_groups'[k] = filter_groups[k]
    /\ \A id : InGroup(k, id) =>
          /\ InGroup(k, id)'
          /\ pc'[t] = "add_index" => cur'[t] # id \/ (pc[t] = "add_index" /\ cur[t] = id)
    /\ \A eid : <<k, eid>> \in D => <<k, eid>> \in D2

NewGroup(k) ==
    /\ filter_groups[k] = None /\ filter_groups'[k] = nextGroup
    /\ nextGroup \in GroupIds /\ nextGroup' = nextGroup + 1
    /\ groupFilters'[nextGroup] = {}

Joins(id) ==
    filterSeen[id] = None /\ \A u \in Tasks : Distributing(u) => id \notin Held(u)

LEMMA LinkKeeps ==
    ASSUME OverlapInv, NEW O, NEW D, NEW O2, NEW D2, DeliveryInv(O, D), NEW t \in Tasks, Others(t),
           ~Distributing(t), ~Distributing(t)', checked'[t] = checked[t],
           UNCHANGED <<groupSeen, filterSeen>>, O2 \subseteq O,
           nextGroup' \in Nat, nextGroup <= nextGroup',
           \A r \in O2 : filter_groups'[r[1]] # None,
           \A id \in FilterIds : tracked[id] # None => tracked'[id] = tracked[id],
           \A k \in Keys : filter_groups'[k] # None => SameGroup(t, k, D, D2) \/ NewGroup(k),
           \A k \in Keys, id \in FilterIds : InGroup(k, id)' => InGroup(k, id) \/ Joins(id),
           pc'[t] = "add_group" => Joins(cur'[t])
    PROVE  DeliveryInv(O2, D2)'
<1>0. /\ OwedLive(O) /\ GroupMarks(D) /\ Unmarked /\ FilterMarks(D) /\ Carried(O, D)
      /\ \A u \in Tasks : DistLocals(u) /\ CheckedDone(u, D) /\ LocalsOf(u)
      /\ nextGroup \in Nat /\ GroupIds \subseteq Nat
      /\ filter_groups \in [Keys -> GroupIds \cup {None}]
      /\ ids \in [Tasks -> SUBSET FilterIds]
  BY IndexAssumption DEF DeliveryInv, OverlapInv, BasicInv, CallInv, LocalsInv, TypeOK, GroupIds
<1>1. OwedLive(O2)'
  BY <1>0 DEF OwedLive
<1>2. \A u \in Tasks : pc'[u] = "add_group" =>
         (u # t /\ pc[u] = "add_group" /\ cur'[u] = cur[u]) \/ Joins(cur'[u])
  BY DEF Others
<1>3. \A k \in Keys, u \in Tasks : SameGroup(t, k, D, D2) => (HasGroup(u, k)' => HasGroup(u, k))
         /\ (HasGroup(u, k) => HasGroup(u, k)')
  <2> SUFFICES ASSUME NEW k \in Keys, NEW u \in Tasks, SameGroup(t, k, D, D2)
               PROVE  HasGroup(u, k)' <=> HasGroup(u, k)
    OBVIOUS
  <2>1. CASE u = t
    BY <2>1 DEF HasGroup, Distributing
  <2>2. CASE u # t
    BY <2>2, OthersStay DEF SameGroup
  <2> QED
    BY <2>1, <2>2
<1>4. \A k \in Keys : \A id : InGroup(k, id)' => SameGroup(t, k, D, D2)
  BY <1>0 DEF InGroup, NewGroup
<1>5. GroupMarks(D2)'
  <2>1. ASSUME NEW g \in GroupIds, g >= nextGroup' PROVE groupSeen[g] = None
    <3>1. g >= nextGroup
      BY <1>0, <2>1
    <3> QED
      BY <1>0, <3>1 DEF GroupMarks
  <2>2. ASSUME NEW k \in Keys, filter_groups'[k] # None, groupSeen[filter_groups'[k]] # None
        PROVE  <<k, groupSeen[filter_groups'[k]]>> \in D2
    <3>1. SameGroup(t, k, D, D2)
      BY <1>0, <2>2 DEF NewGroup, GroupMarks
    <3> QED
      BY <1>0, <2>2, <3>1 DEF SameGroup, GroupMarks
  <2> QED
    BY <2>1, <2>2 DEF GroupMarks
<1>6. Unmarked'
  BY <1>0, <1>2 DEF Unmarked, Joins
<1>7. FilterMarks(D2)'
  <2> SUFFICES ASSUME NEW k \in Keys, NEW id \in FilterIds, InGroup(k, id)', filterSeen[id] # None
               PROVE  \/ <<k, filterSeen[id]>> \in D2
                      \/ \E u \in Tasks : /\ event'[u] # None /\ event'[u].id = filterSeen[id]
                                          /\ HasGroup(u, k)'
    BY DEF FilterMarks
  <2>1. InGroup(k, id) /\ SameGroup(t, k, D, D2)
    BY <1>4 DEF Joins
  <2>2. CASE <<k, filterSeen[id]>> \in D
    BY <2>1, <2>2 DEF SameGroup
  <2>3. ASSUME NEW u \in Tasks, event[u] # None, event[u].id = filterSeen[id], HasGroup(u, k)
        PROVE  event'[u] # None /\ event'[u].id = filterSeen[id] /\ HasGroup(u, k)'
    <3>1. u # t
      BY <2>3 DEF HasGroup, Distributing
    <3> QED
      BY <1>3, <2>1, <2>3, <3>1 DEF Others
  <2> QED
    BY <1>0, <2>1, <2>2, <2>3 DEF FilterMarks
<1>8. ASSUME NEW u \in Tasks PROVE DistLocals(u)' /\ CheckedDone(u, D2)'
  <2>1. CASE u = t
    BY <1>0, <2>1 DEF DistLocals, CheckedDone, Distributing
  <2>2. CASE u # t
    <3>1. /\ pc'[u] = pc[u] /\ key'[u] = key[u] /\ grp'[u] = grp[u] /\ cur'[u] = cur[u]
          /\ event'[u] = event[u] /\ checked'[u] = checked[u]
          /\ Held(u)' = Held(u) /\ (Distributing(u)' <=> Distributing(u))
      BY <2>2, OthersStay DEF Others
    <3>2. ASSUME pc[u] \in {"group_seen", "group_mark"}
          PROVE  grp[u] < nextGroup' /\ \A k \in Keys : filter_groups'[k] = grp[u] => k = key[u]
      <4>1. LocalsOf(u) /\ DistLocals(u)
        BY <1>0
      <4>2. /\ grp[u] \in GroupIds /\ grp[u] < nextGroup
            /\ \A k \in Keys : filter_groups[k] = grp[u] => k = key[u]
        BY <3>2, <4>1 DEF LocalsOf, DistLocals
      <4>3. grp[u] \in Nat /\ grp[u] # nextGroup /\ grp[u] # None /\ grp[u] < nextGroup'
        <5>1. \A m, n, l \in Nat : m < n /\ n <= l => m # n /\ m < l
          OBVIOUS
        <5>2. grp[u] \in Nat /\ nextGroup \in Nat /\ grp[u] # None
          BY <1>0, <4>2, IndexAssumption
        <5> QED
          BY <4>2, <5>1, <5>2
      <4>4. ASSUME NEW k \in Keys, filter_groups'[k] = grp[u] PROVE k = key[u]
        <5>1. SameGroup(t, k, D, D2)
          BY <4>3, <4>4 DEF NewGroup
        <5> QED
          BY <4>2, <4>4, <5>1 DEF SameGroup
      <4> QED
        BY <4>3, <4>4
    <3>3. pc[u] = "mark_filter" => tracked'[cur[u]] # None /\ tracked'[cur[u]].parent = key[u]
      BY <1>0 DEF LocalsOf, DistLocals
    <3>4. Distributing(u) => \A v \in Tasks : pc'[v] = "add_group" => cur'[v] \notin Held(u)
      BY <1>0, <1>2 DEF DistLocals, Joins
    <3>5. DistLocals(u)'
      BY <1>0, <3>1, <3>2, <3>3, <3>4 DEF DistLocals
    <3>6. CheckedDone(u, D2)'
      <4> SUFFICES ASSUME Distributing(u), NEW k \in checked[u], NEW id \in Held(u), InGroup(k, id)'
                   PROVE  HasGroup(u, k)' \/ <<k, event[u].id>> \in D2
        BY <3>1 DEF CheckedDone
      <4>1. k \in Keys /\ id \in FilterIds
        BY <1>0 DEF OverlapInv, BasicInv, CallInv, TypeOK, Held, LocalsOf
      <4>2. InGroup(k, id) /\ SameGroup(t, k, D, D2)
        BY <1>4, <4>1 DEF Joins
      <4> QED
        BY <1>0, <1>3, <4>1, <4>2 DEF CheckedDone, SameGroup
    <3> QED
      BY <3>5, <3>6
  <2> QED
    BY <2>1, <2>2
<1>9. Carried(O2, D2)'
  <2> SUFFICES ASSUME NEW r \in O2, r \notin D2
               PROVE  \E u \in Tasks : event'[u] # None /\ event'[u].id = r[2] /\ Carries(u, r[1])'
    BY DEF Carried
  <2>1. r[1] \in Keys /\ r = <<r[1], r[2]>> /\ filter_groups[r[1]] # None
    BY <1>0 DEF OwedLive
  <2>2. SameGroup(t, r[1], D, D2) /\ r \notin D
    BY <2>1 DEF NewGroup, SameGroup
  <2>3. PICK u \in Tasks : event[u] # None /\ event[u].id = r[2] /\ Carries(u, r[1])
    BY <1>0, <2>2 DEF Carried
  <2>4. u # t
    BY <2>3 DEF Carries
  <2>5. \A id : InGroup(r[1], id) => tracked'[id] = tracked[id]
    BY <2>1, InGroupFilter
  <2>6. Carries(u, r[1])'
    BY <2>1, <2>2, <2>3, <2>4, <2>5, OthersCarry DEF SameGroup
  <2> QED
    BY <2>3, <2>4, <2>6 DEF Others
<1> QED
  BY <1>1, <1>5, <1>6, <1>7, <1>8, <1>9 DEF DeliveryInv

(* A filter is allocated; it has no mark and is no candidate yet. *)
LEMMA AddFilterDelivery ==
    ASSUME OverlapInv, NEW O, NEW D, DeliveryInv(O, D), NEW t \in Tasks, AddFilter(t)
    PROVE  DeliveryInv(O, D)'
<1> PICK new : new = next_filter_id
  OBVIOUS
<1>0. /\ pc \in [Tasks -> PCs] /\ cur \in [Tasks -> FilterIds \cup {None}] /\ LocalsInv
      /\ nextGroup \in Nat /\ Unmarked /\ OwedLive(O) /\ \A u \in Tasks : DistLocals(u)
      /\ tracked \in [FilterIds -> [filter : Filter, parent : Keys] \cup {None}]
      /\ new \in FilterIds /\ tracked[new] = None
  BY IndexAssumption DEF OverlapInv, BasicInv, CallInv, TypeOK, DeliveryInv, AddFilter, FilterIds, AllocInv
<1>1. Others(t) /\ UNCHANGED <<groupSeen, filterSeen, groupFilters, filter_groups, nextGroup>>
  BY <1>0 DEF AddFilter, Goto, Others
<1>2. /\ pc[t] = "add_filter" /\ pc'[t] = "add_group" /\ cur'[t] = new /\ checked' = checked
      /\ \A id \in FilterIds : tracked[id] # None => tracked'[id] = tracked[id]
  BY <1>0 DEF AddFilter, Goto
<1>3. \A k \in Keys : SameGroup(t, k, D, D)
  BY <1>1, <1>2 DEF SameGroup, InGroup
<1>4. Joins(new)
  <2>1. filterSeen[new] = None
    BY <1>0 DEF Unmarked
  <2>2. ASSUME NEW u \in Tasks, Distributing(u), new \in Held(u) PROVE FALSE
    BY <1>0, <2>2 DEF LocalsInv, LocalsOf, Held, DistLocals
  <2> QED
    BY <2>1, <2>2 DEF Joins
<1>5. \A k \in Keys : \A id : InGroup(k, id)' => InGroup(k, id)
  BY <1>1 DEF InGroup
<1>6. ~Distributing(t) /\ ~Distributing(t)' /\ nextGroup <= nextGroup'
  BY <1>0, <1>1, <1>2 DEF Distributing
<1>7. \A r \in O : filter_groups'[r[1]] # None
  BY <1>0, <1>1 DEF OwedLive
<1> QED
  BY <1>0, <1>1, <1>2, <1>3, <1>4, <1>5, <1>6, <1>7, LinkKeeps

(* It joins its group without a mark, before anyone can find it. *)
LEMMA AddToGroupDelivery ==
    ASSUME OverlapInv, NEW O, NEW D, DeliveryInv(O, D), NEW t \in Tasks, AddToGroup(t)
    PROVE  DeliveryInv(O, D)'
<1>0. /\ pc \in [Tasks -> PCs] /\ nextGroup \in Nat /\ Unmarked /\ OwedLive(O) /\ FreshFilters
      /\ \A u \in Tasks : DistLocals(u)
      /\ WriterOf(t) /\ cur[t] \in FilterIds /\ LocalsOf(t)
      /\ groupFilters \in [GroupIds -> SUBSET FilterIds]
      /\ filter_groups \in [Keys -> GroupIds \cup {None}]
  BY IndexAssumption DEF OverlapInv, BasicInv, CallInv, TypeOK, DeliveryInv, WriterOf, LocalsInv, AddToGroup, Goto
<1>1. Others(t) /\ UNCHANGED <<groupSeen, filterSeen, tracked, filter_groups, nextGroup>>
  BY <1>0 DEF AddToGroup, Goto, Others
<1>2. /\ pc[t] = "add_group" /\ pc'[t] = "add_index" /\ cur'[t] = cur[t] /\ checked' = checked
      /\ grp[t] \in GroupIds
      /\ groupFilters' = [groupFilters EXCEPT ![grp[t]] = @ \cup {cur[t]}]
  BY <1>0 DEF AddToGroup, Goto, WriterOf, Linked, Adding
<1>3. \A k \in Keys : SameGroup(t, k, D, D)
  <2> SUFFICES ASSUME NEW k \in Keys, NEW id, InGroup(k, id) PROVE InGroup(k, id)' /\ cur[t] # id
    BY <1>1, <1>2 DEF SameGroup
  <2>1. filter_groups[k] \in GroupIds
    BY <1>0 DEF InGroup
  <2>2. cur[t] # id
    BY <1>2, InGroupFilter
  <2> QED
    BY <1>0, <1>1, <1>2, <2>1, <2>2 DEF InGroup
<1>4. Joins(cur[t])
  BY <1>0, <1>2 DEF Unmarked, Joins, DistLocals
<1>5. ASSUME NEW k \in Keys, NEW id, InGroup(k, id)' PROVE InGroup(k, id) \/ Joins(id)
  <2>1. filter_groups[k] # None /\ id \in groupFilters'[filter_groups[k]]
    BY <1>1, <1>5 DEF InGroup
  <2>2. filter_groups[k] \in GroupIds
    BY <1>0, <2>1
  <2>3. id \in groupFilters[filter_groups[k]] \/ id = cur[t]
    BY <1>0, <1>2, <2>1, <2>2
  <2> QED
    BY <1>4, <2>1, <2>3 DEF InGroup
<1>6. ~Distributing(t) /\ ~Distributing(t)' /\ nextGroup <= nextGroup'
  BY <1>0, <1>1, <1>2 DEF Distributing
<1>7. \A r \in O : filter_groups'[r[1]] # None
  BY <1>0, <1>1 DEF OwedLive
<1> QED
  BY <1>0, <1>1, <1>2, <1>3, <1>5, <1>6, <1>7, LinkKeeps

(* A new group is empty and has seen nothing. *)
LEMMA AddStartDelivery ==
    ASSUME OverlapInv, NEW O, NEW D, DeliveryInv(O, D), NEW t \in Tasks, NEW k \in Keys, NEW fs \in FilterLists,
           AddStart(t, k, fs)
    PROVE  DeliveryInv(O, D)'
<1>0. /\ pc \in [Tasks -> PCs] /\ nextGroup \in Nat /\ nextGroup >= 1 /\ OwedLive(O) /\ AllocInv
      /\ filter_groups \in [Keys -> GroupIds \cup {None}] /\ MaxGroups \in Nat
      /\ key \in [Tasks -> Keys \cup {None}] /\ grp \in [Tasks -> GroupIds \cup {None}]
  BY IndexAssumption DEF OverlapInv, BasicInv, CallInv, TypeOK, DeliveryInv
<1>1. Others(t) /\ UNCHANGED <<groupSeen, filterSeen, tracked, groupFilters>> /\ checked' = checked
  BY <1>0 DEF AddStart, Goto, Others
<1>2. pc[t] = "idle" /\ pc'[t] = "add_filter"
  BY <1>0 DEF AddStart, Goto
<1>3. ~Distributing(t) /\ ~Distributing(t)'
  BY <1>2 DEF Distributing
<1>4. CASE UNCHANGED <<filter_groups, nextGroup>>
  <2>1. \A l \in Keys : SameGroup(t, l, D, D)
    BY <1>1, <1>2, <1>4 DEF SameGroup, InGroup
  <2>2. \A l \in Keys : \A id : InGroup(l, id)' => InGroup(l, id)
    BY <1>1, <1>4 DEF InGroup
  <2>3. \A r \in O : filter_groups'[r[1]] # None
    BY <1>0, <1>4 DEF OwedLive
  <2>4. nextGroup' \in Nat /\ nextGroup <= nextGroup'
    BY <1>0, <1>4
  <2> QED
    BY <1>1, <1>2, <1>3, <2>1, <2>2, <2>3, <2>4, LinkKeeps
<1>5. CASE /\ filter_groups[k] = None /\ nextGroup <= MaxGroups /\ nextGroup' = nextGroup + 1
           /\ filter_groups' = [filter_groups EXCEPT ![k] = nextGroup]
  <2>0. nextGroup \in GroupIds /\ nextGroup' \in Nat /\ nextGroup <= nextGroup'
    BY <1>0, <1>5 DEF GroupIds
  <2>1. groupFilters'[nextGroup] = {}
    <3>1. nextGroup >= nextGroup
      BY <1>0
    <3> QED
      BY <1>0, <1>1, <2>0, <3>1 DEF AllocInv
  <2>2. NewGroup(k)
    BY <1>0, <1>5, <2>0, <2>1 DEF NewGroup
  <2>3. \A l \in Keys : l # k => SameGroup(t, l, D, D)
    BY <1>0, <1>1, <1>2, <1>5 DEF SameGroup, InGroup
  <2>4. ASSUME NEW l \in Keys, NEW id, InGroup(l, id)' PROVE InGroup(l, id)
    BY <1>0, <1>1, <1>5, <2>1, <2>4 DEF InGroup
  <2>5. \A r \in O : filter_groups'[r[1]] # None
    BY <1>0, <1>5, <2>0, IndexAssumption DEF OwedLive
  <2> QED
    BY <1>1, <1>2, <1>3, <2>0, <2>2, <2>3, <2>4, <2>5, LinkKeeps
<1> QED
  BY <1>4, <1>5 DEF AddStart

(* What is owed to a subscription is forgotten with it. *)
LEMMA RemoveStartDelivery ==
    ASSUME OverlapInv, NEW O, NEW D, NEW O2, NEW D2, DeliveryInv(O, D), NEW t \in Tasks, NEW k \in Keys, RemoveStart(t, k),
           O2 \subseteq O, \A r \in O2 : r[1] # k, \A r \in D : r[1] # k => r \in D2
    PROVE  DeliveryInv(O2, D2)'
<1>0. /\ pc \in [Tasks -> PCs] /\ nextGroup \in Nat /\ OwedLive(O)
      /\ filter_groups \in [Keys -> GroupIds \cup {None}]
  BY IndexAssumption DEF OverlapInv, BasicInv, CallInv, TypeOK, DeliveryInv
<1>1. /\ Others(t) /\ UNCHANGED <<groupSeen, filterSeen, tracked, groupFilters, nextGroup>>
      /\ checked' = checked
  BY <1>0 DEF RemoveStart, Others
<1>2. /\ pc[t] = "idle" /\ pc'[t] \in {"rm_filter", "rm_snapshot"}
      /\ filter_groups' = [filter_groups EXCEPT ![k] = None]
  BY <1>0 DEF RemoveStart
<1>3. ~Distributing(t) /\ ~Distributing(t)' /\ nextGroup <= nextGroup'
  BY <1>0, <1>1, <1>2 DEF Distributing
<1>4. \A l \in Keys : filter_groups'[l] # None => SameGroup(t, l, D, D2)
  BY <1>0, <1>1, <1>2 DEF SameGroup, InGroup
<1>5. \A l \in Keys : \A id : InGroup(l, id)' => InGroup(l, id)
  BY <1>0, <1>1, <1>2 DEF InGroup
<1>6. O2 \subseteq O /\ \A r \in O2 : filter_groups'[r[1]] # None
  BY <1>0, <1>2 DEF OwedLive
<1> QED
  BY <1>0, <1>1, <1>2, <1>3, <1>4, <1>5, <1>6, LinkKeeps

(* Less may be owed, and more delivered; nothing is kept of dead groups. *)
LEMMA DeliveryWeaken ==
    ASSUME OverlapInv, NEW O, NEW D, NEW O2, NEW D2, DeliveryInv(O, D), O2 \subseteq O,
           \A r \in D : filter_groups[r[1]] # None => r \in D2
    PROVE  DeliveryInv(O2, D2)
<1>1. OwedLive(O2)
  BY DEF DeliveryInv, OwedLive
<1>2. GroupMarks(D2) /\ Unmarked
  BY DEF DeliveryInv, GroupMarks
<1>3. FilterMarks(D2)
  BY DEF DeliveryInv, FilterMarks, InGroup
<1>4. Carried(O2, D2)
  BY DEF DeliveryInv, OwedLive, Carried
<1>5. \A t \in Tasks : DistLocals(t) /\ CheckedDone(t, D2)
  BY DEF DeliveryInv, CheckedDone, InGroup
<1> QED
  BY <1>1, <1>2, <1>3, <1>4, <1>5 DEF DeliveryInv

(* Initially there are no groups, and nothing can be owed. *)
LEMMA DeliveryInit == ASSUME Init, NEW D PROVE DeliveryInv({}, D)
<1>1. OwedLive({}) /\ GroupMarks(D) /\ Unmarked /\ FilterMarks(D) /\ Carried({}, D)
  BY DEF Init, OwedLive, GroupMarks, Unmarked, FilterMarks, Carried, InGroup
<1>2. \A t \in Tasks : DistLocals(t) /\ CheckedDone(t, D)
  BY DEF Init, DistLocals, CheckedDone, Distributing
<1> QED
  BY <1>1, <1>2 DEF DeliveryInv

(* A step inside a call; only mark_event_seen of a live group delivers. *)
LEMMA CallStepDelivery ==
    ASSUME OverlapInv, NEW O, NEW D, DeliveryInv(O, D), NEW t \in Tasks, CallStep(t),
           pc[t] = "group_mark" /\ filter_groups[key[t]] = grp[t] =>
              <<key[t], event[t].id>> \in D
    PROVE  DeliveryInv(O, D)'
<1>1. CASE GroupMark(t)
  <2>1. pc[t] = "group_mark"
    BY <1>1 DEF GroupMark, Goto
  <2> QED
    BY <1>1, <2>1, GroupMarkDelivery
<1> QED
  BY <1>1, AddFilterDelivery, AddToGroupDelivery, WriterDelivery, LookupDelivery,
     CheckDelivery, MarkFilterDelivery, GetGroupDelivery, GroupSeenDelivery, EndDelivery
  DEF CallStep, AddStep, RemoveStep, DistStep

(* The results of distributions, and what became of them, do not matter. *)
ButResults ==
    UNCHANGED <<indexVars, pc, key, todo, grp, cur, left, ids, event, scope, lookup, checked>>

LEMMA DeliveryStutter ==
    ASSUME NEW O, NEW D, DeliveryInv(O, D), ButResults
    PROVE  DeliveryInv(O, D)'
<1>1. /\ UNCHANGED <<tracked, filterSeen, groupFilters, groupSeen, filter_groups, nextGroup, entries>>
      /\ UNCHANGED <<pc, key, grp, cur, ids, event, scope, lookup, checked>>
  BY DEF ButResults, indexVars
<1>2. OwedLive(O)' /\ GroupMarks(D)' /\ Unmarked'
  BY <1>1 DEF DeliveryInv, OwedLive, GroupMarks, Unmarked
<1>3. /\ \A t \in Tasks : Held(t)' = Held(t) /\ (Distributing(t)' <=> Distributing(t))
      /\ \A k, id : InGroup(k, id)' <=> InGroup(k, id)
      /\ \A t \in Tasks : \A id : StillFound(t, id)' <=> StillFound(t, id)
  BY <1>1 DEF Held, Distributing, InGroup, StillFound
<1>4. \A t \in Tasks : \A k : HasGroup(t, k)' <=> HasGroup(t, k)
  BY <1>1, <1>3 DEF HasGroup
<1>5. \A t \in Tasks : \A k, id : HasFilter(t, k, id)' <=> HasFilter(t, k, id)
  BY <1>1, <1>3 DEF HasFilter
<1>6. FilterMarks(D)'
  BY <1>1, <1>3, <1>4 DEF DeliveryInv, FilterMarks
<1>7. Carried(O, D)'
  BY <1>1, <1>3, <1>4, <1>5 DEF DeliveryInv, Carried, Carries
<1>8. \A t \in Tasks : DistLocals(t)' /\ CheckedDone(t, D)'
  BY <1>1, <1>3, <1>4 DEF DeliveryInv, DistLocals, CheckedDone
<1> QED
  BY <1>2, <1>6, <1>7, <1>8 DEF DeliveryInv

(* Nor does the index depend on them. *)
LEMMA OverlapStutter ==
    ASSUME OverlapInv, ButResults, matching' \in [Tasks -> Seq(Keys)]
    PROVE  OverlapInv'
<1>1. /\ UNCHANGED <<tracked, filterSeen, all_filters, entries, next_filter_id,
                     groupFilters, groupSeen, filter_groups, nextGroup>>
      /\ UNCHANGED <<pc, key, todo, grp, cur, left, ids, event, scope, lookup, checked>>
  BY DEF ButResults, indexVars
<1>2. TypeOK'
  BY <1>1 DEF OverlapInv, BasicInv, CallInv, TypeOK
<1>3. AllocInv'
  BY <1>1 DEF OverlapInv, BasicInv, CallInv, AllocInv
<1>4. ASSUME NEW t \in Tasks PROVE LocalsOf(t)' /\ WriterOf(t)'
  BY <1>1 DEF OverlapInv, BasicInv, CallInv, LocalsInv, LocalsOf, WriterOf, Linked, Adding,
     Writing, Distributing
<1>5. GroupOwner'
  BY <1>1 DEF OverlapInv, BasicInv, GroupOwner, Linked, Adding
<1>6. FreshFilters'
  BY <1>1 DEF OverlapInv, BasicInv, FreshFilters, FiledUnder
<1>7. FiledInv'
  <2>1. \A t \in Tasks : RemovesDead(t)'
    BY <1>1 DEF OverlapInv, FiledInv, RemovesDead, Condemned, Dead
  <2>2. \A id : FiledUnder(id)' = FiledUnder(id) /\ Unfiled(id)' = Unfiled(id)
    BY <1>1 DEF FiledUnder, Unfiled
  <2>3. \A k, id : InGroup(k, id)' <=> InGroup(k, id)
    BY <1>1 DEF InGroup
  <2> QED
    BY <1>1, <2>1, <2>2, <2>3 DEF OverlapInv, FiledInv
<1> QED
  BY <1>2, <1>3, <1>4, <1>5, <1>6, <1>7 DEF OverlapInv, BasicInv, CallInv, LocalsInv

(* The calls of the index, with nothing said of who makes them. *)
LEMMA CallOverlap ==
    ASSUME OverlapInv, NEW t \in Tasks,
           \/ \E k \in Keys, fs \in FilterLists : AddStart(t, k, fs)
           \/ \E k \in Keys : RemoveStart(t, k)
           \/ \E e \in Events, s \in Scopes : DistStart(t, e, s)
           \/ CallStep(t) \/ DistReturn(t)
    PROVE  OverlapInv'
<1>1. BasicInv'
  BY AddStartBasic, RemoveStartBasic, BrowseBasic, CallStepBasic DEF OverlapInv
<1>2. FiledInv'
  BY AddStartFiled, RemoveStartFiled, BrowseFiled, CallStepFiled DEF OverlapInv
<1> QED
  BY <1>1, <1>2 DEF OverlapInv
=============================================================================
