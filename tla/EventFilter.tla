----------------------------- MODULE EventFilter -----------------------------
(***************************************************************************)
(* Nostr filters and events as the inverted index of                       *)
(* src/src/subscription_index.rs sees them: which bucket of which index a  *)
(* filter is filed under, which buckets an event is looked up in, and      *)
(* whether a filter accepts an event.                                      *)
(*                                                                         *)
(* Data abstraction.  Ids, keys and kinds are opaque values.  An absent    *)
(* `ids`, `authors` or `kinds` and an empty one behave alike both in       *)
(* choose_index_field (is_empty is tested) and in the matcher, so both are *)
(* the empty set here.  Tags keep the difference: a tag constraint with no *)
(* value accepts nothing, an absent one accepts everything.                *)
(***************************************************************************)
EXTENDS Integers, Sequences

CONSTANTS
    EventIds,     \* event ids
    PublicKeys,   \* authors
    Kinds,        \* event kinds
    TagNames,     \* single-letter tag names, numbered in SingleLetterTag order
    TagValues,    \* tag values
    NotALetter    \* the name of every tag that is not a single letter

ASSUME TagNamesAssumption ==
    /\ TagNames \subseteq Nat
    /\ NotALetter \notin TagNames

(***************************************************************************)
(* A filter.  `since`/`until` bound created_at; the relay's own limit and  *)
(* the full-text search never take part in live matching.                  *)
(***************************************************************************)
Filter ==
    [ids     : SUBSET EventIds,
     authors : SUBSET PublicKeys,
     kinds   : SUBSET Kinds,
     tags    : UNION {[N -> SUBSET TagValues] : N \in SUBSET TagNames},
     since   : Nat,
     until   : Nat]

(* A tag is its name and the values after the name. *)
Tag == [name : TagNames \cup {NotALetter}, values : Seq(TagValues)]

Event ==
    [id         : EventIds,
     pubkey     : PublicKeys,
     kind       : Kinds,
     tags       : SUBSET Tag,
     created_at : Nat]

-----------------------------------------------------------------------------
(***************************************************************************)
(* The matcher of the nostr library (external): every constraint that is   *)
(* present must hold.  A tag constraint looks only at the first value of   *)
(* the event's tags (the library's tag index holds tag.content()).         *)
(***************************************************************************)
TagMatches(f, e) ==
    \A n \in DOMAIN f.tags :
        \E tag \in e.tags :
            /\ tag.name = n
            /\ Len(tag.values) > 0
            /\ tag.values[1] \in f.tags[n]

MatchesEvent(f, e) ==
    /\ f.ids = {} \/ e.id \in f.ids
    /\ f.authors = {} \/ e.pubkey \in f.authors
    /\ f.kinds = {} \/ e.kind \in f.kinds
    /\ f.since <= e.created_at /\ e.created_at <= f.until
    /\ TagMatches(f, e)

-----------------------------------------------------------------------------
(***************************************************************************)
(* choose_index_field: the most selective constraint present, in the fixed *)
(* order ids, authors, kinds, tags; "MatchAll" stands for None.            *)
(***************************************************************************)
NonEmptyTags(f) == {n \in DOMAIN f.tags : f.tags[n] # {}}

FirstTag(f) ==
    CHOOSE n \in NonEmptyTags(f) : \A m \in NonEmptyTags(f) : n <= m

ChooseIndexField(f) ==
    CASE f.ids # {}                                            -> "EventId"
      [] f.ids = {} /\ f.authors # {}                          -> "Author"
      [] f.ids = {} /\ f.authors = {} /\ f.kinds # {}          -> "Kind"
      [] f.ids = {} /\ f.authors = {} /\ f.kinds = {}
                    /\ NonEmptyTags(f) # {}                    -> "Tag"
      [] OTHER                                                 -> "MatchAll"

(* The five index tables, in the order get_candidate_filters reads them. *)
Tables == <<"match_all_filters", "event_ids", "authors", "kinds", "tags">>

(* The buckets add_filter_to_indexes files a filter under. *)
FilterBuckets(f) ==
    CASE ChooseIndexField(f) = "EventId"  -> {<<"event_ids", i>> : i \in f.ids}
      [] ChooseIndexField(f) = "Author"   -> {<<"authors", a>> : a \in f.authors}
      [] ChooseIndexField(f) = "Kind"     -> {<<"kinds", k>> : k \in f.kinds}
      [] ChooseIndexField(f) = "Tag"      -> {<<"tags", FirstTag(f), v>> : v \in f.tags[FirstTag(f)]}
      [] ChooseIndexField(f) = "MatchAll" -> {<<"match_all_filters">>}

(* Mutant: the first value is skipped, as if it were the tag's name. *)
TagBucketsFromSecond(e) ==
    UNION {{<<"tags", tag.name, tag.values[i]>> : i \in DOMAIN tag.values \ {1}} :
           tag \in {g \in e.tags : g.name \in TagNames}}

(***************************************************************************)
(* The buckets get_candidate_filters reads in one table.  Unlike the       *)
(* matcher it follows every value of a tag, not only the first.            *)
(***************************************************************************)
TagBuckets(e) ==
    UNION {{<<"tags", tag.name, tag.values[i]>> : i \in DOMAIN tag.values} :
           tag \in {g \in e.tags : g.name \in TagNames}}

EventBuckets(table, e) ==
    CASE table = "match_all_filters" -> {<<"match_all_filters">>}
      [] table = "event_ids"         -> {<<"event_ids", e.id>>}
      [] table = "authors"           -> {<<"authors", e.pubkey>>}
      [] table = "kinds"             -> {<<"kinds", e.kind>>}
      [] table = "tags"              -> TagBuckets(e)

LookupBuckets(e) == UNION {EventBuckets(Tables[i], e) : i \in 1..Len(Tables)}

Buckets ==
    {<<"match_all_filters">>}
      \cup {<<"event_ids", i>> : i \in EventIds}
      \cup {<<"authors", a>> : a \in PublicKeys}
      \cup {<<"kinds", k>> : k \in Kinds}
      \cup {<<"tags", n, v>> : n \in TagNames, v \in TagValues}

-----------------------------------------------------------------------------
(***************************************************************************)
(* No false negatives: an event that a filter accepts is looked up in at   *)
(* least one bucket the filter is filed under, so a filter that is fully   *)
(* indexed is always among the candidates (get_candidate_filters against   *)
(* add_filter_to_indexes).                                                 *)
(***************************************************************************)
CandidateComplete(f, e) ==
    MatchesEvent(f, e) => FilterBuckets(f) \cap LookupBuckets(e) # {}
=============================================================================
