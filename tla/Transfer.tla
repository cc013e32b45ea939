------------------------------ MODULE Transfer ------------------------------
(***************************************************************************)
(* The export_import tool (src/src/bin/export_import.rs): every scope of a *)
(* database goes to a JSONL file named after the scope, and the files of a *)
(* directory come back into the scopes that their names spell.             *)
(*                                                                         *)
(* A scope is the sequence of the tokens of its name: words, "_", and "."  *)
(* for any character that a file name may not have; two words in a row are *)
(* one longer word.  A directory maps the stems of its .jsonl files to     *)
(* their lines.  A line is an event, Blank or Garbage.                     *)
(***************************************************************************)
EXTENDS Naturals, Sequences, SequencesExt, FiniteSets, TLC

CONSTANTS
    BatchSize,      \* events saved together: 100 in the code
    Number,         \* the token for a run of digits
    Blank, Garbage

ASSUME BatchAssumption == BatchSize \in Nat \ {0}

TheDefault == <<>>          \* Scope::Default
NoScope    == <<"none">>    \* parse_scope_from_filename returned None

-----------------------------------------------------------------------------
sanitize_filename(name) == [i \in DOMAIN name |-> IF name[i] = "." THEN "_" ELSE name[i]]

scope_to_filename(scope, include_count) ==
    <<"scope", "_">>
        \o (IF scope = TheDefault THEN <<"default">> ELSE sanitize_filename(scope))
        \o (IF include_count THEN <<"_", Number>> ELSE <<>>)

Cuts(s)      == {i \in DOMAIN s : s[i] = "_"}
FirstPart(s) == IF Cuts(s) = {} THEN s ELSE SubSeq(s, 1, Min(Cuts(s)) - 1)
LastPart(s)  == IF Cuts(s) = {} THEN s ELSE SubSeq(s, Max(Cuts(s)) + 1, Len(s))
IsNumber(s)  == s # <<>> /\ \A i \in DOMAIN s : s[i] = Number

(* The parts between the underscores after the first one, without a last   *)
(* one that is a number; Scope::named refuses the empty name.              *)
parse_scope_from_filename(stem) ==
    LET name  == SubSeq(stem, Len(FirstPart(stem)) + 2, Len(stem))
        short == IF Cuts(name) # {} /\ IsNumber(LastPart(name))
                 THEN SubSeq(name, 1, Max(Cuts(name)) - 1) ELSE name
    IN  CASE Cuts(stem) = {} \/ FirstPart(stem) # <<"scope">> -> NoScope
          [] FirstPart(name) = <<"default">>                  -> TheDefault
          [] short = <<>>                                     -> NoScope
          [] OTHER                                            -> short

-----------------------------------------------------------------------------
(* export_scope: the query fails on a damaged index; otherwise the file is *)
(* created anew.  lines[scope] is what the query returns, in its order.    *)
export_scope(dir, scope, lines, include_count) ==
    (scope_to_filename(scope, include_count) :> lines) @@ dir

(* export_database: refuses a directory that is not empty, unless forced;  *)
(* a scope that fails is skipped.  scopes: list_scopes, in its order.      *)
export_database(db, scopes, dir, force, include_count, damaged) ==
    IF ~force /\ DOMAIN dir # {} THEN dir
    ELSE FoldLeft(LAMBDA d, s : IF s \in damaged THEN d ELSE export_scope(d, s, db[s], include_count),
                  dir, scopes)

-----------------------------------------------------------------------------
count_events_in_file(lines) == Cardinality({i \in DOMAIN lines : lines[i] # Blank})

(* save_events_batch, onto the events of a scope: stops at the first event *)
(* the database cannot save; an event already there is no success.         *)
save_events_batch(events, batch, broken) ==
    LET bad == {i \in DOMAIN batch : batch[i] \in broken}
        n   == IF bad = {} THEN Len(batch) ELSE Min(bad) - 1
        new == {batch[i] : i \in 1..n}
    IN  [ok |-> bad = {}, events |-> events \cup new, count |-> Cardinality(new \ events)]

SaveBatch(st, skip_errors, broken) ==
    LET r == save_events_batch(st.events, st.batch, broken)
    IN  [st EXCEPT !.events = r.events, !.batch = <<>>,
                   !.imported = @ + (IF r.ok THEN r.count ELSE 0),
                   !.errors = @ + (IF r.ok THEN 0 ELSE Len(st.batch)),
                   !.ok = r.ok \/ skip_errors]

ImportLine(st, line, skip_errors, broken) ==
    CASE ~st.ok \/ line = Blank -> st
      [] line = Garbage         -> [st EXCEPT !.errors = @ + 1, !.ok = skip_errors]
      [] OTHER ->
           LET next == [st EXCEPT !.batch = Append(@, line)]
           IN  IF Len(next.batch) >= BatchSize THEN SaveBatch(next, skip_errors, broken) ELSE next

(* Mutant: the events of the last, incomplete batch are not saved. *)
import_scope_full_batches(events, lines, skip_errors, broken) ==
    FoldLeft(LAMBDA st, line : ImportLine(st, line, skip_errors, broken),
             [events |-> events, batch |-> <<>>, imported |-> 0, errors |-> 0, ok |-> TRUE], lines)

(* import_scope_with_progress, into a scope that has the given events. *)
import_scope_with_progress(events, lines, skip_errors, broken) ==
    LET st == FoldLeft(LAMBDA s, line : ImportLine(s, line, skip_errors, broken),
                       [events |-> events, batch |-> <<>>, imported |-> 0, errors |-> 0, ok |-> TRUE],
                       lines)
    IN  IF st.ok /\ st.batch # <<>> THEN SaveBatch(st, skip_errors, broken) ELSE st

(* import_database: every file whose name spells a scope, in the order     *)
(* given; the first failure ends the import unless errors are skipped.     *)
ImportFile(st, dir, stem, skip_errors, broken) ==
    LET scope == parse_scope_from_filename(stem)
        old   == IF scope \in DOMAIN st.db THEN st.db[scope] ELSE {}
        r     == import_scope_with_progress(old, dir[stem], skip_errors, broken)
    IN  IF ~st.ok \/ scope = NoScope THEN st
        ELSE [db       |-> (scope :> r.events) @@ st.db,
              imported |-> st.imported + (IF r.ok THEN r.imported ELSE 0),
              errors   |-> st.errors + (IF r.ok THEN r.errors ELSE 0),
              ok       |-> r.ok \/ skip_errors]

import_database(db, dir, files, skip_errors, broken) ==
    FoldLeft(LAMBDA st, stem : ImportFile(st, dir, stem, skip_errors, broken),
             [db |-> db, imported |-> 0, errors |-> 0, ok |-> TRUE], files)

-----------------------------------------------------------------------------
(* Names that survive the trip: no character is replaced, the first word   *)
(* is not default, and a last word that is a number stands alone or is     *)
(* shielded by the count that follows it.                                  *)
Plain(scope, include_count) ==
    \/ scope = TheDefault
    \/ /\ \A i \in DOMAIN scope : scope[i] # "."
       /\ FirstPart(scope) # <<"default">>
       /\ include_count \/ Cuts(scope) = {} \/ ~IsNumber(LastPart(scope))

EventsOf(lines) == {lines[i] : i \in DOMAIN lines} \ {Blank, Garbage}

(* The lines of a file with unreadable ones after the first. *)
Spoilt(lines, damage) == SubSeq(lines, 1, 1) \o damage \o SubSeq(lines, 2, Len(lines))

(* A database with plain names exported to an empty directory and imported *)
(* into an empty database with --skip-errors is what it was, even if       *)
(* unreadable lines got into its files (damage), and the import accounts   *)
(* for every line exactly once.  A scope that could not be exported is     *)
(* absent, and an event that cannot be saved takes down no other scope.    *)
TransferExactFor(db, scopes, damage, include_count, damaged, broken) ==
    LET dir   == export_database(db, scopes, <<>>, FALSE, include_count, damaged)
        found == [stem \in DOMAIN dir |-> Spoilt(dir[stem], damage)]
        r     == import_database(<<>>, found, SetToSeq(DOMAIN found), TRUE, broken)
        kept  == {s \in DOMAIN db : s \notin damaged}
        Back(s) == IF s \in DOMAIN r.db THEN r.db[s] ELSE {}
    IN  (\A s \in DOMAIN db : Plain(s, include_count)) =>
          /\ r.ok /\ DOMAIN r.db \subseteq kept
          /\ r.imported + r.errors =
                MapThenSumSet(LAMBDA stem : count_events_in_file(found[stem]), DOMAIN found)
          /\ \A s \in kept :
                /\ Back(s) \subseteq EventsOf(db[s]) \ broken
                /\ EventsOf(db[s]) \cap broken = {} => Back(s) = EventsOf(db[s])
=============================================================================
