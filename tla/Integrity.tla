----------------------------- MODULE Integrity -----------------------------
(***************************************************************************)
(* The two tools that read the LMDB files of a database behind its back:   *)
(* nostr-lmdb-integrity, which removes index entries of events that do not *)
(* exist, and nostr-lmdb-dump, which shows entries with their keys parsed  *)
(* (src/src/bin/nostr-lmdb-integrity.rs, src/src/bin/nostr-lmdb-dump.rs).  *)
(*                                                                         *)
(* An entry is its database (without the suffix _scoped), the hash of the  *)
(* scope its key starts with (Unscoped in the databases without suffix)    *)
(* and the rest of the key: its length, the event id in it and the         *)
(* position of that id.  Events of the default scope are in the unnamed    *)
(* database.  An environment is a set of entries with the registry that    *)
(* names the scope hashes, and the padding with which nostr-lmdb wrote its *)
(* keys: what the tools expect of it they cannot know.                     *)
(***************************************************************************)
EXTENDS Naturals, FiniteSets

CONSTANTS
    Unscoped, NoId, Panic,
    OtherBytes  \* 32 bytes read across fields: the id of no event

Indexes == {"ci", "tci", "aci", "akci", "atci", "ktci"}
Databases == Indexes \cup {"events", "deleted-ids", "deleted-coordinates"}

(* The fields of a key before the event id, in bytes: author 32, kind 2,   *)
(* the tag's name 1 and value 182, time 8.                                 *)
TimeEnd == [ci  |-> 8,               tci  |-> 1 + 182 + 8,
            aci |-> 32 + 8,          akci |-> 32 + 2 + 8,
            atci |-> 32 + 1 + 182 + 8, ktci |-> 2 + 1 + 182 + 8]

(* Where nostr-lmdb puts the id; pad bytes precede it in the keys with a   *)
(* tag.                                                                    *)
Padding(db, pad) == IF db \in {"tci", "atci", "ktci"} THEN pad ELSE 0
KeyAt(db, pad)   == IF db \in Indexes THEN TimeEnd[db] + Padding(db, pad) ELSE 0

(* The bytes of a key from one position to another, as an event id. *)
Bytes(key, from, to) == IF key.at = from /\ to = from + 32 THEN key.id ELSE OtherBytes

-----------------------------------------------------------------------------
(* Mutant: off by one in the keys of tci. *)
IdEndShort == [ci |-> 40, tci |-> 225, aci |-> 72, akci |-> 74, atci |-> 258, ktci |-> 228]

(* extract_from_ci_key and its siblings: the end of the id in the key, 3   *)
(* bytes later than the fields account for in the keys with a tag.         *)
IdEnd == [ci |-> 40, tci |-> 226, aci |-> 72, akci |-> 74, atci |-> 258, ktci |-> 228]

extract_from_key(db, key) ==
    CASE db \in Indexes      -> IF key.len >= IdEnd[db] THEN Bytes(key, IdEnd[db] - 32, IdEnd[db]) ELSE NoId
      [] db = "deleted-ids"  -> IF key.len = 32 THEN Bytes(key, 0, 32) ELSE NoId
      [] OTHER               -> NoId

(* extract_event_id_from_key: parse_scoped_key panics on a scope hash that *)
(* the registry does not have.                                             *)
extract_event_id_from_key(entry, registry) ==
    IF entry.scope # Unscoped /\ entry.scope \notin registry THEN Panic
    ELSE extract_from_key(entry.db, entry.key)

(* get_all_event_ids: of the default scope and of every other scope. *)
get_all_event_ids(env) == {e.key.id : e \in {x \in env : x.db = "events" /\ x.key.len = 32}}

(* The databases check_integrity looks into. *)
Checked(env) == {e \in env : e.db # "events"}

(* The entries check_integrity reports. *)
check_integrity(env, registry) ==
    {e \in Checked(env) :
        extract_event_id_from_key(e, registry) \notin get_all_event_ids(env) \cup {NoId}}

remove_corrupted_entries(env, corrupted) == env \ corrupted

(* main: what is left of the environment. *)
IntegrityMain(env, registry, wet_run, confirmed) ==
    IF \/ \E e \in Checked(env) : extract_event_id_from_key(e, registry) = Panic
       \/ check_integrity(env, registry) = {}
       \/ ~wet_run \/ ~confirmed
    THEN env
    ELSE remove_corrupted_entries(env, check_integrity(env, registry))

-----------------------------------------------------------------------------
(* parse_key of the dump tool, the event id of it: NoId for a key that is  *)
(* incomplete.  An unknown scope hash is shown as such.                    *)
DumpIdAt == [ci |-> 8, tci |-> 194, aci |-> 40, akci |-> 42, atci |-> 226, ktci |-> 196]

parse_key(entry) ==
    IF entry.db \in Indexes /\ entry.key.len >= DumpIdAt[entry.db] + 32
    THEN Bytes(entry.key, DumpIdAt[entry.db], DumpIdAt[entry.db] + 32) ELSE NoId

(* dump_database_entries: the entries shown with an event id; the keys of  *)
(* events and of deleted ids are not parsed.  limit bounds each database.  *)
dump_database_entries(env) ==
    {e \in env : e.db \notin {"events", "deleted-ids"} /\ parse_key(e) # NoId}

-----------------------------------------------------------------------------
(* A wet run that gets through leaves every event, every entry of an event *)
(* that some scope has, however the keys are padded.  Where they are padded*)
(* as the tools expect it, and in the keys without a tag always, no entry  *)
(* is left of an event that does not exist.  What the dump shows with an   *)
(* event id afterwards exists, and a second check finds nothing.  A run    *)
(* that meets an unknown scope changes nothing.                            *)
RepairSoundFor(env, registry, pad) ==
    LET after  == IntegrityMain(env, registry, TRUE, TRUE)
        ids    == {e.key.id : e \in {x \in env : x.db = "events"}}
        hashes == {e.scope : e \in Checked(env)} \ {Unscoped}
    IN  /\ \A e \in env \ after : e.db # "events" /\ e.key.id \notin ids
        /\ hashes \subseteq registry =>
              /\ \A e \in after :
                    /\ e.db \in Indexes /\ e.key.len = KeyAt(e.db, pad) + 32
                    /\ Padding(e.db, pad) = Padding(e.db, 3)
                    => e.key.id \in ids
              /\ \A e \in dump_database_entries(after) : parse_key(e) \in ids
              /\ check_integrity(after, registry) = {}
        /\ ~(hashes \subseteq registry) => after = env
=============================================================================
