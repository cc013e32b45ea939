--------------------------- MODULE NegentropySync ---------------------------
(***************************************************************************)
(* The negentropy_sync tool (src/src/bin/negentropy_sync.rs): one relay    *)
(* after the other is reconciled with the local database, once or again    *)
(* and again, and a run that fails makes the next one wait.                *)
(*                                                                         *)
(* The local database and those of the relays are in use meanwhile: events *)
(* are published and deleted, an event may be refused, and a version of a  *)
(* replaceable event is rejected where there is a newer one.  Client::sync *)
(* of nostr-sdk compares two databases and then moves event by event; it   *)
(* may fail anywhere and what has moved stays.  The scope is not looked    *)
(* at, as the tool itself warns.                                           *)
(***************************************************************************)
EXTENDS Naturals, Sequences, FiniteSets, FiniteSetsExt

CONSTANTS
    Relays,         \* args.relay
    Reliable,       \* relays through which everything gets at some time
    Events,
    KeyOf, Version, \* of an event: what it replaces, and how new it is
    Refused,        \* the events a relay does not accept
    ArgValues,      \* command lines: [mode, interval, filter]
    Local,          \* the local database
    MaxChanges      \* bound: publications and deletions

ToolRelays == {Relays[i] : i \in DOMAIN Relays}
Places     == ToolRelays \cup {Local}

ASSUME SyncAssumption ==
    /\ Relays \in Seq(ToolRelays) /\ Local \notin ToolRelays /\ Reliable \subseteq ToolRelays
    /\ Version \in [Events -> Nat] /\ DOMAIN KeyOf = Events
    /\ \A e, f \in Events : KeyOf[e] = KeyOf[f] /\ Version[e] = Version[f] => e = f
    /\ Refused \in [ToolRelays -> SUBSET Events] /\ MaxChanges \in Nat
    /\ ArgValues \subseteq [mode : {"pull", "push", "both"}, interval : Nat, filter : SUBSET Events]

VARIABLES
    args,       \* the command line
    db,         \* [Places -> [events, deleted]]
    pc,         \* where the tool stands
    next,       \* the position of the relay whose turn it is
    todo,       \* [down, up]: what the sync under way has still to move
    backoff,    \* in seconds
    changes     \* publications and deletions so far

syncVars == <<args, db, pc, next, todo, backoff, changes>>

InitialBackoff == 10
MaxBackoff     == 300

relay  == Relays[next]
Pulls  == args.mode \in {"pull", "both"}
Pushes == args.mode \in {"push", "both"}
Idle   == [down |-> {}, up |-> {}]

(* Types; a run that failed waits longer than at first, but not for ever,  *)
(* whatever the interval.                                                  *)
SyncTypeOK ==
    /\ args \in ArgValues /\ changes \in 0..MaxChanges
    /\ db \in [Places -> [events : SUBSET Events, deleted : SUBSET Events]]
    /\ pc \in {"opening", "next", "syncing", "sleeping", "waiting", "done"}
    /\ next \in 1..(Len(Relays) + 1) /\ todo \in [down : SUBSET Events, up : SUBSET Events]
    /\ backoff \in Nat
    /\ pc = "sleeping" => backoff \in (2 * InitialBackoff)..MaxBackoff

SyncInit ==
    /\ args \in ArgValues
    /\ db = [p \in Places |-> [events |-> {}, deleted |-> {}]]
    /\ pc = "opening" /\ next = 1 /\ todo = Idle /\ backoff = InitialBackoff /\ changes = 0

-----------------------------------------------------------------------------
(* Databases *)

Replaces(e, f) == KeyOf[e] = KeyOf[f] /\ Version[e] > Version[f]

(* A database does not take what was deleted from it or what it has a      *)
(* newer version of.                                                       *)
Rejects(d, e) == e \in d.deleted \/ \E f \in d.events : Replaces(f, e)

Save(d, e) ==
    IF Rejects(d, e) THEN d
    ELSE [d EXCEPT !.events = {f \in @ : ~Replaces(e, f)} \cup {e}]

Unaccepted(p, e) == IF p = Local THEN FALSE ELSE e \in Refused[p]

(* Users of the relays, and of the relay whose database this is. *)
Publish(p, e) ==
    /\ changes < MaxChanges /\ ~Unaccepted(p, e)
    /\ db' = [db EXCEPT ![p] = Save(@, e)] /\ changes' = changes + 1
    /\ UNCHANGED <<args, pc, next, todo, backoff>>

Delete(p, e) ==
    /\ changes < MaxChanges /\ e \in db[p].events
    /\ db' = [db EXCEPT ![p] = [events |-> @.events \ {e}, deleted |-> @.deleted \cup {e}]]
    /\ changes' = changes + 1
    /\ UNCHANGED <<args, pc, next, todo, backoff>>

-----------------------------------------------------------------------------
(* Mutant: the backoff is not capped. *)
DoubledUncapped == 2 * backoff

Doubled == Min({2 * backoff, MaxBackoff})

(* run_sync opens the local database first. *)
Open ==
    /\ pc = "opening" /\ pc' = "next" /\ next' = 1
    /\ UNCHANGED <<args, db, todo, backoff, changes>>

(* It cannot: the tool exits, or sleeps. *)
OpenFails ==
    /\ pc = "opening"
    /\ IF args.interval = 0
       THEN pc' = "done" /\ UNCHANGED backoff
       ELSE pc' = "sleeping" /\ backoff' = Doubled
    /\ UNCHANGED <<args, db, next, todo, changes>>

(* The next tick of the interval. *)
Tick ==
    /\ pc \in {"sleeping", "waiting"} /\ pc' = "opening"
    /\ UNCHANGED <<args, db, next, todo, backoff, changes>>

(* sync_with_relay: both sides are compared, in the direction of the mode. *)
StartSync ==
    LET Missing(p, q) == ((db[p].events \ db[q].events) \cap args.filter) IN
    /\ pc = "next" /\ next <= Len(Relays)
    /\ todo' = [down |-> IF Pulls THEN Missing(relay, Local) ELSE {},
                up   |-> IF Pushes THEN Missing(Local, relay) ELSE {}]
    /\ pc' = "syncing"
    /\ UNCHANGED <<args, db, next, backoff, changes>>

(* An event that is still there is asked for and offered to the local      *)
(* database.                                                               *)
MoveDown(e) ==
    /\ pc = "syncing" /\ e \in todo.down
    /\ todo' = [todo EXCEPT !.down = @ \ {e}]
    /\ db' = IF e \in db[relay].events THEN [db EXCEPT ![Local] = Save(@, e)] ELSE db
    /\ UNCHANGED <<args, pc, next, backoff, changes>>

(* An event that is still there is sent; a relay may refuse it. *)
MoveUp(e) ==
    /\ pc = "syncing" /\ e \in todo.up
    /\ todo' = [todo EXCEPT !.up = @ \ {e}]
    /\ db' = IF e \in db[Local].events /\ ~Unaccepted(relay, e)
             THEN [db EXCEPT ![relay] = Save(@, e)] ELSE db
    /\ UNCHANGED <<args, pc, next, backoff, changes>>

NextRelay == pc' = "next" /\ next' = next + 1 /\ todo' = Idle

SyncEnds ==
    /\ pc = "syncing" /\ todo = Idle /\ NextRelay
    /\ UNCHANGED <<args, db, backoff, changes>>

(* Mutant: the first relay that fails ends the run. *)
SyncFailsRun ==
    /\ pc \in {"next", "syncing"} /\ next <= Len(Relays)
    /\ pc' = IF args.interval = 0 THEN "done" ELSE "waiting"
    /\ todo' = Idle
    /\ UNCHANGED <<args, db, next, backoff, changes>>

(* sync_with_relay fails, before or after some events have moved: an error *)
(* is counted, and the next relay's turn comes.                            *)
SyncFails ==
    /\ pc \in {"next", "syncing"} /\ next <= Len(Relays) /\ NextRelay
    /\ UNCHANGED <<args, db, backoff, changes>>

(* run_sync returns Ok, whatever happened with the relays. *)
RunEnds ==
    /\ pc = "next" /\ next > Len(Relays)
    /\ IF args.interval = 0
       THEN pc' = "done" /\ UNCHANGED backoff
       ELSE pc' = "waiting" /\ backoff' = Max({args.interval, InitialBackoff})
    /\ UNCHANGED <<args, db, next, todo, changes>>

Tool ==
    \/ Open \/ OpenFails \/ Tick \/ StartSync \/ SyncEnds \/ SyncFails \/ RunEnds
    \/ \E e \in Events : MoveDown(e) \/ MoveUp(e)

SyncNext == Tool \/ \E p \in Places, e \in Events : Publish(p, e) \/ Delete(p, e)

With(r) == next <= Len(Relays) /\ relay = r

(* The tool does not stop between two steps, and nostr-sdk's timeouts end  *)
(* every wait.  The database can be opened at some time, a reliable relay  *)
(* be reached, and what is to be moved between it and here again and again *)
(* gets through at some time, though any single sync may fail.             *)
SyncSpec ==
    /\ SyncInit /\ [][SyncNext]_syncVars
    /\ WF_syncVars(Tool) /\ SF_syncVars(Open)
    /\ \A r \in Reliable :
          /\ SF_syncVars(With(r) /\ StartSync)
          /\ \A e \in Events :
                SF_syncVars(With(r) /\ MoveDown(e)) /\ SF_syncVars(With(r) /\ MoveUp(e))

-----------------------------------------------------------------------------
(* What one database has and the filter accepts, the other one has, or     *)
(* rejects, or refuses.                                                    *)
Agree(r) ==
    /\ Pulls => \A e \in db[r].events \cap args.filter :
                   e \in db[Local].events \/ Rejects(db[Local], e)
    /\ Pushes => \A e \in db[Local].events \cap args.filter :
                    e \in db[r].events \/ Rejects(db[r], e) \/ e \in Refused[r]

(* Whatever is published and deleted while the tool runs, and whichever    *)
(* relays or syncs fail: in continuous mode the local database and that of *)
(* a reliable relay come to agree in the direction of the mode and stay so *)
(* once nothing changes any more; a one-time sync comes to its end.        *)
SyncConverges ==
    /\ \A r \in Reliable : <>[](args.interval > 0 => Agree(r))
    /\ <>(args.interval = 0 => pc = "done")
=============================================================================
