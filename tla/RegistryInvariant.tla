--------------------------- MODULE RegistryInvariant --------------------------
(***************************************************************************)
(* The inductive invariants of the subscription registry.  The index below *)
(* it keeps OverlapInv whatever its callers do; what is said here is where *)
(* each task of the registry can be, whose data it holds there, and whose  *)
(* subscriptions the index can therefore name.                             *)
(***************************************************************************)
EXTENDS SubscriptionRegistry, IndexInvariant

RequestRPCs == {"rm_get", "rm_lock", "rm_wait", "add_get", "add_lock", "add_wait"}
CleanupRPCs == {"cl_get", "cl_read", "cl_remove", "cl_index"}

(* Where a task can be, by what it is, and when it is inside the index. *)
PlaceOf(t) ==
    /\ t \in Sessions => rpc[t] # "deliver"
    /\ t \in Reapers => rpc[t] \in CleanupRPCs \cup {"off", "cl_done", "done"}
    /\ t \in Publishers => rpc[t] \in CleanupRPCs \cup {"idle", "deliver", "cl_done"}
    /\ Writing(t) => rpc[t] \in {"rm_wait", "add_wait", "cl_index"}
    /\ Distributing(t) <=> rpc[t] = "deliver"

(* The locals of a task are set where it uses them, and the data it holds   *)
(* is that of a session of the address it works for.                       *)
RegLocalsOf(t) ==
    /\ rpc[t] \in RequestRPCs => rsub[t] \in Subs
    /\ rpc[t] \in {"add_get", "add_lock"} => filters[t] \in FilterLists
    /\ rpc[t] \in {"rm_lock", "rm_wait", "add_lock", "add_wait"} =>
          target[t] \in Sessions /\ AddrOf[target[t]] = AddrOf[t]
    /\ rpc[t] \in CleanupRPCs => conn[t] \in Conns
    /\ rpc[t] \in {"cl_read", "cl_index"} => target[t] \in Sessions
    /\ rpc[t] \in {"cl_read", "cl_remove", "cl_index"} /\ target[t] # None =>
          AddrOf[target[t]] = conn[t]

(* A connection id leads to the data of a session that has it. *)
OwnEntry == \A c \in Conns : connections[c] # None => AddrOf[connections[c]] = c

(* A reaper starts where its session's handle is dropped. *)
ReapersWait == \A s \in Sessions : rpc[s] # "done" => rpc[ReaperOf(s)] = "off"

RegInv ==
    /\ RegTypeOK
    /\ OverlapInv
    /\ \A t \in Tasks : PlaceOf(t) /\ RegLocalsOf(t)
    /\ OwnEntry
    /\ ReapersWait

-----------------------------------------------------------------------------
(***************************************************************************)
(* What a distribution can come upon: only subscriptions of sessions, and  *)
(* only those of its scope.                                                *)
(***************************************************************************)
SessionKey(k) == \E s \in Sessions, u \in Subs : k = SubKey(s, u)

(* The key is one that the task may have found in the index of its scope. *)
InScope(t, k) == SessionKey(k) /\ k[1] = scope[t]

KeysOf(t) ==
    /\ Adding(t) => SessionKey(key[t])
    /\ Distributing(t) => \A id \in ids[t] : tracked[id].parent[1] = scope[t]
    /\ pc[t] \in {"mark_filter", "group_get", "group_seen", "group_mark"} => InScope(t, key[t])
    /\ \A i \in DOMAIN matching[t] : InScope(t, matching[t][i])
    /\ ~Distributing(t) => matching[t] = <<>>

FoundInv ==
    /\ \A id \in FilterIds : tracked[id] # None => SessionKey(tracked[id].parent)
    /\ \A t \in Tasks : KeysOf(t)

(* What was sent was found among the subscriptions of the address. *)
AddressIsolation ==
    \A r \in sent : \E o \in Sessions : AddrOf[o] = AddrOf[r[1]] /\ ScopeOf[o] = r[4]

IsolationInv == FoundInv /\ AddressIsolation

(* The assumption that an address is used in one scope only. *)
OneScopePerAddress ==
    \A s, o \in Sessions : AddrOf[s] = AddrOf[o] => ScopeOf[s] = ScopeOf[o]

-----------------------------------------------------------------------------
(***************************************************************************)
(* Nothing is lost between the index and the channels.  Where every        *)
(* session has an address of its own, an entry of connections that is gone *)
(* does not come back, so what is still owed is owed to the registered.    *)
(***************************************************************************)
OwnAddresses == \A s, o \in Sessions : AddrOf[s] = AddrOf[o] => s = o

(* The session of the address has connected before. *)
StartedAt(c) == \A s \in Sessions : AddrOf[s] = c => rpc[s] # "off"

LifeOf(t) ==
    /\ rpc[t] \in CleanupRPCs => StartedAt(conn[t])
    /\ \A i \in DOMAIN dead[t] : StartedAt(dead[t][i])
    /\ rpc[t] = "cl_index" => connections[conn[t]] = None
    /\ t \in Publishers /\ rpc[t] = "idle" => dead[t] = <<>>

LifeInv ==
    /\ \A t \in Tasks : LifeOf(t)
    /\ \A s \in Sessions : connections[AddrOf[s]] = s => rpc[s] # "off"
    /\ \A k \in Keys : filter_groups[k] # None =>
          \E s \in Sessions, u \in Subs : k = SubKey(s, u) /\ rpc[s] # "off"
    /\ \A r \in owed : connections[AddrOf[r[1]]] = r[1]

(* The publisher has the event in hand for the subscription, or will        *)
(* unregister its connection.                                              *)
Pending(p, k, e) ==
    /\ event[p] = None \/ event[p].id = e
    /\ \/ \E i \in DOMAIN matching[p] : matching[p][i] = k
       \/ \E i \in DOMAIN dead[p] : dead[p][i] = k[2]
       \/ rpc[p] \in {"cl_get", "cl_read", "cl_remove"} /\ conn[p] = k[2]

(* The connection is gone, or was sent the event. *)
Reached(k, e) ==
    \E s \in Sessions :
       /\ k = SubKey(s, k[3])
       /\ connections[AddrOf[s]] # s \/ <<s, k[3], e, ScopeOf[s]>> \in sent

Given(k, e) == Reached(k, e) \/ \E p \in Publishers : Pending(p, k, e)

OwedKeys  == {<<SubKey(r[1], r[2]), r[3]>> : r \in owed}
GivenKeys == {r \in Keys \X EventIds : Given(r[1], r[2])}

LossInv == LifeInv /\ DeliveryInv(OwedKeys, GivenKeys)

-----------------------------------------------------------------------------
(***************************************************************************)
(* The metric and the index follow connections.  With an address of its    *)
(* own and no publisher that finds its channel full or closed, a session   *)
(* is unregistered by one task: its own, or the reaper when that is over.  *)
(***************************************************************************)
NeverDead == \A p \in Publishers : dead[p] = <<>>

Cleaners(s) == {s, ReaperOf(s)}

BeforeRemoval == {"cl_get", "cl_read", "cl_remove"}

(* Where the session's connection is registered, and what its cleaner holds. *)
CleanerOf(s, t) ==
    /\ rpc[t] \in CleanupRPCs => conn[t] = AddrOf[s]
    /\ rpc[t] \in {"cl_read", "cl_remove", "cl_index"} => target[t] = s
    /\ rpc[t] = "cl_remove" => rids[t] = subs[s]
    /\ rpc[t] \in {"cl_remove", "cl_index"} => count[t] = Cardinality(subs[s])

RegisteredIn(s) ==
    /\ rpc[s] \in RequestRPCs \cup BeforeRemoval \cup {"idle"} => Registered(s)
    /\ rpc[s] \in {"off", "cl_index", "cl_done"} => ~Registered(s)
    /\ rpc[s] = "done" => (Registered(s) <=> rpc[ReaperOf(s)] \in BeforeRemoval)
    /\ rpc[s] = "off" => subs[s] = {}

(* The subscriptions of the session that the index knows. *)
LiveOf(s) == {u \in Subs : filter_groups[SubKey(s, u)] # None}

IndexedIn(s) ==
    /\ Registered(s) => LiveOf(s) = subs[s]
    /\ \A t \in Cleaners(s) : rpc[t] = "cl_index" => LiveOf(s) = rids[t]
    /\ ~Registered(s) /\ (\A t \in Cleaners(s) : rpc[t] # "cl_index") => LiveOf(s) = {}

(* A request's effect on the metric comes after its effect on subs. *)
PendingIn(s) ==
    /\ rpc[s] = "rm_wait" => rsub[s] \notin subs[s]
    /\ rpc[s] = "add_wait" => rsub[s] \in subs[s]

CountedOf(s) ==
    IF ~Registered(s) /\ \A t \in Cleaners(s) : rpc[t] # "cl_index" THEN {}
    ELSE (subs[s] \cup {u \in Subs : rpc[s] = "rm_wait" /\ u = rsub[s]})
           \ {u \in Subs : rpc[s] = "add_wait" /\ isNew[s] /\ u = rsub[s]}

Counted == {x \in Sessions \X Subs : x[2] \in CountedOf(x[1])}

OrderOf(s) ==
    /\ \A t \in Cleaners(s) : CleanerOf(s, t)
    /\ RegisteredIn(s) /\ IndexedIn(s) /\ PendingIn(s)

OrderInv ==
    /\ \A s \in Sessions : OrderOf(s)
    /\ \A p \in Publishers : rpc[p] \notin CleanupRPCs
    /\ active = Cardinality(Counted)
=============================================================================
