------------------------- MODULE SubscriptionRegistry ------------------------
(***************************************************************************)
(* The subscription registry, src/src/subscription_registry.rs, on top of  *)
(* the subscription index, with the callers that meet in it:               *)
(*                                                                         *)
(*  - the task of each WebSocket session: registers the connection,        *)
(*    handles REQ and CLOSE one at a time (SubscriptionCoordinator         *)
(*    add_subscription / remove_subscription), and at the end runs         *)
(*    on_disconnect's cleanup and drops the ConnectionHandle;              *)
(*  - the task ConnectionHandle::drop spawns when it finds the connection  *)
(*    still registered (the reaper of the session);                        *)
(*  - publishers: tasks inside distribute_event_indexed, which send to the *)
(*    sessions' bounded channels and clean up the connections whose        *)
(*    channel is full or disconnected;                                     *)
(*  - the outbound task of each session, which empties the channel.  It    *)
(*    holds the session's state, hence the ConnectionHandle: the handle is *)
(*    dropped when the session's task and its outbound task are both over. *)
(*                                                                         *)
(* The registry's connection data (an Arc) is named by the session that    *)
(* created it.  A connection id is the peer's socket address; a later      *)
(* session may have the address of an earlier one whose socket is closed.  *)
(***************************************************************************)
EXTENDS SubscriptionIndex

CONSTANTS
    Sessions,      \* WebSocket sessions ever opened
    Publishers,    \* tasks distributing events
    AddrOf,        \* session -> connection id ("ip:port")
    ScopeOf,       \* session -> scope
    Unwinding,     \* sessions whose task may end without on_disconnect
    Capacity,      \* capacity of a session's outbound channel
    MaxRequests,   \* bound: REQ and CLOSE messages per session
    MaxPublishes   \* bound: events published

Reapers == {<<"drop", s>> : s \in Sessions}
ReaperOf(s) == <<"drop", s>>

ASSUME RegistryAssumption ==
    /\ AddrOf \in [Sessions -> Conns]
    /\ ScopeOf \in [Sessions -> Scopes]
    /\ Unwinding \subseteq Sessions
    /\ Capacity \in Nat
    /\ MaxRequests \in Nat
    /\ MaxPublishes \in Nat
    /\ IsFiniteSet(Sessions)
    /\ IsFiniteSet(Subs)
    /\ Writers = Sessions \cup Reapers \cup Publishers
    /\ Distributors = Publishers
    /\ Sessions \cap Reapers = {}
    /\ Publishers \cap (Sessions \cup Reapers) = {}
    /\ None \notin Tasks
    /\ None \notin Conns
    /\ None \notin FilterLists

(* The allocation bounds are never reached. *)
ASSUME RegistryBounds ==
    /\ MaxGroups >= Cardinality(Sessions) * MaxRequests
    /\ \A fs \in FilterLists :
          MaxFilters >= Cardinality(Sessions) * MaxRequests * Len(fs)

VARIABLES
    connections,   \* DashMap: connection id -> session whose data it is, or None
    subs,          \* ConnectionSubscriptions.subscriptions (its keys)
    writeLock,     \* task holding the write lock of subscriptions, or None
    active,        \* the active-subscriptions metric
    queued,        \* messages in the session's outbound channel
    socket,        \* "new", "open", "closed"
    outbound,      \* the outbound task: "off", "running", "cancelled", "ended"
    requests,      \* requests read by the session so far
    published,     \* events published so far
    rpc,           \* where each task is in the registry's code
    target,        \* connection data (Arc) the task holds
    rsub,          \* subscription id of the request
    filters,       \* filters of the REQ in progress, None for a CLOSE
    isNew,         \* add_subscription: is_new
    conn,          \* cleanup_connection: connection_id
    rids,          \* cleanup_connection: ids still to remove
    count,         \* cleanup_connection: count
    dead,          \* distribute_event_indexed: dead_connections
    sent,          \* history: <<session, sub, event id, scope>> sent
    owed           \* history: <<session, sub, event id>> to be sent

sharedVars == <<connections, subs, writeLock, active>>
localVars  == <<rpc, target, rsub, filters, isNew, conn, rids, count, dead>>
envVars    == <<queued, outbound, socket, requests, published, sent, owed>>
regVars    == <<vars, sharedVars, localVars, envVars>>

RPCs == {"off", "idle", "rm_get", "rm_lock", "rm_wait", "add_get", "add_lock",
         "add_wait", "deliver", "cl_get", "cl_read", "cl_remove", "cl_index",
         "cl_done", "ended", "done"}

(* Types; the channel of a session never holds more than Capacity.         *)
RegTypeOK ==
    /\ TypeOK
    /\ connections \in [Conns -> Sessions \cup {None}]
    /\ subs \in [Sessions -> SUBSET Subs]
    /\ writeLock \in [Sessions -> Tasks \cup {None}]
    /\ active \in Int
    /\ queued \in [Sessions -> 0..Capacity]
    /\ socket \in [Sessions -> {"new", "open", "closed"}]
    /\ outbound \in [Sessions -> {"off", "running", "cancelled", "ended"}]
    /\ requests \in [Sessions -> 0..MaxRequests]
    /\ published \in 0..MaxPublishes
    /\ rpc \in [Tasks -> RPCs]
    /\ target \in [Tasks -> Sessions \cup {None}]
    /\ rsub \in [Tasks -> Subs \cup {None}]
    /\ filters \in [Tasks -> FilterLists \cup {None}]
    /\ isNew \in [Tasks -> BOOLEAN]
    /\ conn \in [Tasks -> Conns \cup {None}]
    /\ rids \in [Tasks -> SUBSET Subs]
    /\ count \in [Tasks -> 0..Cardinality(Subs)]
    /\ dead \in [Tasks -> Seq(Conns)]
    /\ sent \subseteq Sessions \X Subs \X EventIds \X Scopes
    /\ owed \subseteq Sessions \X Subs \X EventIds

RegInit ==
    /\ Init
    /\ connections = [c \in Conns |-> None]
    /\ subs = [s \in Sessions |-> {}]
    /\ writeLock = [s \in Sessions |-> None]
    /\ active = 0
    /\ queued = [s \in Sessions |-> 0]
    /\ socket = [s \in Sessions |-> "new"]
    /\ outbound = [s \in Sessions |-> "off"]
    /\ requests = [s \in Sessions |-> 0]
    /\ published = 0
    /\ rpc = [t \in Tasks |-> IF t \in Publishers THEN "idle" ELSE "off"]
    /\ target = [t \in Tasks |-> None]
    /\ rsub = [t \in Tasks |-> None]
    /\ filters = [t \in Tasks |-> None]
    /\ isNew = [t \in Tasks |-> FALSE]
    /\ conn = [t \in Tasks |-> None]
    /\ rids = [t \in Tasks |-> {}]
    /\ count = [t \in Tasks |-> 0]
    /\ dead = [t \in Tasks |-> <<>>]
    /\ sent = {}
    /\ owed = {}

RGoto(t, from, to) == rpc[t] = from /\ rpc' = [rpc EXCEPT ![t] = to]

(* The key of a subscription of the connection data a task works on. *)
SubKey(s, u) == <<ScopeOf[s], AddrOf[s], u>>

-----------------------------------------------------------------------------
(* The session: connecting, REQ, CLOSE *)

(***************************************************************************)
(* on_connect -> register_connection.  The peer's address is in use by no  *)
(* other open socket; an entry left under it is overwritten.               *)
(***************************************************************************)
Connect(s) ==
    /\ socket[s] = "new"
    /\ \A o \in Sessions : AddrOf[o] = AddrOf[s] => socket[o] # "open"
    /\ RGoto(s, "off", "idle")
    /\ socket' = [socket EXCEPT ![s] = "open"]
    /\ outbound' = [outbound EXCEPT ![s] = "running"]
    /\ connections' = [connections EXCEPT ![AddrOf[s]] = s]
    /\ UNCHANGED <<vars, subs, writeLock, active, target, rsub, filters,
                   isNew, conn, rids, count, dead, queued, requests,
                   published, sent, owed>>

(* A REQ is read: SubscriptionCoordinator::add_subscription. *)
Req(s) ==
    /\ socket[s] = "open"
    /\ requests[s] < MaxRequests
    /\ RGoto(s, "idle", "rm_get")
    /\ \E u \in Subs, fs \in FilterLists :
          /\ rsub' = [rsub EXCEPT ![s] = u]
          /\ filters' = [filters EXCEPT ![s] = fs]
    /\ requests' = [requests EXCEPT ![s] = @ + 1]
    /\ UNCHANGED <<vars, sharedVars, target, isNew, conn, rids, count, dead,
                   queued, outbound, socket, published, sent, owed>>

(* A CLOSE is read: SubscriptionCoordinator::remove_subscription. *)
CloseSub(s) ==
    /\ socket[s] = "open"
    /\ requests[s] < MaxRequests
    /\ RGoto(s, "idle", "rm_get")
    /\ \E u \in Subs : rsub' = [rsub EXCEPT ![s] = u]
    /\ requests' = [requests EXCEPT ![s] = @ + 1]
    /\ UNCHANGED <<vars, sharedVars, target, filters, isNew, conn, rids,
                   count, dead, queued, outbound, socket, published, sent, owed>>

(* Where remove_subscription returns to: a REQ goes on to add. *)
AfterRemove(s) == IF filters[s] # None THEN "add_get" ELSE "idle"

(* remove_subscription: connections.get; its error is only logged *)
RmGet(s) ==
    LET data == connections[AddrOf[s]] IN
    /\ rpc[s] = "rm_get"
    /\ target' = [target EXCEPT ![s] = data]
    /\ rpc' = [rpc EXCEPT ![s] = IF data = None THEN AfterRemove(s) ELSE "rm_lock"]
    /\ UNCHANGED <<vars, sharedVars, rsub, filters, isNew, conn, rids, count,
                   dead, envVars>>

(* subscriptions.write().await; subscriptions.remove *)
RmLock(s) ==
    LET data == target[s] IN
    /\ rpc[s] = "rm_lock"
    /\ writeLock[data] = None
    /\ IF rsub[s] \in subs[data]
       THEN /\ subs' = [subs EXCEPT ![data] = @ \ {rsub[s]}]
            /\ writeLock' = [writeLock EXCEPT ![data] = s]
            /\ rpc' = [rpc EXCEPT ![s] = "rm_wait"]
            /\ RemoveStart(s, SubKey(data, rsub[s]))
            /\ owed' = {r \in owed : ~(r[1] = data /\ r[2] = rsub[s])}
            /\ sent' = {r \in sent : ~(r[1] = data /\ r[2] = rsub[s])}
            /\ UNCHANGED target
       ELSE /\ rpc' = [rpc EXCEPT ![s] = AfterRemove(s)]
            /\ target' = [target EXCEPT ![s] = None]
            /\ UNCHANGED <<vars, subs, writeLock, sent, owed>>
    /\ UNCHANGED <<connections, active, rsub, filters, isNew, conn, rids,
                   count, dead, queued, outbound, socket, requests, published>>

(* Mutant: the metric is left alone. *)
RmDoneUncounted(s) ==
    /\ RGoto(s, "rm_wait", AfterRemove(s))
    /\ pc[s] = "idle"
    /\ writeLock' = [writeLock EXCEPT ![target[s]] = None]
    /\ target' = [target EXCEPT ![s] = None]
    /\ UNCHANGED <<vars, connections, subs, active, rsub, filters, isNew, conn,
                   rids, count, dead, envVars>>

(* index.remove_subscription returned; decrement_active_subscriptions(1) *)
RmDone(s) ==
    /\ RGoto(s, "rm_wait", AfterRemove(s))
    /\ pc[s] = "idle"
    /\ active' = active - 1
    /\ writeLock' = [writeLock EXCEPT ![target[s]] = None]
    /\ target' = [target EXCEPT ![s] = None]
    /\ UNCHANGED <<vars, connections, subs, rsub, filters, isNew, conn, rids,
                   count, dead, envVars>>

(* add_subscription: connections.get or Err("Connection not found") *)
AddGet(s) ==
    LET data == connections[AddrOf[s]] IN
    /\ rpc[s] = "add_get"
    /\ target' = [target EXCEPT ![s] = data]
    /\ rpc' = [rpc EXCEPT ![s] = IF data = None THEN "idle" ELSE "add_lock"]
    /\ filters' = [filters EXCEPT ![s] = IF data = None THEN None ELSE @]
    /\ UNCHANGED <<vars, sharedVars, rsub, isNew, conn, rids, count, dead,
                   envVars>>

(* subscriptions.write().await; insert; index.add_subscription begins *)
AddLock(s) ==
    LET data == target[s] IN
    /\ RGoto(s, "add_lock", "add_wait")
    /\ writeLock[data] = None
    /\ writeLock' = [writeLock EXCEPT ![data] = s]
    /\ isNew' = [isNew EXCEPT ![s] = rsub[s] \notin subs[data]]
    /\ subs' = [subs EXCEPT ![data] = @ \cup {rsub[s]}]
    /\ AddStart(s, SubKey(data, rsub[s]), filters[s])
    /\ UNCHANGED <<connections, active, target, rsub, filters, conn, rids,
                   count, dead, envVars>>

(* Mutant: the lock guard leaks. *)
AddDoneLocked(s) ==
    /\ RGoto(s, "add_wait", "idle")
    /\ pc[s] = "idle"
    /\ active' = IF isNew[s] THEN active + 1 ELSE active
    /\ target' = [target EXCEPT ![s] = None]
    /\ filters' = [filters EXCEPT ![s] = None]
    /\ isNew' = [isNew EXCEPT ![s] = FALSE]
    /\ UNCHANGED <<vars, connections, subs, writeLock, rsub, conn, rids, count,
                   dead, envVars>>

(* increment_active_subscriptions if is_new; the lock guard is dropped *)
AddDone(s) ==
    /\ RGoto(s, "add_wait", "idle")
    /\ pc[s] = "idle"
    /\ active' = IF isNew[s] THEN active + 1 ELSE active
    /\ writeLock' = [writeLock EXCEPT ![target[s]] = None]
    /\ target' = [target EXCEPT ![s] = None]
    /\ filters' = [filters EXCEPT ![s] = None]
    /\ isNew' = [isNew EXCEPT ![s] = FALSE]
    /\ UNCHANGED <<vars, connections, subs, rsub, conn, rids, count, dead,
                   envVars>>

-----------------------------------------------------------------------------
(* cleanup_connection *)

(* connections.get(connection_id) *)
ClGet(t) ==
    LET data == connections[conn[t]] IN
    /\ rpc[t] = "cl_get"
    /\ target' = [target EXCEPT ![t] = data]
    /\ rpc' = [rpc EXCEPT ![t] = IF data = None THEN "cl_remove" ELSE "cl_read"]
    /\ UNCHANGED <<vars, sharedVars, rsub, filters, isNew, conn, rids, count,
                   dead, envVars>>

(* subscriptions.read().await; the keys and their number *)
ClRead(t) ==
    /\ RGoto(t, "cl_read", "cl_remove")
    /\ writeLock[target[t]] = None
    /\ rids' = [rids EXCEPT ![t] = subs[target[t]]]
    /\ count' = [count EXCEPT ![t] = Cardinality(subs[target[t]])]
    /\ UNCHANGED <<vars, sharedVars, target, rsub, filters, isNew, conn, dead,
                   envVars>>

(* connections.remove(connection_id) *)
ClRemove(t) ==
    /\ rpc[t] = "cl_remove"
    /\ connections' = [connections EXCEPT ![conn[t]] = None]
    /\ rpc' = [rpc EXCEPT ![t] = IF target[t] = None THEN "cl_done" ELSE "cl_index"]
    /\ owed' = {r \in owed : AddrOf[r[1]] # conn[t]}
    /\ UNCHANGED <<vars, subs, writeLock, active, target, rsub, filters, isNew,
                   conn, rids, count, dead, queued, outbound, socket,
                   requests, published, sent>>

(* Mutant: the subscriptions stay in the index. *)
ClIndexSkipped(t) ==
    /\ rpc[t] = "cl_index"
    /\ rids[t] # {}
    /\ rids' = [rids EXCEPT ![t] = {}]
    /\ UNCHANGED <<vars, sharedVars, rpc, target, rsub, filters, isNew, conn,
                   count, dead, envVars>>

(* index.remove_subscription for the next id *)
ClIndex(t) ==
    /\ rpc[t] = "cl_index"
    /\ \E u \in rids[t] :
          /\ rids' = [rids EXCEPT ![t] = @ \ {u}]
          /\ RemoveStart(t, <<ScopeOf[target[t]], conn[t], u>>)
    /\ UNCHANGED <<sharedVars, rpc, target, rsub, filters, isNew, conn, count,
                   dead, envVars>>

(* decrement_active_subscriptions(count) *)
ClMetrics(t) ==
    /\ RGoto(t, "cl_index", "cl_done")
    /\ pc[t] = "idle"
    /\ rids[t] = {}
    /\ active' = active - count[t]
    /\ UNCHANGED <<vars, connections, subs, writeLock, target, rsub, filters,
                   isNew, conn, rids, count, dead, envVars>>

-----------------------------------------------------------------------------
(* The end of a session *)

(* The socket closes, times out or fails: on_disconnect cleans up. *)
Disconnect(s) ==
    /\ socket[s] = "open"
    /\ RGoto(s, "idle", "cl_get")
    /\ socket' = [socket EXCEPT ![s] = "closed"]
    /\ conn' = [conn EXCEPT ![s] = AddrOf[s]]
    /\ UNCHANGED <<vars, sharedVars, target, rsub, filters, isNew, rids,
                   count, dead, queued, outbound, requests, published, sent,
                   owed>>

(***************************************************************************)
(* on_disconnect's end: the outbound task is cancelled and given 5 seconds *)
(* to stop, after which the session's task ends without it.                *)
(***************************************************************************)
EndSession(s) ==
    /\ RGoto(s, "cl_done", "ended")
    /\ outbound' = [outbound EXCEPT ![s] = IF @ = "running" THEN "cancelled" ELSE @]
    /\ conn' = [conn EXCEPT ![s] = None]
    /\ target' = [target EXCEPT ![s] = None]
    /\ count' = [count EXCEPT ![s] = 0]
    /\ rsub' = [rsub EXCEPT ![s] = None]
    /\ UNCHANGED <<vars, sharedVars, filters, isNew, rids, dead, queued, socket,
                   requests, published, sent, owed>>

(***************************************************************************)
(* The session's task ends without on_disconnect (a handler panicked, or   *)
(* on_message failed).  Nothing cancels the outbound task.                 *)
(***************************************************************************)
Unwind(s) ==
    /\ s \in Unwinding
    /\ socket[s] = "open"
    /\ RGoto(s, "idle", "ended")
    /\ socket' = [socket EXCEPT ![s] = "closed"]
    /\ rsub' = [rsub EXCEPT ![s] = None]
    /\ UNCHANGED <<vars, sharedVars, target, filters, isNew, conn, rids,
                   count, dead, queued, outbound, requests, published, sent,
                   owed>>

-----------------------------------------------------------------------------
(* The outbound task *)

OutboundRuns(s) == outbound[s] \in {"running", "cancelled"}

(* A message is taken from the channel and written to the socket. *)
Drain(s) ==
    /\ OutboundRuns(s)
    /\ queued[s] > 0
    /\ queued' = [queued EXCEPT ![s] = @ - 1]
    /\ UNCHANGED <<vars, sharedVars, localVars, outbound, socket, requests,
                   published, sent, owed>>

(* A message is taken, the write fails, and the task returns. *)
OutboundFails(s) ==
    /\ OutboundRuns(s)
    /\ queued[s] > 0
    /\ queued' = [queued EXCEPT ![s] = @ - 1]
    /\ outbound' = [outbound EXCEPT ![s] = "ended"]
    /\ UNCHANGED <<vars, sharedVars, localVars, socket, requests, published,
                   sent, owed>>

(* The task sees its cancellation; what is queued is never written. *)
OutboundStops(s) ==
    /\ outbound[s] = "cancelled"
    /\ outbound' = [outbound EXCEPT ![s] = "ended"]
    /\ UNCHANGED <<vars, sharedVars, localVars, queued, socket, requests,
                   published, sent, owed>>

(* Mutant: the handle's drop relies on on_disconnect. *)
DropHandleOnly(s) ==
    /\ RGoto(s, "ended", "done")
    /\ outbound[s] = "ended"
    /\ queued' = [queued EXCEPT ![s] = 0]
    /\ UNCHANGED <<vars, sharedVars, target, rsub, filters, isNew, conn, rids,
                   count, dead, outbound, socket, requests, published, sent,
                   owed>>

(***************************************************************************)
(* Both tasks are over, so the session's state goes: the channel           *)
(* disconnects and ConnectionHandle::drop spawns a cleanup if the id is    *)
(* still registered, whoever registered it.                                *)
(***************************************************************************)
DropHandle(s) ==
    LET registered == connections[AddrOf[s]] # None IN
    /\ rpc[s] = "ended"
    /\ outbound[s] = "ended"
    /\ rpc' = [rpc EXCEPT ![s] = "done",
                          ![ReaperOf(s)] = IF registered THEN "cl_get" ELSE "off"]
    /\ conn' = [conn EXCEPT ![ReaperOf(s)] = IF registered THEN AddrOf[s] ELSE None]
    /\ queued' = [queued EXCEPT ![s] = 0]
    /\ UNCHANGED <<vars, sharedVars, target, rsub, filters, isNew, rids, count,
                   dead, outbound, socket, requests, published, sent, owed>>

ReaperDone(s) ==
    LET t == ReaperOf(s) IN
    /\ RGoto(t, "cl_done", "done")
    /\ target' = [target EXCEPT ![t] = None]
    /\ conn' = [conn EXCEPT ![t] = None]
    /\ count' = [count EXCEPT ![t] = 0]
    /\ UNCHANGED <<vars, sharedVars, rsub, filters, isNew, rids, dead, envVars>>

-----------------------------------------------------------------------------
(* distribute_event_indexed *)

(* The session's subscription is in place and accepts the event. *)
Subscribed(s, u, e, sc) ==
    LET k == SubKey(s, u) IN
    /\ sc = ScopeOf[s]
    /\ connections[AddrOf[s]] = s
    /\ u \in subs[s]
    /\ filter_groups[k] # None
    /\ \E id \in groupFilters[filter_groups[k]] :
          Settled(id) /\ MatchesEvent(tracked[id].filter, e)

Publish(p) ==
    /\ published < MaxPublishes
    /\ published' = published + 1
    /\ RGoto(p, "idle", "deliver")
    /\ \E e \in Events, sc \in Scopes :
          /\ DistStart(p, e, sc)
          /\ owed' = owed \cup {r \in Sessions \X Subs \X {e.id} : Subscribed(r[1], r[2], e, sc)}
    /\ UNCHANGED <<sharedVars, target, rsub, filters, isNew, conn, rids,
                   count, dead, queued, outbound, socket, requests, sent>>

(***************************************************************************)
(* The channel accepts a message: it has room, and a receiver is left (the *)
(* session's own, or the one of the outbound task).                        *)
(***************************************************************************)
CanSend(s) ==
    /\ queued[s] < Capacity
    /\ rpc[s] \notin {"ended", "done"} \/ OutboundRuns(s)

(* Mutant: a full channel drops the message and keeps the connection. *)
DeliverOrDrop(p) ==
    LET k    == Head(matching[p])
        data == connections[k[2]]
    IN
    /\ rpc[p] = "deliver"
    /\ pc[p] = "dist_done"
    /\ matching[p] # <<>>
    /\ matching' = [matching EXCEPT ![p] = Tail(@)]
    /\ IF data # None /\ CanSend(data)
       THEN /\ queued' = [queued EXCEPT ![data] = @ + 1]
            /\ sent' = sent \cup {<<data, k[3], event[p].id, scope[p]>>}
       ELSE UNCHANGED <<queued, sent>>
    /\ UNCHANGED <<indexVars, pc, key, todo, grp, cur, left, ids, event, scope,
                   lookup, checked, sharedVars, localVars, outbound, socket,
                   requests, published, owed>>

(* One matching subscription: connections.get, then try_send. *)
Deliver(p) ==
    LET k    == Head(matching[p])
        data == connections[k[2]]
    IN
    /\ rpc[p] = "deliver"
    /\ pc[p] = "dist_done"
    /\ matching[p] # <<>>
    /\ matching' = [matching EXCEPT ![p] = Tail(@)]
    /\ IF data # None /\ CanSend(data)
       THEN /\ queued' = [queued EXCEPT ![data] = @ + 1]
            /\ sent' = sent \cup {<<data, k[3], event[p].id, scope[p]>>}
       ELSE UNCHANGED <<queued, sent>>
    /\ dead' = IF data # None /\ ~CanSend(data)
               THEN [dead EXCEPT ![p] = Append(@, k[2])] ELSE dead
    /\ UNCHANGED <<indexVars, pc, key, todo, grp, cur, left, ids, event, scope,
                   lookup, checked, sharedVars, rpc, target, rsub, filters,
                   isNew, conn, rids, count, outbound, socket, requests,
                   published, owed>>

(* All were sent: the index call's locals go, the dead ones are next. *)
DeliverDone(p) ==
    /\ RGoto(p, "deliver", "cl_done")
    /\ matching[p] = <<>>
    /\ DistReturn(p)
    /\ UNCHANGED <<sharedVars, target, rsub, filters, isNew, conn, rids,
                   count, dead, envVars>>

(* cleanup_connection for the next dead connection *)
NextDead(p) ==
    /\ RGoto(p, "cl_done", "cl_get")
    /\ dead[p] # <<>>
    /\ conn' = [conn EXCEPT ![p] = Head(dead[p])]
    /\ dead' = [dead EXCEPT ![p] = Tail(@)]
    /\ target' = [target EXCEPT ![p] = None]
    /\ count' = [count EXCEPT ![p] = 0]
    /\ UNCHANGED <<vars, sharedVars, rsub, filters, isNew, rids, envVars>>

PublishDone(p) ==
    /\ RGoto(p, "cl_done", "idle")
    /\ dead[p] = <<>>
    /\ conn' = [conn EXCEPT ![p] = None]
    /\ target' = [target EXCEPT ![p] = None]
    /\ count' = [count EXCEPT ![p] = 0]
    /\ UNCHANGED <<vars, sharedVars, rsub, filters, isNew, rids, dead, envVars>>

-----------------------------------------------------------------------------
IndexStep(t) == CallStep(t) /\ UNCHANGED <<sharedVars, localVars, envVars>>

CleanupStep(t) == ClGet(t) \/ ClRead(t) \/ ClRemove(t) \/ ClIndex(t) \/ ClMetrics(t)

(* What a session's task does once it has work; it is scheduled until done. *)
SessionStep(s) ==
    \/ RmGet(s) \/ RmLock(s) \/ RmDone(s)
    \/ AddGet(s) \/ AddLock(s) \/ AddDone(s)
    \/ CleanupStep(s) \/ EndSession(s) \/ DropHandle(s) \/ IndexStep(s)

ReaperStep(s) == CleanupStep(ReaperOf(s)) \/ ReaperDone(s) \/ IndexStep(ReaperOf(s))

PublisherStep(p) ==
    \/ Deliver(p) \/ DeliverDone(p) \/ NextDead(p) \/ PublishDone(p)
    \/ CleanupStep(p) \/ IndexStep(p)

(* What clients may do, or not. *)
ClientStep ==
    \/ \E s \in Sessions : Connect(s) \/ Req(s) \/ CloseSub(s) \/ Disconnect(s) \/ Unwind(s)
    \/ \E p \in Publishers : Publish(p)

RegNext ==
    \/ ClientStep
    \/ \E s \in Sessions :
          \/ SessionStep(s) \/ ReaperStep(s)
          \/ Drain(s) \/ OutboundFails(s) \/ OutboundStops(s)
    \/ \E p \in Publishers : PublisherStep(p)

(***************************************************************************)
(* Fairness: tokio runs every task that is ready; nothing obliges a client *)
(* to send or a slow reader to read.                                       *)
(***************************************************************************)
RegFairness ==
    /\ \A s \in Sessions : WF_regVars(SessionStep(s)) /\ WF_regVars(ReaperStep(s))
    /\ \A p \in Publishers : WF_regVars(PublisherStep(p))

RegSpec == RegInit /\ [][RegNext]_regVars /\ RegFairness

-----------------------------------------------------------------------------
(***************************************************************************)
(* Tenant isolation: what is sent to a session comes from its own scope,   *)
(* the debug_assert_eq of distribute_event_indexed.                        *)
(***************************************************************************)
ScopeIsolation == \A r \in sent : ScopeOf[r[1]] = r[4]

(***************************************************************************)
(* No silent loss: a session that was registered and fully subscribed when *)
(* the distribution of an event began, and is still registered and has not *)
(* closed the subscription, was sent the event once no publisher is busy   *)
(* with it.  A full channel never drops an event for a connection that     *)
(* stays registered: such a connection is unregistered.                    *)
(***************************************************************************)
Publishing(eid) ==
    \E p \in Publishers : rpc[p] # "idle" /\ (event[p] = None \/ event[p].id = eid)

NoSilentLoss ==
    \A r \in owed :
        Publishing(r[3]) \/ <<r[1], r[2], r[3], ScopeOf[r[1]]>> \in sent

(* Every operation on the registry has finished. *)
Resting == {"off", "idle", "ended", "done"}

Quiescent == \A t \in Tasks : rpc[t] \in Resting

Registered(s) == connections[AddrOf[s]] = s

RegisteredKeys ==
    {SubKey(x[1], x[2]) : x \in {y \in Sessions \X Subs :
                                    Registered(y[1]) /\ y[2] \in subs[y[1]]}}

(***************************************************************************)
(* Whenever nothing is in progress, the active-subscriptions metric counts *)
(* exactly the subscriptions of the registered connections.                *)
(***************************************************************************)
MetricExact == Quiescent => active = Cardinality(RegisteredKeys)

(***************************************************************************)
(* A subscription is never subtracted from the metric twice: the counter,  *)
(* kept by the metrics handler as a usize, never goes below zero.  (Claimed by *)
(* tests/hybrid_cleanup_test.rs; refuted by two overlapping cleanups.)     *)
(***************************************************************************)
NoDoubleDecrement == active >= 0

(***************************************************************************)
(* Whenever nothing is in progress, the indexes hold exactly the           *)
(* subscriptions of the registered connections: none is unreachable, and   *)
(* none outlives its connection.                                           *)
(***************************************************************************)
IndexMirrorsRegistry ==
    Quiescent => {k \in Keys : filter_groups[k] # None} = RegisteredKeys

(***************************************************************************)
(* When a session is over and its ConnectionHandle is dropped, no          *)
(* subscription of it remains in an index.  ("Handle for a connection that *)
(* ensures cleanup on drop"; refuted when a publisher unregistered the     *)
(* slow connection while its own task was adding a subscription.)          *)
(***************************************************************************)
CleanedOnDrop ==
    Quiescent => \A s \in Sessions : rpc[s] = "done" =>
        \A u \in Subs : filter_groups[SubKey(s, u)] = None

(***************************************************************************)
(* Once on_disconnect runs, or the session's task and its outbound task    *)
(* are both over without it, the subscriptions of the session leave the    *)
(* indexes for good: on_disconnect's cleanup or the one that               *)
(* ConnectionHandle::drop spawns always gets there.                        *)
(***************************************************************************)
Unsubscribed(s) == \A u \in Subs : filter_groups[SubKey(s, u)] = None

CleanupDue(s) == rpc[s] = "cl_get" \/ (rpc[s] = "ended" /\ outbound[s] = "ended")

EventuallyCleaned == \A s \in Sessions : CleanupDue(s) ~> []Unsubscribed(s)

(***************************************************************************)
(* The fallback catches every session whose on_disconnect did not run.     *)
(* (Claimed by tests/hybrid_cleanup_test.rs for a handle dropped directly; *)
(* refuted for a session, whose outbound task keeps the state, and so the  *)
(* handle, alive for as long as nothing is sent to it.)                    *)
(***************************************************************************)
FallbackCatches == \A s \in Sessions : socket[s] = "closed" ~> []Unsubscribed(s)

(***************************************************************************)
(* Every request, cleanup and distribution finishes: the write lock of a   *)
(* connection's subscriptions, held across calls into the index, never     *)
(* blocks anyone for ever.                                                 *)
(***************************************************************************)
OperationsFinish == \A t \in Tasks : rpc[t] \notin Resting ~> rpc[t] \in Resting
=============================================================================
