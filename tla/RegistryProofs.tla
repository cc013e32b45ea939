---------------------------- MODULE RegistryProofs ----------------------------
(***************************************************************************)
(* The subscription registry for any sessions, publishers, addresses and   *)
(* subscriptions.                                                          *)
(***************************************************************************)
EXTENDS RegistryInvariant, SubscriptionIndexProofs, FiniteSetTheorems, FunctionTheorems

(* Every task is of one kind, and a writer or a distributor of the index. *)
LEMMA TaskKinds ==
    /\ \A s \in Sessions : s \in Tasks /\ s \notin Reapers /\ s \notin Publishers
    /\ \A s \in Sessions : ReaperOf(s) \in Tasks /\ ReaperOf(s) \in Reapers
    /\ \A t \in Reapers : t \in Tasks /\ t \notin Sessions /\ t \notin Publishers
    /\ \A p \in Publishers : p \in Tasks /\ p \notin Sessions /\ p \notin Reapers
    /\ Tasks = Sessions \cup Reapers \cup Publishers
  BY RegistryAssumption DEF Tasks, Reapers, ReaperOf

(* RegTypeOK in parts: the registry's state, the tasks', the environment's. *)
SharedTypes ==
    /\ connections \in [Conns -> Sessions \cup {None}]
    /\ subs \in [Sessions -> SUBSET Subs]
    /\ writeLock \in [Sessions -> Tasks \cup {None}]
    /\ active \in Int

CallTypes ==
    /\ rpc \in [Tasks -> RPCs]
    /\ target \in [Tasks -> Sessions \cup {None}]
    /\ rsub \in [Tasks -> Subs \cup {None}]
    /\ filters \in [Tasks -> FilterLists \cup {None}]
    /\ isNew \in [Tasks -> BOOLEAN]

CleanupTypes ==
    /\ conn \in [Tasks -> Conns \cup {None}]
    /\ rids \in [Tasks -> SUBSET Subs]
    /\ count \in [Tasks -> 0..Cardinality(Subs)]
    /\ dead \in [Tasks -> Seq(Conns)]

EnvTypes ==
    /\ queued \in [Sessions -> 0..Capacity]
    /\ socket \in [Sessions -> {"new", "open", "closed"}]
    /\ outbound \in [Sessions -> {"off", "running", "cancelled", "ended"}]
    /\ requests \in [Sessions -> 0..MaxRequests]
    /\ published \in 0..MaxPublishes

HistoryTypes ==
    /\ sent \subseteq Sessions \X Subs \X EventIds \X Scopes
    /\ owed \subseteq Sessions \X Subs \X EventIds

RestTypes == SharedTypes /\ CallTypes /\ CleanupTypes /\ EnvTypes /\ HistoryTypes

LEMMA RegTypes == RegTypeOK <=> TypeOK /\ RestTypes
  BY DEF RegTypeOK, RestTypes, SharedTypes, CallTypes, CleanupTypes, EnvTypes, HistoryTypes

(* The number of subscriptions of a connection. *)
LEMMA SubsCount ==
    ASSUME NEW S \in SUBSET Subs PROVE IsFiniteSet(S) /\ Cardinality(S) \in 0..Cardinality(Subs)
<1>1. /\ IsFiniteSet(S) /\ IsFiniteSet(Subs) /\ Cardinality(S) <= Cardinality(Subs)
  BY FS_Subset, RegistryAssumption
<1>2. Cardinality(S) \in Nat /\ Cardinality(Subs) \in Nat
  BY <1>1, FS_CardinalityType
<1> QED
  BY <1>1, <1>2

LEMMA CountType == 0 \in 0..Cardinality(Subs)
  BY FS_CardinalityType, RegistryAssumption

(* A step changes the locals of one task only. *)
RegOthers(t) ==
    \A u \in Tasks \ {t} :
       /\ rpc'[u] = rpc[u] /\ target'[u] = target[u] /\ rsub'[u] = rsub[u]
       /\ filters'[u] = filters[u] /\ conn'[u] = conn[u] /\ pc'[u] = pc[u]

(* What is over stays over, and a reaper is started by its session.         *)
StaysOver(t) ==
    /\ rpc[t] = "done" => rpc'[t] = "done"
    /\ t \in Reapers /\ rpc[t] = "off" => rpc'[t] = "off"

LEMMA RegFrame ==
    ASSUME RegInv, NEW t \in Tasks, RestTypes', OverlapInv', RegOthers(t), StaysOver(t),
           PlaceOf(t)', RegLocalsOf(t)', OwnEntry'
    PROVE  RegInv'
<1>1. ASSUME NEW u \in Tasks, u # t PROVE PlaceOf(u)' /\ RegLocalsOf(u)'
  <2>1. PlaceOf(u) /\ RegLocalsOf(u)
    BY DEF RegInv
  <2> QED
    BY <1>1, <2>1 DEF RegOthers, PlaceOf, RegLocalsOf, Writing, Distributing
<1> QED
  <2>1. TypeOK' /\ RestTypes' => RegTypeOK'
    BY DEF RegTypeOK, RestTypes, SharedTypes, CallTypes, CleanupTypes, EnvTypes, HistoryTypes
  <2>2. ReapersWait'
    BY TaskKinds DEF RegInv, ReapersWait, RegOthers, StaysOver
  <2> QED
    BY <1>1, <2>1, <2>2 DEF RegInv, OverlapInv, BasicInv, CallInv

LEMMA OverlapSame == ASSUME OverlapInv, UNCHANGED vars PROVE OverlapInv'
<1>1. ButResults /\ matching' \in [Tasks -> Seq(Keys)]
  BY DEF OverlapInv, BasicInv, CallInv, TypeOK, ButResults, vars, callVars
<1> QED
  BY <1>1, OverlapStutter

(* A step that leaves the index and the connections. *)
LEMMA QuietFrame ==
    ASSUME RegInv, NEW t \in Tasks, UNCHANGED <<vars, connections>>, RestTypes',
           RegOthers(t), StaysOver(t), PlaceOf(t)', RegLocalsOf(t)'
    PROVE  RegInv'
<1>1. OverlapInv'
  BY OverlapSame DEF RegInv
<1>2. OwnEntry'
  BY DEF RegInv, OwnEntry
<1> QED
  BY <1>1, <1>2, RegFrame

LEMMA ReqInv ==
    ASSUME RegInv, NEW s \in Sessions, Req(s) PROVE RegInv'
<1>0. s \in Tasks /\ s \notin Reapers /\ s \notin Publishers /\ PlaceOf(s) /\ RestTypes
  BY TaskKinds, RegTypes DEF RegInv
<1>1. SharedTypes' /\ CleanupTypes' /\ HistoryTypes'
  BY <1>0 DEF RestTypes, SharedTypes, CleanupTypes, HistoryTypes, Req, sharedVars
<1>2. CallTypes'
  BY <1>0 DEF RestTypes, CallTypes, Req, RGoto, RPCs
<1>3. EnvTypes'
  BY <1>0, RegistryAssumption DEF RestTypes, EnvTypes, Req
<1>4. RegOthers(s) /\ StaysOver(s) /\ PlaceOf(s)' /\ RegLocalsOf(s)'
  BY <1>0 DEF RestTypes, CallTypes, Req, RGoto, RegOthers, StaysOver, PlaceOf, RegLocalsOf, vars, callVars,
     Writing, Distributing, RequestRPCs, CleanupRPCs
<1> QED
  BY <1>0, <1>1, <1>2, <1>3, <1>4, QuietFrame DEF Req, sharedVars, RestTypes

(* The session's task between requests and inside them. *)
LEMMA RequestInv ==
    ASSUME RegInv, NEW s \in Sessions,
           CloseSub(s) \/ RmGet(s) \/ RmDone(s) \/ AddGet(s) \/ AddDone(s)
    PROVE  RegInv'
<1>0. /\ s \in Tasks /\ s \notin Reapers /\ s \notin Publishers /\ RestTypes /\ OwnEntry
      /\ PlaceOf(s) /\ RegLocalsOf(s) /\ AddrOf \in [Sessions -> Conns] /\ None \notin Sessions
  BY TaskKinds, RegTypes, RegistryAssumption DEF RegInv
<1>1. SharedTypes'
  BY <1>0 DEF RestTypes, SharedTypes, CloseSub, RmGet, RmDone, AddGet, AddDone, sharedVars
<1>2. CleanupTypes' /\ HistoryTypes'
  BY <1>0 DEF RestTypes, CleanupTypes, HistoryTypes, CloseSub, RmGet, RmDone, AddGet, AddDone, envVars
<1>3. CallTypes'
  <2>1. connections[AddrOf[s]] \in Sessions \cup {None} /\ AfterRemove(s) \in RPCs
    BY <1>0 DEF RestTypes, SharedTypes, AfterRemove, RPCs
  <2>2. CASE CloseSub(s) \/ RmGet(s) \/ RmDone(s)
    BY <1>0, <2>1, <2>2 DEF RestTypes, CallTypes, CloseSub, RmGet, RmDone, RGoto, RPCs
  <2>3. CASE AddGet(s)
    BY <1>0, <2>1, <2>3 DEF RestTypes, CallTypes, AddGet, RPCs
  <2>4. CASE AddDone(s)
    BY <1>0, <2>4 DEF RestTypes, CallTypes, AddDone, RGoto, RPCs
  <2> QED
    BY <2>2, <2>3, <2>4
<1>4. EnvTypes'
  BY <1>0, RegistryAssumption DEF RestTypes, EnvTypes, CloseSub, RmGet, RmDone, AddGet, AddDone, envVars
<1>5. RegOthers(s) /\ StaysOver(s) /\ connections' = connections /\ UNCHANGED vars
  BY <1>0 DEF RestTypes, CallTypes, CloseSub, RmGet, RmDone, AddGet, AddDone, RGoto, RegOthers, StaysOver,
     sharedVars, vars, callVars
<1>6. PlaceOf(s)'
  BY <1>0, <1>5 DEF RestTypes, CallTypes, CloseSub, RmGet, RmDone, AddGet, AddDone, RGoto, PlaceOf, vars,
     callVars, AfterRemove, Writing, Distributing
<1>7. RegLocalsOf(s)'
  BY <1>0, <1>5 DEF RestTypes, CallTypes, SharedTypes, CloseSub, RmGet, RmDone, AddGet, AddDone, RGoto,
     RegLocalsOf, AfterRemove, RequestRPCs, CleanupRPCs, OwnEntry
<1> QED
  BY <1>0, <1>1, <1>2, <1>3, <1>4, <1>5, <1>6, <1>7, QuietFrame DEF RestTypes

(* The session's end, with on_disconnect and without. *)
LEMMA EndInv ==
    ASSUME RegInv, NEW s \in Sessions, Disconnect(s) \/ EndSession(s) \/ Unwind(s)
    PROVE  RegInv'
<1>0. /\ s \in Tasks /\ s \notin Reapers /\ s \notin Publishers /\ RestTypes
      /\ PlaceOf(s) /\ RegLocalsOf(s) /\ AddrOf \in [Sessions -> Conns]
  BY TaskKinds, RegTypes, RegistryAssumption DEF RegInv
<1>1. SharedTypes' /\ HistoryTypes'
  BY <1>0 DEF RestTypes, SharedTypes, HistoryTypes, Disconnect, EndSession, Unwind, sharedVars
<1>2. CleanupTypes'
  <2>1. CASE Disconnect(s)
    BY <1>0, <2>1 DEF RestTypes, CleanupTypes, Disconnect
  <2>2. CASE EndSession(s)
    BY <1>0, <2>2, CountType DEF RestTypes, CleanupTypes, EndSession
  <2>3. CASE Unwind(s)
    BY <1>0, <2>3 DEF RestTypes, CleanupTypes, Unwind
  <2> QED
    BY <2>1, <2>2, <2>3
<1>3. CallTypes'
  BY <1>0 DEF RestTypes, CallTypes, Disconnect, EndSession, Unwind, RGoto, RPCs
<1>4. EnvTypes'
  BY <1>0 DEF RestTypes, EnvTypes, Disconnect, EndSession, Unwind
<1>5. RegOthers(s) /\ StaysOver(s) /\ connections' = connections /\ UNCHANGED vars
  BY <1>0 DEF RestTypes, CallTypes, CleanupTypes, Disconnect, EndSession, Unwind, RGoto, RegOthers, StaysOver,
     sharedVars, vars, callVars
<1>6. PlaceOf(s)' /\ RegLocalsOf(s)'
  BY <1>0, <1>5 DEF RestTypes, CallTypes, CleanupTypes, Disconnect, EndSession, Unwind, RGoto, PlaceOf,
     vars, callVars, RegLocalsOf, RequestRPCs, CleanupRPCs, Writing, Distributing
<1> QED
  BY <1>0, <1>1, <1>2, <1>3, <1>4, <1>5, <1>6, QuietFrame DEF RestTypes

(* cleanup_connection, but for the two steps that take something away. *)
LEMMA CleanupInv ==
    ASSUME RegInv, NEW t \in Tasks, ClGet(t) \/ ClRead(t) \/ ClMetrics(t)
    PROVE  RegInv'
<1>0. /\ RestTypes /\ PlaceOf(t) /\ RegLocalsOf(t) /\ OwnEntry /\ None \notin Sessions
  BY TaskKinds, RegTypes, RegistryAssumption DEF RegInv
<1>1. HistoryTypes' /\ EnvTypes'
  BY <1>0 DEF RestTypes, EnvTypes, HistoryTypes, ClGet, ClRead, ClMetrics, envVars
<1>2. CleanupTypes'
  <2>1. ASSUME NEW S \in SUBSET Subs PROVE Cardinality(S) \in 0..Cardinality(Subs)
    BY <2>1, SubsCount
  <2>2. CASE ClRead(t)
    <3>1. subs[target[t]] \in SUBSET Subs
      BY <1>0, <2>2 DEF RestTypes, SharedTypes, RegLocalsOf, ClRead, RGoto
    <3>2. Cardinality(subs[target[t]]) \in 0..Cardinality(Subs)
      BY <2>1, <3>1
    <3> QED
      BY <1>0, <2>2, <3>1, <3>2 DEF RestTypes, CleanupTypes, ClRead
  <2> QED
    BY <1>0, <2>2 DEF RestTypes, CleanupTypes, ClGet, ClMetrics
<1>3. CallTypes'
  BY <1>0 DEF RestTypes, SharedTypes, CallTypes, ClGet, ClRead, ClMetrics, RGoto, RPCs, RegLocalsOf, CleanupRPCs
<1>4. SharedTypes'
  BY <1>0 DEF RestTypes, SharedTypes, CleanupTypes, ClGet, ClRead, ClMetrics, sharedVars
<1>5. RegOthers(t) /\ StaysOver(t) /\ connections' = connections /\ UNCHANGED vars
  BY <1>0 DEF RestTypes, CallTypes, CleanupTypes, ClGet, ClRead, ClMetrics, RGoto, RegOthers, StaysOver,
     sharedVars, vars, callVars
<1>6. PlaceOf(t)'
  BY <1>0, <1>5, TaskKinds DEF RestTypes, CallTypes, ClGet, ClRead, ClMetrics, RGoto, PlaceOf,
     vars, callVars, CleanupRPCs, Writing, Distributing
<1>7. RegLocalsOf(t)'
  BY <1>0, <1>5 DEF RestTypes, CallTypes, SharedTypes, ClGet, ClRead, ClMetrics, RGoto,
     RegLocalsOf, RequestRPCs, CleanupRPCs, OwnEntry
<1> QED
  BY <1>0, <1>1, <1>2, <1>3, <1>4, <1>5, <1>6, <1>7, QuietFrame DEF RestTypes

(* The end of a cleanup, by the reaper and by a publisher. *)
LEMMA CleanedInv ==
    ASSUME RegInv, NEW t \in Tasks,
           \/ \E s \in Sessions : t = ReaperOf(s) /\ ReaperDone(s)
           \/ t \in Publishers /\ (NextDead(t) \/ PublishDone(t))
    PROVE  RegInv'
<1>0. /\ RestTypes /\ PlaceOf(t) /\ RegLocalsOf(t) /\ 0 \in 0..Cardinality(Subs)
  BY RegTypes, CountType DEF RegInv
<1>1. HistoryTypes' /\ EnvTypes' /\ SharedTypes'
  BY <1>0 DEF RestTypes, EnvTypes, HistoryTypes, SharedTypes, ReaperDone, NextDead, PublishDone, envVars, sharedVars
<1>2. CleanupTypes' /\ (NextDead(t) => conn'[t] \in Conns)
  <2>1. ASSUME dead[t] # <<>> PROVE Head(dead[t]) \in Conns /\ Tail(dead[t]) \in Seq(Conns)
    BY <1>0, <2>1 DEF RestTypes, CleanupTypes
  <2> QED
    BY <1>0, <2>1 DEF RestTypes, CleanupTypes, ReaperDone, NextDead, PublishDone
<1>3. CallTypes'
  BY <1>0 DEF RestTypes, CallTypes, ReaperDone, NextDead, PublishDone, RGoto, RPCs
<1>4. RegOthers(t) /\ StaysOver(t) /\ connections' = connections /\ UNCHANGED vars
  BY <1>0 DEF RestTypes, CallTypes, CleanupTypes, ReaperDone, NextDead, PublishDone, RGoto, RegOthers, StaysOver,
     sharedVars, vars, callVars
<1>5. PlaceOf(t)'
  BY <1>0, <1>4, TaskKinds DEF RestTypes, CallTypes, ReaperDone, NextDead, PublishDone, RGoto, PlaceOf,
     vars, callVars, CleanupRPCs, Writing, Distributing
<1>6. RegLocalsOf(t)'
  BY <1>0, <1>2 DEF RestTypes, CallTypes, ReaperDone, NextDead, PublishDone, RGoto,
     RegLocalsOf, RequestRPCs, CleanupRPCs
<1> QED
  BY <1>0, <1>1, <1>2, <1>3, <1>4, <1>5, <1>6, QuietFrame DEF RestTypes

(* The address is registered, over whatever was registered under it. *)
LEMMA ConnectInv ==
    ASSUME RegInv, NEW s \in Sessions, Connect(s)
    PROVE  RegInv'
<1>0. /\ s \in Tasks /\ s \notin Reapers /\ s \notin Publishers /\ RestTypes /\ OwnEntry
      /\ PlaceOf(s) /\ AddrOf \in [Sessions -> Conns] /\ OverlapInv
  BY TaskKinds, RegTypes, RegistryAssumption DEF RegInv
<1>1. SharedTypes' /\ OwnEntry'
  BY <1>0 DEF RestTypes, SharedTypes, OwnEntry, Connect
<1>2. CleanupTypes' /\ HistoryTypes'
  BY <1>0 DEF RestTypes, CleanupTypes, HistoryTypes, Connect
<1>3. CallTypes' /\ EnvTypes'
  BY <1>0 DEF RestTypes, CallTypes, EnvTypes, Connect, RGoto, RPCs
<1>4. RegOthers(s) /\ StaysOver(s) /\ UNCHANGED vars
  BY <1>0 DEF RestTypes, CallTypes, Connect, RGoto, RegOthers, StaysOver, vars, callVars
<1>5. PlaceOf(s)' /\ RegLocalsOf(s)'
  BY <1>0, <1>4 DEF RestTypes, CallTypes, Connect, RGoto, PlaceOf, RegLocalsOf, vars, callVars,
     RequestRPCs, CleanupRPCs, Writing, Distributing
<1>6. OverlapInv'
  BY <1>0, <1>4, OverlapSame
<1> QED
  BY <1>0, <1>1, <1>2, <1>3, <1>4, <1>5, <1>6, RegFrame DEF RestTypes

(* The outbound task. *)
LEMMA OutboundInv ==
    ASSUME RegInv, NEW s \in Sessions, Drain(s) \/ OutboundFails(s) \/ OutboundStops(s)
    PROVE  RegInv'
<1>0. /\ s \in Tasks /\ RestTypes /\ PlaceOf(s) /\ RegLocalsOf(s)
  BY TaskKinds, RegTypes DEF RegInv
<1>1. UNCHANGED <<vars, connections, subs, writeLock, active>>
  BY DEF Drain, OutboundFails, OutboundStops, sharedVars
<1>2. UNCHANGED <<rpc, target, rsub, filters, isNew, conn, rids, count, dead, sent, owed>> /\ pc' = pc
  BY <1>1 DEF Drain, OutboundFails, OutboundStops, localVars, vars, callVars
<1>3. SharedTypes' /\ CallTypes' /\ CleanupTypes' /\ HistoryTypes'
  BY <1>0, <1>1, <1>2 DEF RestTypes, SharedTypes, CallTypes, CleanupTypes, HistoryTypes
<1>4. EnvTypes'
  BY <1>0, RegistryAssumption DEF RestTypes, EnvTypes, Drain, OutboundFails, OutboundStops
<1>5. RegOthers(s) /\ StaysOver(s) /\ PlaceOf(s)' /\ RegLocalsOf(s)'
  BY <1>0, <1>2 DEF RegOthers, StaysOver, PlaceOf, RegLocalsOf, Writing, Distributing
<1> QED
  BY <1>0, <1>1, <1>3, <1>4, <1>5, QuietFrame DEF RestTypes

(* The handle is dropped; its reaper starts, or does not. *)
LEMMA DropInv ==
    ASSUME RegInv, NEW s \in Sessions, DropHandle(s)
    PROVE  RegInv'
<1> PICK r : r = ReaperOf(s)
  OBVIOUS
<1>0. /\ s \in Tasks /\ s \notin Reapers /\ s \notin Publishers
      /\ r \in Tasks /\ r \in Reapers /\ r \notin Sessions /\ r \notin Publishers
      /\ RestTypes /\ PlaceOf(s) /\ PlaceOf(r) /\ RegLocalsOf(r)
      /\ \A u \in Tasks : PlaceOf(u) /\ RegLocalsOf(u)
      /\ AddrOf \in [Sessions -> Conns] /\ OverlapInv /\ OwnEntry
      /\ (rpc[s] # "done" => rpc[r] = "off")
  BY TaskKinds, RegTypes, RegistryAssumption DEF RegInv, ReapersWait
<1>1. UNCHANGED <<vars, connections, subs, writeLock, active>>
  BY DEF DropHandle, sharedVars
<1>2. SharedTypes' /\ HistoryTypes' /\ EnvTypes'
  BY <1>0, <1>1, RegistryAssumption DEF RestTypes, SharedTypes, HistoryTypes, EnvTypes, DropHandle
<1>3. CallTypes' /\ CleanupTypes'
  BY <1>0 DEF RestTypes, CallTypes, CleanupTypes, DropHandle, RPCs
<1>4. /\ \A u \in Tasks \ {s, r} : rpc'[u] = rpc[u] /\ conn'[u] = conn[u]
      /\ rpc'[s] = "done" /\ rpc'[r] \in {"cl_get", "off"} /\ (rpc'[r] = "cl_get" => conn'[r] = AddrOf[s])
      /\ UNCHANGED <<target, rsub, filters, pc>>
  BY <1>0, <1>1 DEF RestTypes, CallTypes, CleanupTypes, DropHandle, vars, callVars
<1>5. \A u \in Tasks \ {s, r} : PlaceOf(u)' /\ RegLocalsOf(u)'
  BY <1>0, <1>4 DEF PlaceOf, RegLocalsOf, Writing, Distributing
<1>6. PlaceOf(s)' /\ RegLocalsOf(s)'
  BY <1>0, <1>4 DEF PlaceOf, RegLocalsOf, Writing, Distributing, RequestRPCs, CleanupRPCs, DropHandle
<1>7. PlaceOf(r)' /\ RegLocalsOf(r)'
  <2>1. ~Writing(r) /\ ~Distributing(r)
    <3>1. rpc[r] \notin {"cl_index", "deliver"}
      BY <1>0 DEF DropHandle
    <3> QED
      BY <1>0, <3>1 DEF PlaceOf, CleanupRPCs
  <2> QED
    BY <1>0, <1>4, <2>1 DEF PlaceOf, RegLocalsOf, Writing, Distributing, RequestRPCs, CleanupRPCs
<1>8. OverlapInv' /\ OwnEntry'
  BY <1>0, <1>1, OverlapSame DEF OwnEntry
<1>9. ReapersWait'
  <2>1. \A u \in Sessions \ {s} : ReaperOf(u) # r /\ ReaperOf(u) # s
    BY <1>0, TaskKinds DEF ReaperOf
  <2> QED
    BY <1>0, <1>4, <2>1, TaskKinds DEF RegInv, ReapersWait
<1>10. RegTypeOK'
  BY <1>2, <1>3, <1>8 DEF OverlapInv, BasicInv, CallInv, RegTypeOK, RestTypes, SharedTypes,
     CallTypes, CleanupTypes, EnvTypes, HistoryTypes
<1> QED
  BY <1>5, <1>6, <1>7, <1>8, <1>9, <1>10 DEF RegInv

(* The entry goes, whoever registered it. *)
LEMMA UnregisterInv ==
    ASSUME RegInv, NEW t \in Tasks, ClRemove(t)
    PROVE  RegInv'
<1>0. RestTypes /\ PlaceOf(t) /\ RegLocalsOf(t) /\ OwnEntry /\ OverlapInv
  BY RegTypes DEF RegInv
<1>1. SharedTypes' /\ OwnEntry'
  BY <1>0 DEF RestTypes, SharedTypes, OwnEntry, ClRemove
<1>2. CleanupTypes' /\ HistoryTypes'
  BY <1>0 DEF RestTypes, CleanupTypes, HistoryTypes, ClRemove
<1>3. CallTypes' /\ EnvTypes'
  BY <1>0 DEF RestTypes, CallTypes, EnvTypes, ClRemove, RPCs
<1>4. RegOthers(t) /\ StaysOver(t) /\ UNCHANGED vars
  BY <1>0 DEF RestTypes, CallTypes, ClRemove, RegOthers, StaysOver, vars, callVars
<1>5. PlaceOf(t)' /\ RegLocalsOf(t)'
  BY <1>0, <1>4, TaskKinds DEF RestTypes, CallTypes, ClRemove, PlaceOf, RegLocalsOf, vars, callVars,
     RequestRPCs, CleanupRPCs, Writing, Distributing
<1>6. OverlapInv'
  BY <1>0, <1>4, OverlapSame
<1> QED
  BY <1>0, <1>1, <1>2, <1>3, <1>4, <1>5, <1>6, RegFrame DEF RestTypes

(* The keys of the registry are keys of the index. *)
LEMMA SubKeyType ==
    ASSUME NEW s \in Sessions, NEW u \in Subs
    PROVE  SubKey(s, u) \in Keys /\ SubKey(s, u)[1] = ScopeOf[s]
           /\ SubKey(s, u)[2] = AddrOf[s] /\ SubKey(s, u)[3] = u
  BY RegistryAssumption DEF SubKey, Keys

(* Where a call of the index leaves its task. *)
LEMMA CallPc ==
    ASSUME OverlapInv, NEW t \in Tasks
    PROVE  /\ \A k \in Keys : RemoveStart(t, k) =>
                pc'[t] \in {"rm_filter", "rm_snapshot"} /\ \A u \in Tasks \ {t} : pc'[u] = pc[u]
           /\ \A k \in Keys, fs \in FilterLists : AddStart(t, k, fs) =>
                pc'[t] = "add_filter" /\ \A u \in Tasks \ {t} : pc'[u] = pc[u]
           /\ \A e \in Events, s \in Scopes : DistStart(t, e, s) =>
                pc'[t] = "lookup" /\ \A u \in Tasks \ {t} : pc'[u] = pc[u]
           /\ DistReturn(t) => pc'[t] = "idle" /\ \A u \in Tasks \ {t} : pc'[u] = pc[u]
           /\ CallStep(t) =>
                /\ Writing(t)' => Writing(t)
                /\ Distributing(t)' <=> Distributing(t)
                /\ \A u \in Tasks \ {t} : pc'[u] = pc[u]
<1>0. pc \in [Tasks -> PCs]
  BY DEF OverlapInv, BasicInv, CallInv, TypeOK
<1>1. ASSUME AddStep(t)
      PROVE  /\ Writing(t)' => Writing(t)
             /\ Distributing(t)' <=> Distributing(t)
             /\ \A u \in Tasks \ {t} : pc'[u] = pc[u]
  BY <1>0, <1>1 DEF AddStep, AddFilter, AddToGroup, AddToIndex, AddReturn, Goto, Writing, Distributing
<1>2. ASSUME RemoveStep(t)
      PROVE  /\ Writing(t)' => Writing(t)
             /\ Distributing(t)' <=> Distributing(t)
             /\ \A u \in Tasks \ {t} : pc'[u] = pc[u]
  BY <1>0, <1>2 DEF RemoveStep, RemoveSnapshot, RemoveFilter, RemoveFromIndex, RemoveReturn, Goto,
     Writing, Distributing
<1>3. ASSUME DistStep(t)
      PROVE  /\ Writing(t)' => Writing(t)
             /\ Distributing(t)' <=> Distributing(t)
             /\ \A u \in Tasks \ {t} : pc'[u] = pc[u]
  BY <1>0, <1>3 DEF DistStep, Lookup, CheckFilter, MarkFilter, GetGroup, GroupSeen, GroupMark, DistDone,
     Goto, Writing, Distributing
<1> QED
  BY <1>0, <1>1, <1>2, <1>3 DEF CallStep, RemoveStart, AddStart, DistStart, DistReturn, Goto

(* The requests as they enter the index, and the cleanup of one id. *)
LEMMA EnterInv ==
    ASSUME RegInv, NEW t \in Tasks,
           (t \in Sessions /\ (RmLock(t) \/ AddLock(t))) \/ ClIndex(t)
    PROVE  RegInv'
<1>0. /\ RestTypes /\ PlaceOf(t) /\ RegLocalsOf(t) /\ OwnEntry /\ OverlapInv
      /\ (t \in Sessions => t \notin Reapers /\ t \notin Publishers)
      /\ None \notin Sessions /\ AddrOf \in [Sessions -> Conns] /\ ScopeOf \in [Sessions -> Scopes]
      /\ \A u \in Tasks : u \in Tasks
  BY RegTypes, TaskKinds, RegistryAssumption DEF RegInv
<1>1. SharedTypes'
  <2>1. CASE t \in Sessions /\ RmLock(t)
    BY <1>0, <2>1 DEF RestTypes, SharedTypes, RmLock
  <2>2. CASE t \in Sessions /\ AddLock(t)
    <3>1. rsub[t] \in Subs
      BY <1>0, <2>2 DEF AddLock, RGoto, RegLocalsOf, RequestRPCs
    <3> QED
      BY <1>0, <2>2, <3>1 DEF RestTypes, SharedTypes, AddLock
  <2>3. CASE ClIndex(t)
    BY <1>0, <2>3 DEF RestTypes, SharedTypes, ClIndex, sharedVars
  <2> QED
    BY <2>1, <2>2, <2>3
<1>2. CleanupTypes' /\ EnvTypes'
  <2>1. EnvTypes'
    BY <1>0 DEF RestTypes, EnvTypes, RmLock, AddLock, ClIndex, envVars
  <2>2. CASE ClIndex(t)
    <3>1. /\ UNCHANGED <<conn, count, dead>>
          /\ \E u \in rids[t] : rids' = [rids EXCEPT ![t] = @ \ {u}]
      BY <2>2 DEF ClIndex
    <3> QED
      BY <1>0, <2>1, <3>1 DEF RestTypes, CleanupTypes
  <2>3. CASE t \in Sessions /\ (RmLock(t) \/ AddLock(t))
    <3>1. UNCHANGED <<conn, rids, count, dead>>
      BY <2>3 DEF RmLock, AddLock
    <3> QED
      BY <1>0, <2>1, <3>1 DEF RestTypes, CleanupTypes
  <2> QED
    BY <2>1, <2>2, <2>3
<1>3. HistoryTypes'
  BY <1>0 DEF RestTypes, HistoryTypes, RmLock, AddLock, ClIndex, envVars
<1>4. CallTypes'
  <2>1. CASE t \in Sessions /\ RmLock(t)
    BY <1>0, <2>1 DEF RestTypes, CallTypes, RmLock, AfterRemove, RPCs
  <2>2. CASE t \in Sessions /\ AddLock(t)
    BY <1>0, <2>2 DEF RestTypes, CallTypes, AddLock, RGoto, RPCs
  <2>3. CASE ClIndex(t)
    BY <1>0, <2>3 DEF RestTypes, CallTypes, ClIndex
  <2> QED
    BY <2>1, <2>2, <2>3
<1>5. \/ /\ UNCHANGED vars /\ rpc[t] = "rm_lock" /\ rpc'[t] = AfterRemove(t)
      \/ /\ rpc'[t] \in {"rm_wait", "add_wait", "cl_index"}
         /\ rpc'[t] = "cl_index" => rpc[t] = "cl_index"
         /\ rpc'[t] = "rm_wait" => rpc[t] = "rm_lock"
         /\ rpc'[t] = "add_wait" => rpc[t] = "add_lock"
         /\ target' = target
         /\ \/ \E k \in Keys : RemoveStart(t, k)
            \/ \E k \in Keys, fs \in FilterLists : AddStart(t, k, fs)
  <2>1. CASE t \in Sessions /\ RmLock(t)
    <3>1. SubKey(target[t], rsub[t]) \in Keys
      BY <1>0, <2>1, SubKeyType DEF RmLock, RegLocalsOf, RequestRPCs
    <3> QED
      BY <1>0, <2>1, <3>1 DEF RmLock, RestTypes, CallTypes
  <2>2. CASE t \in Sessions /\ AddLock(t)
    <3>1. SubKey(target[t], rsub[t]) \in Keys /\ filters[t] \in FilterLists
      BY <1>0, <2>2, SubKeyType DEF AddLock, RGoto, RegLocalsOf, RequestRPCs
    <3> QED
      BY <1>0, <2>2, <3>1 DEF AddLock, RGoto, RestTypes, CallTypes
  <2>3. CASE ClIndex(t)
    <3>1. PICK u \in rids[t] : RemoveStart(t, <<ScopeOf[target[t]], conn[t], u>>)
      BY <2>3 DEF ClIndex
    <3>2. <<ScopeOf[target[t]], conn[t], u>> \in Keys
      BY <1>0, <2>3 DEF ClIndex, RegLocalsOf, CleanupRPCs, RestTypes, CleanupTypes, Keys
    <3> QED
      BY <1>0, <2>3, <3>1, <3>2 DEF ClIndex
  <2> QED
    BY <2>1, <2>2, <2>3
<1>6. OverlapInv'
  BY <1>0, <1>5, OverlapSame, CallOverlap
<1>7. /\ \A u \in Tasks \ {t} : /\ rpc'[u] = rpc[u] /\ target'[u] = target[u]
                                /\ rsub'[u] = rsub[u] /\ filters'[u] = filters[u] /\ conn'[u] = conn[u]
      /\ rsub'[t] = rsub[t] /\ filters'[t] = filters[t] /\ conn'[t] = conn[t]
      /\ rpc[t] \in {"rm_lock", "add_lock", "cl_index"}
  BY <1>0 DEF RestTypes, CallTypes, RmLock, AddLock, ClIndex, RGoto
<1>8. /\ \A u \in Tasks \ {t} : pc'[u] = pc[u]
      /\ UNCHANGED vars \/ (Writing(t)' /\ ~Distributing(t)')
  BY <1>0, <1>5, CallPc DEF Writing, Distributing, vars, callVars
<1>9. RegOthers(t) /\ StaysOver(t) /\ OwnEntry'
  BY <1>0, <1>5, <1>7, <1>8 DEF RegOthers, StaysOver, OwnEntry, RmLock, AddLock, ClIndex, sharedVars
<1>10. PlaceOf(t)'
  <2>1. CASE UNCHANGED vars /\ rpc[t] = "rm_lock" /\ rpc'[t] = AfterRemove(t)
    BY <1>0, <2>1, TaskKinds DEF PlaceOf, vars, callVars, AfterRemove, Writing, Distributing, CleanupRPCs
  <2>2. CASE rpc'[t] = "cl_index"
    BY <1>0, <1>5, <1>7, <1>8, <2>2, TaskKinds DEF PlaceOf, vars, callVars, Writing, Distributing, CleanupRPCs, AfterRemove
  <2>3. CASE rpc'[t] \in {"rm_wait", "add_wait"} /\ Writing(t)' /\ ~Distributing(t)'
    BY <1>0, <1>5, <1>7, <2>3, TaskKinds DEF PlaceOf, CleanupRPCs, AfterRemove
  <2>4. rpc'[t] \in {"rm_wait", "add_wait"} => ~(UNCHANGED vars)
    BY <1>0, <1>5, <1>7
    DEF PlaceOf, RemoveStart, AddStart, Goto, vars, callVars, AfterRemove, OverlapInv, BasicInv, CallInv, TypeOK
  <2> QED
    BY <1>5, <1>8, <2>1, <2>2, <2>3, <2>4
<1>11. RegLocalsOf(t)'
  <2>1. CASE rpc[t] = "rm_lock" /\ rpc'[t] = AfterRemove(t)
    BY <1>0, <1>7, <2>1 DEF RegLocalsOf, AfterRemove, RequestRPCs, CleanupRPCs, RestTypes, CallTypes
  <2>2. CASE rpc'[t] \in {"rm_wait", "add_wait", "cl_index"} /\ target' = target
    BY <1>0, <1>5, <1>7, <2>2 DEF RegLocalsOf, RequestRPCs, CleanupRPCs, AfterRemove
  <2> QED
    BY <1>5, <2>1, <2>2
<1> QED
  BY <1>0, <1>1, <1>2, <1>3, <1>4, <1>6, <1>9, <1>10, <1>11, RegFrame DEF RestTypes

(* A publisher enters the index of the event's scope, and leaves it. *)
LEMMA PublishInv ==
    ASSUME RegInv, NEW p \in Publishers, Publish(p) \/ DeliverDone(p)
    PROVE  RegInv'
<1>0. /\ p \in Tasks /\ p \notin Reapers /\ p \notin Sessions /\ RestTypes /\ PlaceOf(p) /\ RegLocalsOf(p)
      /\ OwnEntry /\ OverlapInv
  BY TaskKinds, RegTypes DEF RegInv
<1>1. SharedTypes' /\ CleanupTypes' /\ UNCHANGED <<connections, target, rsub, filters, isNew, conn, sent>>
  BY <1>0 DEF RestTypes, SharedTypes, CleanupTypes, Publish, DeliverDone, sharedVars, envVars
<1>2. CallTypes' /\ \A u \in Tasks \ {p} : rpc'[u] = rpc[u]
  BY <1>0, <1>1 DEF RestTypes, CallTypes, Publish, DeliverDone, RGoto, RPCs
<1>3. EnvTypes'
  BY <1>0, RegistryAssumption DEF RestTypes, EnvTypes, Publish, DeliverDone, envVars
<1>4. HistoryTypes'
  <2>1. CASE Publish(p)
    <3>1. \A e \in Events : e.id \in EventIds
      BY IndexAssumption DEF Event
    <3> QED
      BY <1>0, <1>1, <2>1, <3>1 DEF RestTypes, HistoryTypes, Publish
  <2> QED
    BY <1>0, <2>1 DEF RestTypes, HistoryTypes, DeliverDone, envVars
<1>5. /\ \A u \in Tasks \ {p} : pc'[u] = pc[u]
      /\ rpc[p] \in {"idle", "deliver"} /\ rpc'[p] \in {"deliver", "cl_done"}
      /\ ~Writing(p)' /\ (Distributing(p)' <=> rpc'[p] = "deliver") /\ OverlapInv'
  <2>1. CASE Publish(p)
    <3>1. PICK e \in Events, sc \in Scopes : DistStart(p, e, sc)
      BY <2>1 DEF Publish
    <3>2. rpc[p] = "idle" /\ rpc'[p] = "deliver"
      BY <1>0, <2>1 DEF Publish, RGoto, RestTypes, CallTypes
    <3> QED
      BY <1>0, <3>1, <3>2, CallPc, CallOverlap DEF Writing, Distributing
  <2>2. CASE DeliverDone(p)
    <3>1. DistReturn(p) /\ rpc[p] = "deliver" /\ rpc'[p] = "cl_done"
      BY <1>0, <2>2 DEF DeliverDone, RGoto, RestTypes, CallTypes
    <3> QED
      BY <1>0, <3>1, CallPc, CallOverlap DEF Writing, Distributing
  <2> QED
    BY <2>1, <2>2
<1>6. RegOthers(p) /\ StaysOver(p) /\ OwnEntry'
  BY <1>0, <1>1, <1>2, <1>5 DEF RegOthers, StaysOver, OwnEntry
<1>7. PlaceOf(p)' /\ RegLocalsOf(p)'
  BY <1>0, <1>5 DEF PlaceOf, RegLocalsOf, RequestRPCs, CleanupRPCs
<1> QED
  BY <1>0, <1>1, <1>2, <1>3, <1>4, <1>5, <1>6, <1>7, RegFrame DEF RestTypes

(* One matching subscription. *)
LEMMA DeliverInv ==
    ASSUME RegInv, NEW p \in Publishers, Deliver(p)
    PROVE  RegInv'
<1> DEFINE k == Head(matching[p])
           data == connections[k[2]]
<1>0. /\ p \in Tasks /\ RestTypes /\ PlaceOf(p) /\ RegLocalsOf(p) /\ OwnEntry /\ OverlapInv
      /\ Capacity \in Nat /\ None \notin Sessions /\ rpc[p] = "deliver"
      /\ matching \in [Tasks -> Seq(Keys)] /\ event \in [Tasks -> Events \cup {None}]
      /\ scope \in [Tasks -> Scopes \cup {None}] /\ LocalsOf(p)
  BY TaskKinds, RegTypes, RegistryAssumption
  DEF RegInv, Deliver, OverlapInv, BasicInv, CallInv, TypeOK, LocalsInv
<1>1. /\ k \in Keys /\ Tail(matching[p]) \in Seq(Keys)
      /\ event[p].id \in EventIds /\ scope[p] \in Scopes
  <2>1. event[p] \in Events /\ scope[p] \in Scopes
    BY <1>0 DEF PlaceOf, LocalsOf
  <2> QED
    BY <1>0, <2>1, IndexAssumption DEF Deliver, Event
<1>2. k[2] \in Conns /\ k[3] \in Subs /\ data \in Sessions \cup {None}
  BY <1>0, <1>1 DEF Keys, RestTypes, SharedTypes
<1>3. UNCHANGED <<sharedVars, rpc, target, rsub, filters, isNew, conn, rids, count, outbound, socket,
                  requests, published, owed>>
  BY DEF Deliver
<1>4. SharedTypes' /\ CallTypes'
  BY <1>0, <1>3 DEF RestTypes, SharedTypes, CallTypes, sharedVars
<1>5. CleanupTypes'
  <2>1. dead' \in [Tasks -> Seq(Conns)]
    <3>1. Append(dead[p], k[2]) \in Seq(Conns)
      BY <1>0, <1>2 DEF RestTypes, CleanupTypes
    <3> QED
      BY <1>0, <3>1 DEF Deliver, RestTypes, CleanupTypes
  <2> QED
    BY <1>0, <1>3, <2>1 DEF RestTypes, CleanupTypes
<1>6. EnvTypes'
  <2>1. CASE data # None /\ CanSend(data)
    <3>1. data \in Sessions /\ queued[data] + 1 \in 0..Capacity
      BY <1>0, <1>2, <2>1 DEF RestTypes, EnvTypes, CanSend
    <3> QED
      BY <1>0, <1>3, <2>1, <3>1 DEF Deliver, RestTypes, EnvTypes
  <2>2. CASE ~(data # None /\ CanSend(data))
    <3>1. queued' = queued
      BY <2>2 DEF Deliver
    <3> QED
      BY <1>0, <1>3, <3>1 DEF RestTypes, EnvTypes
  <2> QED
    BY <2>1, <2>2
<1>7. HistoryTypes'
  BY <1>0, <1>1, <1>2, <1>3 DEF Deliver, RestTypes, HistoryTypes
<1>8. OverlapInv'
  <2>1. ButResults /\ matching' \in [Tasks -> Seq(Keys)]
    BY <1>0, <1>1 DEF Deliver, ButResults
  <2> QED
    BY <1>0, <2>1, OverlapStutter
<1>9. /\ RegOthers(p) /\ StaysOver(p) /\ PlaceOf(p)' /\ RegLocalsOf(p)' /\ OwnEntry'
  <2>1. pc' = pc
    BY DEF Deliver
  <2> QED
    BY <1>0, <1>3, <2>1 DEF RegOthers, StaysOver, PlaceOf, RegLocalsOf, OwnEntry, sharedVars, Writing, Distributing
<1> QED
  BY <1>0, <1>4, <1>5, <1>6, <1>7, <1>8, <1>9, RegFrame DEF RestTypes

(* The steps inside the index. *)
LEMMA IndexStepInv ==
    ASSUME RegInv, NEW t \in Tasks, IndexStep(t)
    PROVE  RegInv'
<1>0. RestTypes /\ PlaceOf(t) /\ RegLocalsOf(t) /\ OwnEntry /\ OverlapInv /\ CallStep(t)
  BY RegTypes DEF RegInv, IndexStep
<1>1. /\ UNCHANGED <<connections, subs, writeLock, active>>
      /\ UNCHANGED <<rpc, target, rsub, filters, isNew, conn, rids, count, dead>>
      /\ UNCHANGED <<queued, outbound, socket, requests, published, sent, owed>>
  BY DEF IndexStep, sharedVars, localVars, envVars
<1>2. SharedTypes' /\ CallTypes' /\ CleanupTypes' /\ EnvTypes' /\ HistoryTypes'
  BY <1>0, <1>1 DEF RestTypes, SharedTypes, CallTypes, CleanupTypes, EnvTypes, HistoryTypes
<1>3. OverlapInv'
  BY <1>0, CallOverlap
<1>4. /\ RegOthers(t) /\ StaysOver(t) /\ PlaceOf(t)' /\ RegLocalsOf(t)' /\ OwnEntry'
  BY <1>0, <1>1, CallPc DEF RegOthers, StaysOver, PlaceOf, RegLocalsOf, OwnEntry
<1> QED
  BY <1>2, <1>3, <1>4, RegFrame DEF RestTypes

LEMMA RegInvInit == RegInit => RegInv
<1> SUFFICES ASSUME RegInit PROVE RegInv
  OBVIOUS
<1>1. OverlapInv /\ \A t \in Tasks : pc[t] = "idle"
  BY BasicInit, FiledInit DEF RegInit, OverlapInv, Init
<1>2. SharedTypes /\ CallTypes /\ HistoryTypes
  BY DEF RegInit, SharedTypes, CallTypes, HistoryTypes, RPCs
<1>3. CleanupTypes /\ EnvTypes
  BY CountType, RegistryAssumption DEF RegInit, CleanupTypes, EnvTypes
<1>4. \A t \in Tasks : PlaceOf(t) /\ RegLocalsOf(t)
  BY <1>1, TaskKinds DEF RegInit, PlaceOf, RegLocalsOf, RequestRPCs, CleanupRPCs, Writing, Distributing
<1>5. OwnEntry /\ ReapersWait
  BY TaskKinds DEF RegInit, OwnEntry, ReapersWait
<1> QED
  BY <1>1, <1>2, <1>3, <1>4, <1>5, RegTypes DEF RegInv, RestTypes, OverlapInv, BasicInv, CallInv

(* The steps of RegNext, by the task that makes them. *)
RegStep(t) ==
    \/ /\ t \in Sessions
       /\ \/ Connect(t) \/ Req(t) \/ CloseSub(t) \/ Disconnect(t) \/ Unwind(t)
          \/ RmGet(t) \/ RmLock(t) \/ RmDone(t) \/ AddGet(t) \/ AddLock(t) \/ AddDone(t)
          \/ EndSession(t) \/ DropHandle(t) \/ Drain(t) \/ OutboundFails(t) \/ OutboundStops(t)
    \/ \E s \in Sessions : t = ReaperOf(s) /\ ReaperDone(s)
    \/ /\ t \in Publishers
       /\ Publish(t) \/ Deliver(t) \/ DeliverDone(t) \/ NextDead(t) \/ PublishDone(t)
    \/ CleanupStep(t) \/ IndexStep(t)

LEMMA RegSteps == ASSUME RegNext PROVE \E t \in Tasks : RegStep(t)
<1>1. CASE ClientStep
  BY <1>1, TaskKinds DEF ClientStep, RegStep
<1>2. ASSUME NEW s \in Sessions,
             SessionStep(s) \/ Drain(s) \/ OutboundFails(s) \/ OutboundStops(s)
      PROVE  RegStep(s)
  BY <1>2 DEF SessionStep, RegStep
<1>3. ASSUME NEW s \in Sessions, ReaperStep(s) PROVE RegStep(ReaperOf(s))
  BY <1>3 DEF ReaperStep, RegStep
<1>4. ASSUME NEW p \in Publishers, PublisherStep(p) PROVE RegStep(p)
  BY <1>4 DEF PublisherStep, RegStep
<1> QED
  BY <1>1, <1>2, <1>3, <1>4, TaskKinds DEF RegNext

LEMMA RegInvStep == RegInv /\ [RegNext]_regVars => RegInv'
<1> SUFFICES ASSUME RegInv, [RegNext]_regVars PROVE RegInv'
  OBVIOUS
<1>1. ASSUME NEW t \in Tasks, RegStep(t) PROVE RegInv'
  <2>1. CASE t \in Sessions /\ (Disconnect(t) \/ Unwind(t) \/ EndSession(t))
    BY <2>1, EndInv
  <2>2. CASE t \in Sessions /\ (CloseSub(t) \/ RmGet(t) \/ RmDone(t) \/ AddGet(t) \/ AddDone(t))
    BY <2>2, RequestInv
  <2>3. CASE (t \in Sessions /\ (RmLock(t) \/ AddLock(t))) \/ ClIndex(t)
    BY <2>3, EnterInv
  <2>4. CASE t \in Sessions /\ (Drain(t) \/ OutboundFails(t) \/ OutboundStops(t))
    BY <2>4, OutboundInv
  <2>5. CASE ClGet(t) \/ ClRead(t) \/ ClMetrics(t) \/ ClRemove(t)
    BY <2>5, CleanupInv, UnregisterInv
  <2>6. CASE \/ \E s \in Sessions : t = ReaperOf(s) /\ ReaperDone(s)
             \/ t \in Publishers /\ (NextDead(t) \/ PublishDone(t))
    BY <2>6, CleanedInv
  <2>7. CASE t \in Publishers /\ (Publish(t) \/ Deliver(t) \/ DeliverDone(t))
    BY <2>7, PublishInv, DeliverInv
  <2>8. CASE IndexStep(t) \/ (t \in Sessions /\ (Connect(t) \/ Req(t) \/ DropHandle(t)))
    BY <2>8, IndexStepInv, ConnectInv, ReqInv, DropInv
  <2> QED
    BY <1>1, <2>1, <2>2, <2>3, <2>4, <2>5, <2>6, <2>7, <2>8 DEF RegStep, CleanupStep
<1>2. CASE UNCHANGED regVars
  <2>1. /\ UNCHANGED <<connections, subs, writeLock, active>> /\ UNCHANGED vars /\ pc' = pc
        /\ UNCHANGED <<rpc, target, rsub, filters, isNew, conn, rids, count, dead>>
        /\ UNCHANGED <<queued, outbound, socket, requests, published, sent, owed>>
    BY <1>2 DEF regVars, vars, callVars, sharedVars, localVars, envVars
  <2>2. OverlapInv'
    BY <2>1, OverlapSame DEF RegInv
  <2>3. RegTypeOK'
    BY <2>1, <2>2 DEF RegInv, RegTypeOK, OverlapInv, BasicInv, CallInv
  <2>4. \A t \in Tasks : PlaceOf(t)' /\ RegLocalsOf(t)'
    BY <2>1 DEF RegInv, PlaceOf, RegLocalsOf, Writing, Distributing
  <2> QED
    BY <2>1, <2>2, <2>3, <2>4 DEF RegInv, OwnEntry, ReapersWait
<1> QED
  BY <1>1, <1>2, RegSteps

(***************************************************************************)
(* The registry and the index under it, for calls that overlap in any way: *)
(* the maps have the types the code relies on, no channel ever holds more  *)
(* than its capacity, every task's locals are set where it uses them, an   *)
(* entry of connections is that of a session with the address, and the     *)
(* index keeps the filters of every live group in place.                   *)
(***************************************************************************)
THEOREM RegistryInvariance == RegSpec => []RegInv
  BY RegInvInit, RegInvStep, PTL DEF RegSpec

(* RegTypeOK for any constants. *)
THEOREM RegistryTypes == RegSpec => []RegTypeOK
<1>1. RegInv => RegTypeOK
  BY DEF RegInv
<1> QED
  BY <1>1, RegistryInvariance, PTL

-----------------------------------------------------------------------------
(***************************************************************************)
(* Isolation: what a distribution comes upon are subscriptions of sessions *)
(* of its scope.                                                           *)
(***************************************************************************)
OthersFind(t) ==
    \A u \in Tasks \ {t} :
       /\ pc'[u] = pc[u] /\ key'[u] = key[u] /\ ids'[u] = ids[u]
       /\ scope'[u] = scope[u] /\ matching'[u] = matching[u]

LEMMA FoundFrame ==
    ASSUME OverlapInv, FoundInv, NEW t \in Tasks, OthersFind(t), KeysOf(t)',
           \A id \in FilterIds :
              /\ tracked[id] # None => tracked'[id] = tracked[id]
              /\ tracked'[id] # None => tracked'[id] = tracked[id] \/ SessionKey(tracked'[id].parent)
    PROVE  FoundInv'
<1>1. ASSUME NEW u \in Tasks, u # t PROVE KeysOf(u)'
  <2>1. KeysOf(u) /\ LocalsOf(u) /\ ids[u] \subseteq FilterIds
    BY DEF OverlapInv, BasicInv, CallInv, TypeOK, LocalsInv, FoundInv
  <2>2. Distributing(u) => \A id \in ids[u] : tracked'[id] = tracked[id]
    BY <2>1 DEF LocalsOf
  <2> QED
    BY <1>1, <2>1, <2>2 DEF OthersFind, KeysOf, InScope, Adding, Distributing
<1> QED
  BY <1>1 DEF FoundInv

(* add_subscription and remove_subscription. *)
LEMMA WriterFound ==
    ASSUME OverlapInv, FoundInv, NEW t \in Tasks,
           \/ \E k \in Keys, fs \in FilterLists : SessionKey(k) /\ AddStart(t, k, fs)
           \/ \E k \in Keys : RemoveStart(t, k)
           \/ AddStep(t) \/ RemoveStep(t)
    PROVE  FoundInv'
<1>0. /\ pc \in [Tasks -> PCs] /\ key \in [Tasks -> Keys \cup {None}] /\ ids \in [Tasks -> SUBSET FilterIds]
      /\ KeysOf(t) /\ matching[t] = matching[t]
      /\ tracked \in [FilterIds -> [filter : Filter, parent : Keys] \cup {None}]
  BY DEF OverlapInv, BasicInv, CallInv, TypeOK, FoundInv
<1>1. OthersFind(t) /\ ~Distributing(t) /\ ~Distributing(t)' /\ UNCHANGED <<scope, matching>>
  BY <1>0 DEF AddStart, RemoveStart, AddStep, RemoveStep, AddFilter, AddToGroup, AddToIndex, AddReturn,
     RemoveSnapshot, RemoveFilter, RemoveFromIndex, RemoveReturn, Goto, OthersFind, Distributing
<1>2. Adding(t)' => SessionKey(key'[t])
  BY <1>0 DEF KeysOf, AddStart, RemoveStart, AddStep, RemoveStep, AddFilter, AddToGroup, AddToIndex, AddReturn,
     RemoveSnapshot, RemoveFilter, RemoveFromIndex, RemoveReturn, Goto, Adding
<1>3. ASSUME NEW id \in FilterIds
      PROVE  /\ tracked[id] # None => tracked'[id] = tracked[id]
             /\ tracked'[id] # None => tracked'[id] = tracked[id] \/ SessionKey(tracked'[id].parent)
  <2>1. CASE AddFilter(t)
    <3>1. /\ next_filter_id \in FilterIds /\ tracked[next_filter_id] = None
          /\ tracked' = [tracked EXCEPT ![next_filter_id] = [filter |-> Head(todo[t]), parent |-> key[t]]]
      BY <2>1, IndexAssumption DEF AddFilter, OverlapInv, BasicInv, CallInv, TypeOK, AllocInv, FilterIds
    <3>2. SessionKey(key[t])
      BY <1>0, <2>1 DEF KeysOf, AddFilter, Goto, Adding
    <3> QED
      BY <1>0, <3>1, <3>2
  <2>2. CASE ~AddFilter(t)
    <3>1. tracked' = tracked
      BY <2>2 DEF AddStart, RemoveStart, AddStep, RemoveStep, AddToGroup, AddToIndex, AddReturn,
         RemoveSnapshot, RemoveFilter, RemoveFromIndex, RemoveReturn, Goto, indexVars
    <3> QED
      BY <3>1
  <2> QED
    BY <2>1, <2>2
<1>4. KeysOf(t)'
  <2>1. pc'[t] \notin {"mark_filter", "group_get", "group_seen", "group_mark"}
    BY <1>1 DEF Distributing
  <2>2. matching'[t] = <<>>
    BY <1>0, <1>1 DEF KeysOf
  <2> QED
    BY <1>1, <1>2, <2>1, <2>2 DEF KeysOf
<1> QED
  BY <1>1, <1>3, <1>4, FoundFrame

(* distribute_event: its candidates, the key in hand and its result. *)
LEMMA DistFound ==
    ASSUME OverlapInv, FoundInv, NEW t \in Tasks,
           \/ \E e \in Events, s \in Scopes : DistStart(t, e, s)
           \/ DistStep(t) \/ DistReturn(t)
    PROVE  FoundInv'
<1>0. /\ pc \in [Tasks -> PCs] /\ key \in [Tasks -> Keys \cup {None}] /\ ids \in [Tasks -> SUBSET FilterIds]
      /\ matching \in [Tasks -> Seq(Keys)] /\ scope \in [Tasks -> Scopes \cup {None}]
      /\ KeysOf(t) /\ LocalsOf(t)
      /\ \A id \in FilterIds : tracked[id] # None => SessionKey(tracked[id].parent)
  BY DEF OverlapInv, BasicInv, CallInv, TypeOK, LocalsInv, FoundInv
<1>1. OthersFind(t) /\ tracked' = tracked
  BY <1>0 DEF DistStart, DistReturn, DistStep, Lookup, CheckFilter, MarkFilter, GetGroup, GroupSeen,
     GroupMark, DistDone, Goto, OthersFind, indexVars
<1>2. KeysOf(t)'
  <2>1. ASSUME NEW e \in Events, NEW s \in Scopes, DistStart(t, e, s) PROVE KeysOf(t)'
    <3>1. pc[t] = "idle" /\ pc'[t] = "lookup" /\ ids'[t] = {} /\ matching'[t] = <<>>
      BY <1>0, <2>1 DEF DistStart, Goto, KeysOf, LocalsOf, Distributing
    <3> QED
      BY <3>1 DEF KeysOf, Adding, Distributing
  <2>2. CASE DistReturn(t)
    <3>1. pc'[t] = "idle" /\ matching'[t] = <<>>
      BY <1>0, <2>2 DEF DistReturn, Goto
    <3> QED
      BY <3>1 DEF KeysOf, Adding, Distributing
  <2>3. CASE Lookup(t)
    <3>1. /\ pc[t] = "lookup" /\ pc'[t] \in {"lookup", "check"} /\ UNCHANGED <<key, scope, matching>>
          /\ \A id \in ids'[t] : id \in ids[t] \/ tracked[id].parent[1] = scope[t]
      BY <1>0, <2>3 DEF Lookup
    <3> QED
      BY <1>0, <1>1, <3>1 DEF KeysOf, Adding, Distributing, InScope
  <2>4. CASE CheckFilter(t)
    <3>1. PICK id \in ids[t] :
             /\ ids' = [ids EXCEPT ![t] = @ \ {id}]
             /\ UNCHANGED <<pc, key>> \/ (pc'[t] = "mark_filter" /\ key'[t] = tracked[id].parent)
      BY <1>0, <2>4 DEF CheckFilter
    <3>2. pc[t] = "check" /\ UNCHANGED <<scope, matching>>
      BY <2>4 DEF CheckFilter
    <3>3. InScope(t, tracked[id].parent)
      BY <1>0, <3>2 DEF KeysOf, LocalsOf, InScope, Distributing
    <3> QED
      BY <1>0, <1>1, <3>1, <3>2, <3>3 DEF KeysOf, Adding, Distributing, InScope
  <2>5. CASE MarkFilter(t) \/ GetGroup(t) \/ GroupSeen(t) \/ DistDone(t)
    <3>1. /\ UNCHANGED <<ids, scope, matching>> /\ Distributing(t) /\ Distributing(t)' /\ ~Adding(t)'
          /\ pc'[t] \in {"mark_filter", "group_get", "group_seen", "group_mark"} =>
                key'[t] = key[t] /\ pc[t] \in {"mark_filter", "group_get", "group_seen", "group_mark"}
      BY <1>0, <2>5 DEF MarkFilter, GetGroup, GroupSeen, DistDone, Goto, Distributing, Adding
    <3> QED
      BY <1>0, <1>1, <3>1 DEF KeysOf, InScope
  <2>6. CASE GroupMark(t)
    <3>1. /\ pc[t] = "group_mark" /\ pc'[t] = "check" /\ UNCHANGED <<ids, scope>>
          /\ key[t] \in Keys /\ matching'[t] = Append(matching[t], key[t])
      BY <1>0, <2>6 DEF GroupMark, Goto, LocalsOf
    <3>2. ASSUME NEW i \in DOMAIN matching'[t] PROVE InScope(t, matching'[t][i])
      BY <1>0, <3>1 DEF KeysOf
    <3> QED
      BY <1>0, <1>1, <3>1, <3>2 DEF KeysOf, Adding, Distributing, InScope
  <2> QED
    BY <2>1, <2>2, <2>3, <2>4, <2>5, <2>6 DEF DistStep
<1> QED
  BY <1>1, <1>2, FoundFrame

(* The result shrinks as it is sent. *)
LEMMA DeliverFound ==
    ASSUME OverlapInv, FoundInv, NEW p \in Publishers, Deliver(p)
    PROVE  FoundInv'
<1>0. p \in Tasks /\ matching \in [Tasks -> Seq(Keys)] /\ KeysOf(p) /\ matching[p] # <<>>
  BY TaskKinds DEF OverlapInv, BasicInv, CallInv, TypeOK, FoundInv, Deliver
<1>1. UNCHANGED <<pc, key, ids, scope, tracked>> /\ matching' = [matching EXCEPT ![p] = Tail(@)]
  BY DEF Deliver, indexVars
<1>2. ASSUME NEW i \in DOMAIN Tail(matching[p])
      PROVE  i + 1 \in DOMAIN matching[p] /\ Tail(matching[p])[i] = matching[p][i + 1]
  BY <1>0
<1>3. KeysOf(p)'
  <2>1. Distributing(p)
    BY <1>0 DEF KeysOf
  <2>2. \A i \in DOMAIN matching'[p] : InScope(p, matching'[p][i])
    BY <1>0, <1>1, <1>2 DEF KeysOf
  <2> QED
    BY <1>0, <1>1, <2>1, <2>2 DEF KeysOf, Adding, Distributing, InScope
<1> QED
  BY <1>0, <1>1, <1>3, FoundFrame DEF OthersFind

LEMMA IsolationStep == RegInv /\ IsolationInv /\ [RegNext]_regVars => IsolationInv'
<1> SUFFICES ASSUME RegInv, IsolationInv, [RegNext]_regVars PROVE IsolationInv'
  OBVIOUS
<1>0. OverlapInv /\ FoundInv /\ AddressIsolation
  BY DEF RegInv, IsolationInv
<1>a. UNCHANGED vars => FoundInv'
  <2> SUFFICES ASSUME UNCHANGED vars PROVE FoundInv'
    OBVIOUS
  <2>1. UNCHANGED <<pc, key, ids, scope, matching, tracked>>
    BY DEF vars, callVars, indexVars
  <2>2. \A t \in Tasks : KeysOf(t)'
    BY <1>0, <2>1 DEF FoundInv, KeysOf, Adding, Distributing, InScope
  <2> QED
    BY <1>0, <2>1, <2>2 DEF FoundInv
<1>b. sent' \subseteq sent => AddressIsolation'
  BY <1>0 DEF AddressIsolation
<1>1. ASSUME NEW t \in Tasks, RegStep(t) PROVE IsolationInv'
  <2>1. CASE t \in Publishers /\ Deliver(t)
    <3> DEFINE k == Head(matching[t])
               data == connections[k[2]]
    <3>1. /\ k \in Keys /\ InScope(t, k)
      <4>1. matching[t] # <<>> /\ matching[t] \in Seq(Keys) /\ KeysOf(t)
        BY <1>0, <2>1 DEF Deliver, OverlapInv, BasicInv, CallInv, TypeOK, FoundInv
      <4>2. 1 \in DOMAIN matching[t] /\ Head(matching[t]) = matching[t][1] /\ k \in Keys
        BY <4>1
      <4> QED
        BY <4>1, <4>2 DEF KeysOf
    <3>2. PICK o \in Sessions, u \in Subs : k = SubKey(o, u)
      BY <3>1 DEF InScope, SessionKey
    <3>3. AddrOf[o] = k[2] /\ ScopeOf[o] = scope[t] /\ k[2] \in Conns
      BY <3>1, <3>2, SubKeyType DEF InScope, Keys
    <3>4. data # None => AddrOf[data] = AddrOf[o]
      BY <3>3 DEF RegInv, OwnEntry
    <3>5. \A r \in sent' : r \in sent \/ (data # None /\ r = <<data, k[3], event[t].id, scope[t]>>)
      BY <2>1 DEF Deliver
    <3>6. AddressIsolation'
      BY <1>0, <3>3, <3>4, <3>5 DEF AddressIsolation
    <3> QED
      BY <1>0, <2>1, <3>6, DeliverFound DEF IsolationInv
  <2>2. CASE t \in Sessions /\ RmLock(t)
    <3>1. sent' \subseteq sent
      BY <2>2 DEF RmLock
    <3>2. (\E k \in Keys : RemoveStart(t, k)) \/ UNCHANGED vars
      BY <2>2, SubKeyType DEF RmLock, RegInv, RegLocalsOf, RequestRPCs
    <3> QED
      BY <1>0, <1>a, <1>b, <3>1, <3>2, WriterFound DEF IsolationInv
  <2>3. CASE t \in Sessions /\ AddLock(t)
    <3>1. sent' = sent
      BY <2>3 DEF AddLock, envVars
    <3>2. target[t] \in Sessions /\ rsub[t] \in Subs /\ filters[t] \in FilterLists
      BY <2>3 DEF AddLock, RGoto, RegInv, RegLocalsOf, RequestRPCs
    <3>3. \E k \in Keys, fs \in FilterLists : SessionKey(k) /\ AddStart(t, k, fs)
      BY <2>3, <3>2, SubKeyType DEF AddLock, SessionKey
    <3> QED
      BY <1>0, <1>b, <3>1, <3>3, WriterFound DEF IsolationInv
  <2>4. CASE ClIndex(t)
    <3>1. sent' = sent
      BY <2>4 DEF ClIndex, envVars
    <3>2. target[t] \in Sessions /\ conn[t] \in Conns /\ rids[t] \subseteq Subs
      BY <2>4 DEF ClIndex, RegInv, RegLocalsOf, CleanupRPCs, RegTypeOK
    <3>3. \E k \in Keys : RemoveStart(t, k)
      BY <2>4, <3>2, RegistryAssumption DEF ClIndex, Keys
    <3> QED
      BY <1>0, <1>b, <3>1, <3>3, WriterFound DEF IsolationInv
  <2>5. CASE t \in Publishers /\ (Publish(t) \/ DeliverDone(t))
    <3>1. sent' = sent
      BY <2>5 DEF Publish, DeliverDone, envVars
    <3>2. (\E e \in Events, s \in Scopes : DistStart(t, e, s)) \/ DistReturn(t)
      BY <2>5 DEF Publish, DeliverDone
    <3> QED
      BY <1>0, <1>b, <3>1, <3>2, DistFound DEF IsolationInv
  <2>6. CASE IndexStep(t)
    <3>1. sent' = sent /\ CallStep(t)
      BY <2>6 DEF IndexStep, envVars
    <3> QED
      BY <1>0, <1>b, <3>1, WriterFound, DistFound DEF IsolationInv, CallStep
  <2>7. CASE UNCHANGED <<vars, sent>>
    BY <1>a, <1>b, <2>7 DEF IsolationInv
  <2>8. \/ UNCHANGED <<vars, sent>>
        \/ t \in Sessions /\ (RmLock(t) \/ AddLock(t))
        \/ t \in Publishers /\ (Publish(t) \/ Deliver(t) \/ DeliverDone(t))
        \/ ClIndex(t) \/ IndexStep(t)
    BY <1>1 DEF RegStep, Connect, Req, CloseSub, Disconnect, Unwind, RmGet, RmDone, AddGet, AddDone,
       EndSession, DropHandle, Drain, OutboundFails, OutboundStops, ReaperDone, NextDead, PublishDone,
       CleanupStep, ClGet, ClRead, ClRemove, ClMetrics, envVars
  <2> QED
    BY <2>1, <2>2, <2>3, <2>4, <2>5, <2>6, <2>7, <2>8
<1>2. CASE UNCHANGED regVars
  BY <1>2, <1>a, <1>b DEF regVars, envVars, IsolationInv
<1> QED
  BY <1>1, <1>2, RegSteps

LEMMA IsolationInit == RegInit => IsolationInv
  BY DEF RegInit, Init, IsolationInv, FoundInv, AddressIsolation, KeysOf, Adding, Distributing

(***************************************************************************)
(* What distribute_event_indexed sends to a session was found in the index *)
(* of a scope that the session's address is or was used in.  Nothing more  *)
(* can be said: the check of the scope is a debug assertion, and an        *)
(* address can change its scope between the lookup and connections.get.    *)
(***************************************************************************)
THEOREM SentWithinAddress == RegSpec => []AddressIsolation
<1>1. RegInv /\ IsolationInv /\ [RegNext]_regVars => (RegInv /\ IsolationInv)'
  BY RegInvStep, IsolationStep
<1>2. RegInit => RegInv /\ IsolationInv
  BY RegInvInit, IsolationInit
<1>3. IsolationInv => AddressIsolation
  BY DEF IsolationInv
<1> QED
  BY <1>1, <1>2, <1>3, PTL DEF RegSpec

(***************************************************************************)
(* Tenant isolation where no address is used in two scopes: what is sent   *)
(* to a session comes from its own scope, the debug_assert_eq of           *)
(* distribute_event_indexed.                                               *)
(***************************************************************************)
THEOREM ScopesIsolated ==
    ASSUME OneScopePerAddress
    PROVE  RegSpec => []ScopeIsolation
<1>1. RegInv /\ AddressIsolation => ScopeIsolation
  BY DEF RegInv, RegTypeOK, AddressIsolation, ScopeIsolation, OneScopePerAddress
<1> QED
  BY <1>1, RegistryInvariance, SentWithinAddress, PTL
-----------------------------------------------------------------------------
(***************************************************************************)
(* Nothing is lost between the index and the channels, where every session *)
(* has an address of its own.                                              *)
(***************************************************************************)

(* What has to be looked at for LifeInv when a step is made. *)
LEMMA LifeFrame ==
    ASSUME RegInv, LifeInv,
           \A s \in Sessions : rpc[s] # "off" => rpc'[s] # "off",
           \A u \in Tasks : LifeOf(u)' \/ /\ rpc'[u] = rpc[u] /\ conn'[u] = conn[u] /\ dead'[u] = dead[u]
                                          /\ rpc[u] = "cl_index" => connections'[conn[u]] = None,
           \A s \in Sessions : connections'[AddrOf[s]] = s => connections[AddrOf[s]] = s \/ rpc'[s] # "off",
           \A k \in Keys : filter_groups'[k] # None =>
              \/ filter_groups[k] # None
              \/ \E s \in Sessions, u \in Subs : k = SubKey(s, u) /\ rpc[s] # "off",
           \A r \in owed' : connections'[AddrOf[r[1]]] = r[1]
    PROVE  LifeInv'
<1>1. \A c \in Conns : StartedAt(c) => StartedAt(c)'
  BY DEF StartedAt
<1>2. ASSUME NEW u \in Tasks PROVE LifeOf(u)'
  <2>1. LifeOf(u) /\ conn \in [Tasks -> Conns \cup {None}] /\ dead \in [Tasks -> Seq(Conns)] /\ RegLocalsOf(u)
    BY DEF LifeInv, RegInv, RegTypeOK
  <2>2. \A i \in DOMAIN dead[u] : dead[u][i] \in Conns
    BY <2>1
  <2> QED
    BY <1>1, <2>1, <2>2 DEF LifeOf, RegLocalsOf
<1>3. \A s \in Sessions : connections'[AddrOf[s]] = s => rpc'[s] # "off"
  BY DEF LifeInv
<1>4. \A k \in Keys : filter_groups'[k] # None =>
         \E s \in Sessions, u \in Subs : k = SubKey(s, u) /\ rpc'[s] # "off"
  BY DEF LifeInv
<1> QED
  BY <1>2, <1>3, <1>4 DEF LifeInv, SubKey

(* Only the task's own cleanup and its own dead connections change. *)
OthersLive(t) ==
    \A u \in Tasks \ {t} : rpc'[u] = rpc[u] /\ conn'[u] = conn[u] /\ dead'[u] = dead[u]

LEMMA LifeQuiet ==
    ASSUME RegInv, LifeInv, NEW t \in Tasks, OthersLive(t), LifeOf(t)',
           rpc[t] # "off" => rpc'[t] # "off",
           UNCHANGED <<connections, filter_groups, owed>>
    PROVE  LifeInv'
<1>1. \A s \in Sessions : rpc[s] # "off" => rpc'[s] # "off"
  BY TaskKinds DEF OthersLive
<1>2. \A u \in Tasks : LifeOf(u)' \/ /\ rpc'[u] = rpc[u] /\ conn'[u] = conn[u] /\ dead'[u] = dead[u]
                                     /\ rpc[u] = "cl_index" => connections'[conn[u]] = None
  BY DEF OthersLive, LifeInv, LifeOf
<1>3. \A r \in owed' : connections'[AddrOf[r[1]]] = r[1]
  BY DEF LifeInv
<1> QED
  BY <1>1, <1>2, <1>3, LifeFrame

(* A session's task, but for its calls of the index and its connecting. *)
LEMMA SessionLife ==
    ASSUME RegInv, LifeInv, OwnAddresses, NEW s \in Sessions,
           \/ Req(s) \/ CloseSub(s) \/ Disconnect(s) \/ Unwind(s) \/ RmGet(s) \/ RmDone(s)
           \/ AddGet(s) \/ AddDone(s) \/ EndSession(s) \/ Drain(s) \/ OutboundFails(s) \/ OutboundStops(s)
    PROVE  LifeInv'
<1>0. /\ s \in Tasks /\ s \notin Publishers /\ s \notin Reapers /\ LifeOf(s)
      /\ rpc \in [Tasks -> RPCs] /\ conn \in [Tasks -> Conns \cup {None}] /\ RegLocalsOf(s)
      /\ AddrOf \in [Sessions -> Conns] /\ dead \in [Tasks -> Seq(Conns)]
  BY TaskKinds, RegistryAssumption DEF LifeInv, RegInv, RegTypeOK
<1>1. UNCHANGED <<connections, owed, dead>> /\ UNCHANGED filter_groups
  BY DEF Req, CloseSub, Disconnect, Unwind, RmGet, RmDone, AddGet, AddDone, EndSession, Drain, OutboundFails,
     OutboundStops, sharedVars, envVars, localVars, vars, indexVars
<1>2. OthersLive(s) /\ (rpc[s] # "off" => rpc'[s] # "off")
  BY <1>0, <1>1 DEF OthersLive, Req, CloseSub, Disconnect, Unwind, RmGet, RmDone, AddGet, AddDone, EndSession, Drain,
     OutboundFails, OutboundStops, RGoto, AfterRemove, localVars
<1>3. rpc'[s] \in CleanupRPCs => \/ rpc'[s] = rpc[s] /\ conn'[s] = conn[s]
                                 \/ rpc'[s] = "cl_get" /\ conn'[s] = AddrOf[s] /\ rpc[s] # "off"
  BY <1>0, <1>1 DEF Req, CloseSub, Disconnect, Unwind, RmGet, RmDone, AddGet, AddDone, EndSession, Drain,
     OutboundFails, OutboundStops, RGoto, AfterRemove, CleanupRPCs, localVars
<1>4. \A c \in Conns : StartedAt(c) => StartedAt(c)'
  BY <1>2, TaskKinds DEF StartedAt, OthersLive
<1>5. rpc[s] # "off" => StartedAt(AddrOf[s])
  BY DEF StartedAt, OwnAddresses
<1>6. LifeOf(s)'
  <2>1. \A i \in DOMAIN dead[s] : dead[s][i] \in Conns
    BY <1>0
  <2> QED
    BY <1>0, <1>1, <1>3, <1>4, <1>5, <2>1 DEF LifeOf, RegLocalsOf, CleanupRPCs
<1> QED
  BY <1>0, <1>1, <1>2, <1>6, LifeQuiet

(* Cleanups, but for the entry that goes and the calls of the index. *)
LEMMA CleanupLife ==
    ASSUME RegInv, LifeInv, NEW t \in Tasks,
           \/ ClGet(t) \/ ClRead(t) \/ ClMetrics(t) \/ (\E s \in Sessions : t = ReaperOf(s) /\ ReaperDone(s))
           \/ t \in Publishers /\ (NextDead(t) \/ PublishDone(t))
    PROVE  LifeInv'
<1>0. /\ LifeOf(t) /\ rpc \in [Tasks -> RPCs] /\ conn \in [Tasks -> Conns \cup {None}] /\ RegLocalsOf(t)
      /\ dead \in [Tasks -> Seq(Conns)]
  BY DEF LifeInv, RegInv, RegTypeOK
<1>1. UNCHANGED <<connections, owed>> /\ UNCHANGED filter_groups
  BY DEF ClGet, ClRead, ClMetrics, ReaperDone, NextDead, PublishDone, sharedVars, envVars, vars, indexVars
<1>2. OthersLive(t) /\ rpc'[t] # "off"
  BY <1>0 DEF OthersLive, ClGet, ClRead, ClMetrics, ReaperDone, NextDead, PublishDone, RGoto
<1>3. \A c \in Conns : StartedAt(c) => StartedAt(c)'
  BY <1>2, TaskKinds DEF StartedAt, OthersLive
<1>4. LifeOf(t)'
  <2>1. \A i \in DOMAIN dead[t] : dead[t][i] \in Conns
    BY <1>0
  <2>2. CASE ClGet(t) \/ ClRead(t) \/ ClMetrics(t) \/ (\E s \in Sessions : t = ReaperOf(s) /\ ReaperDone(s))
    <3>1. /\ dead' = dead
          /\ rpc'[t] \in CleanupRPCs =>
                rpc'[t] \in {"cl_read", "cl_remove"} /\ rpc[t] \in CleanupRPCs /\ conn'[t] = conn[t]
          /\ rpc'[t] # "idle"
      BY <1>0, <2>2 DEF ClGet, ClRead, ClMetrics, ReaperDone, RGoto, CleanupRPCs
    <3> QED
      BY <1>0, <1>3, <2>1, <3>1 DEF LifeOf, RegLocalsOf, StartedAt, CleanupRPCs
  <2>3. CASE t \in Publishers /\ NextDead(t)
    <3>1. rpc'[t] = "cl_get" /\ conn'[t] = Head(dead[t]) /\ dead'[t] = Tail(dead[t]) /\ dead[t] # <<>>
      BY <1>0, <2>3 DEF NextDead, RGoto
    <3>2. /\ conn'[t] \in Conns /\ StartedAt(conn'[t])
          /\ \A i \in DOMAIN dead'[t] : dead'[t][i] \in Conns /\ StartedAt(dead'[t][i])
      <4>1. 1 \in DOMAIN dead[t] /\ Head(dead[t]) = dead[t][1]
        BY <1>0, <3>1
      <4>2. ASSUME NEW i \in DOMAIN Tail(dead[t])
            PROVE  i + 1 \in DOMAIN dead[t] /\ Tail(dead[t])[i] = dead[t][i + 1]
        BY <1>0, <3>1
      <4> QED
        BY <1>0, <2>1, <3>1, <4>1, <4>2 DEF LifeOf
    <3> QED
      BY <1>3, <3>1, <3>2 DEF LifeOf, StartedAt
  <2>4. CASE t \in Publishers /\ PublishDone(t)
    <3>1. rpc'[t] = "idle" /\ dead'[t] = <<>>
      BY <1>0, <2>4 DEF PublishDone, RGoto
    <3> QED
      BY <3>1 DEF LifeOf, CleanupRPCs
  <2> QED
    BY <2>2, <2>3, <2>4
<1> QED
  BY <1>1, <1>2, <1>4, LifeQuiet

(* What a step inside the index leaves alone. *)
LEMMA CallKeeps ==
    ASSUME OverlapInv, NEW t \in Tasks, CallStep(t)
    PROVE  /\ UNCHANGED <<filter_groups, event>>
           /\ \A u \in Tasks \ {t} : matching'[u] = matching[u]
           /\ \A i \in DOMAIN matching[t] : i \in DOMAIN matching'[t] /\ matching'[t][i] = matching[t][i]
           /\ ~GroupMark(t) => matching' = matching
<1>0. matching \in [Tasks -> Seq(Keys)]
  BY DEF OverlapInv, BasicInv, CallInv, TypeOK
<1>1. CASE AddStep(t) \/ RemoveStep(t)
  BY <1>1 DEF AddStep, RemoveStep, AddFilter, AddToGroup, AddToIndex, AddReturn, RemoveSnapshot, RemoveFilter,
     RemoveFromIndex, RemoveReturn, indexVars
<1>2. CASE DistStep(t) /\ ~GroupMark(t)
  BY <1>2 DEF DistStep, Lookup, CheckFilter, MarkFilter, GetGroup, GroupSeen, DistDone, indexVars
<1>3. CASE GroupMark(t)
  <2>1. LocalsOf(t) /\ pc[t] = "group_mark"
    BY <1>3 DEF OverlapInv, BasicInv, CallInv, LocalsInv, GroupMark, Goto
  <2>2. key[t] \in Keys
    BY <2>1 DEF LocalsOf
  <2> QED
    BY <1>0, <1>3, <2>2 DEF GroupMark
<1> QED
  BY <1>1, <1>2, <1>3 DEF CallStep

(* A session connects: nobody can be unregistering its connection. *)
LEMMA ConnectLife ==
    ASSUME RegInv, LifeInv, OwnAddresses, NEW s \in Sessions, Connect(s)
    PROVE  LifeInv'
<1>0. /\ s \in Tasks /\ s \notin Publishers /\ AddrOf \in [Sessions -> Conns]
      /\ rpc \in [Tasks -> RPCs] /\ connections \in [Conns -> Sessions \cup {None}]
      /\ owed \subseteq Sessions \X Subs \X EventIds
  BY TaskKinds, RegistryAssumption DEF RegInv, RegTypeOK
<1>1. /\ UNCHANGED <<conn, dead, owed>> /\ UNCHANGED filter_groups
      /\ rpc[s] = "off" /\ rpc'[s] = "idle" /\ \A u \in Tasks \ {s} : rpc'[u] = rpc[u]
      /\ \A c \in Conns : connections'[c] = IF c = AddrOf[s] THEN s ELSE connections[c]
  BY <1>0 DEF Connect, RGoto, vars, indexVars
<1>2. \A o \in Sessions : rpc[o] # "off" => rpc'[o] # "off"
  BY <1>1, TaskKinds
<1>3. ASSUME NEW u \in Tasks
      PROVE  LifeOf(u)' \/ /\ rpc'[u] = rpc[u] /\ conn'[u] = conn[u] /\ dead'[u] = dead[u]
                           /\ rpc[u] = "cl_index" => connections'[conn[u]] = None
  <2>1. LifeOf(u) /\ RegLocalsOf(u)
    BY DEF LifeInv, RegInv
  <2>2. CASE u = s
    <3>1. \A c \in Conns : StartedAt(c) => StartedAt(c)'
      BY <1>2 DEF StartedAt
    <3>2. \A i \in DOMAIN dead[s] : dead[s][i] \in Conns
      BY <1>0 DEF RegInv, RegTypeOK
    <3> QED
      BY <1>0, <1>1, <2>1, <2>2, <3>1, <3>2 DEF LifeOf, CleanupRPCs
  <2>3. CASE u # s
    <3>1. rpc[u] = "cl_index" => conn[u] \in Conns /\ conn[u] # AddrOf[s] /\ connections[conn[u]] = None
      BY <1>1, <2>1 DEF LifeOf, RegLocalsOf, CleanupRPCs, StartedAt
    <3> QED
      BY <1>1, <2>3, <3>1
  <2> QED
    BY <2>2, <2>3
<1>4. \A o \in Sessions : connections'[AddrOf[o]] = o => connections[AddrOf[o]] = o \/ rpc'[o] # "off"
  BY <1>0, <1>1
<1>5. \A r \in owed' : connections'[AddrOf[r[1]]] = r[1]
  BY <1>0, <1>1 DEF LifeInv, OwnAddresses
<1> QED
  BY <1>1, <1>2, <1>3, <1>4, <1>5, LifeFrame

(* A cleanup takes the entry away: nothing more is owed to the connection. *)
LEMMA UnregisterLife ==
    ASSUME RegInv, LifeInv, NEW t \in Tasks, ClRemove(t)
    PROVE  LifeInv'
<1>0. /\ LifeOf(t) /\ RegLocalsOf(t) /\ AddrOf \in [Sessions -> Conns] /\ conn[t] \in Conns
      /\ rpc \in [Tasks -> RPCs] /\ connections \in [Conns -> Sessions \cup {None}]
      /\ owed \subseteq Sessions \X Subs \X EventIds /\ None \notin Sessions
  BY TaskKinds, RegistryAssumption DEF LifeInv, RegInv, RegTypeOK, RegLocalsOf, CleanupRPCs, ClRemove
<1>1. /\ UNCHANGED <<conn, dead>> /\ UNCHANGED filter_groups
      /\ rpc[t] = "cl_remove" /\ rpc'[t] \in {"cl_done", "cl_index"} /\ \A u \in Tasks \ {t} : rpc'[u] = rpc[u]
      /\ \A c \in Conns : connections'[c] = IF c = conn[t] THEN None ELSE connections[c]
      /\ owed' = {r \in owed : AddrOf[r[1]] # conn[t]}
  BY <1>0 DEF ClRemove, vars, indexVars
<1>2. \A o \in Sessions : rpc[o] # "off" => rpc'[o] # "off"
  BY <1>1, TaskKinds
<1>3. ASSUME NEW u \in Tasks
      PROVE  LifeOf(u)' \/ /\ rpc'[u] = rpc[u] /\ conn'[u] = conn[u] /\ dead'[u] = dead[u]
                           /\ rpc[u] = "cl_index" => connections'[conn[u]] = None
  <2>1. LifeOf(u) /\ RegLocalsOf(u)
    BY DEF LifeInv, RegInv
  <2>2. CASE u = t
    <3>1. \A c \in Conns : StartedAt(c) => StartedAt(c)'
      BY <1>2 DEF StartedAt
    <3>2. \A i \in DOMAIN dead[t] : dead[t][i] \in Conns
      BY <1>0 DEF RegInv, RegTypeOK
    <3> QED
      BY <1>0, <1>1, <2>1, <2>2, <3>1, <3>2 DEF LifeOf, CleanupRPCs, StartedAt
  <2>3. CASE u # t
    BY <1>0, <1>1, <2>1, <2>3 DEF LifeOf, RegLocalsOf, CleanupRPCs
  <2> QED
    BY <2>2, <2>3
<1>4. \A o \in Sessions : connections'[AddrOf[o]] = o => connections[AddrOf[o]] = o \/ rpc'[o] # "off"
  BY <1>0, <1>1
<1>5. \A r \in owed' : connections'[AddrOf[r[1]]] = r[1]
  BY <1>0, <1>1 DEF LifeInv
<1> QED
  BY <1>1, <1>2, <1>3, <1>4, <1>5, LifeFrame

(* The handle is dropped: its reaper starts at an address in use. *)
LEMMA DropLife ==
    ASSUME RegInv, LifeInv, OwnAddresses, NEW s \in Sessions, DropHandle(s)
    PROVE  LifeInv'
<1> PICK r : r = ReaperOf(s)
  OBVIOUS
<1>0. /\ s \in Tasks /\ s \notin Publishers /\ r \in Tasks /\ r \notin Publishers /\ r \notin Sessions
      /\ rpc \in [Tasks -> RPCs] /\ conn \in [Tasks -> Conns \cup {None}]
      /\ AddrOf \in [Sessions -> Conns] /\ LifeOf(s) /\ LifeOf(r)
  BY TaskKinds, RegistryAssumption DEF RegInv, RegTypeOK, LifeInv
<1>1. /\ UNCHANGED <<connections, owed, dead>> /\ UNCHANGED filter_groups
      /\ \A u \in Tasks \ {s, r} : rpc'[u] = rpc[u] /\ conn'[u] = conn[u]
      /\ rpc'[s] = "done" /\ rpc'[r] \in {"cl_get", "off"} /\ (rpc'[r] = "cl_get" => conn'[r] = AddrOf[s])
  BY <1>0 DEF DropHandle, sharedVars, vars, indexVars
<1>2. \A o \in Sessions : rpc[o] # "off" => rpc'[o] # "off"
  BY <1>0, <1>1, TaskKinds
<1>3. \A c \in Conns : StartedAt(c) => StartedAt(c)'
  BY <1>2 DEF StartedAt
<1>4. ASSUME NEW u \in {s, r} PROVE LifeOf(u)'
  <2>1. \A i \in DOMAIN dead[u] : dead[u][i] \in Conns
    BY <1>0 DEF RegInv, RegTypeOK
  <2>2. rpc'[r] = "cl_get" => StartedAt(conn[r])'
    BY <1>1 DEF StartedAt, OwnAddresses
  <2> QED
    BY <1>0, <1>1, <1>3, <2>1, <2>2 DEF LifeOf, CleanupRPCs
<1>5. \A u \in Tasks : LifeOf(u)' \/ /\ rpc'[u] = rpc[u] /\ conn'[u] = conn[u] /\ dead'[u] = dead[u]
                                     /\ rpc[u] = "cl_index" => connections'[conn[u]] = None
  BY <1>1, <1>4 DEF LifeInv, LifeOf
<1>6. \A x \in owed' : connections'[AddrOf[x[1]]] = x[1]
  BY <1>1 DEF LifeInv
<1> QED
  BY <1>1, <1>2, <1>5, <1>6, LifeFrame

(* The calls of the index: what they register belongs to their session. *)
LEMMA EnterLife ==
    ASSUME RegInv, LifeInv, OwnAddresses, NEW t \in Tasks,
           \/ t \in Sessions /\ (RmLock(t) \/ AddLock(t))
           \/ ClIndex(t)
           \/ IndexStep(t)
    PROVE  LifeInv'
<1>0. /\ (t \in Sessions => t \notin Publishers) /\ LifeOf(t) /\ RegLocalsOf(t) /\ OverlapInv
      /\ rpc \in [Tasks -> RPCs] /\ dead \in [Tasks -> Seq(Conns)] /\ conn \in [Tasks -> Conns \cup {None}]
      /\ owed \subseteq Sessions \X Subs \X EventIds
      /\ filter_groups \in [Keys -> GroupIds \cup {None}]
  BY TaskKinds DEF RegInv, RegTypeOK, TypeOK, LifeInv
<1>1. /\ UNCHANGED <<connections, conn, dead>> /\ owed' \subseteq owed
      /\ \A u \in Tasks \ {t} : rpc'[u] = rpc[u]
      /\ rpc[t] # "off" => rpc'[t] # "off"
      /\ rpc'[t] \in CleanupRPCs => rpc'[t] = rpc[t]
      /\ t \in Publishers => rpc'[t] = rpc[t]
  BY <1>0 DEF RmLock, AddLock, ClIndex, IndexStep, RGoto, AfterRemove, CleanupRPCs, sharedVars, localVars, envVars
<1>2. \A o \in Sessions : rpc[o] # "off" => rpc'[o] # "off"
  BY <1>1, TaskKinds
<1>3. ASSUME NEW u \in Tasks
      PROVE  LifeOf(u)' \/ /\ rpc'[u] = rpc[u] /\ conn'[u] = conn[u] /\ dead'[u] = dead[u]
                           /\ rpc[u] = "cl_index" => connections'[conn[u]] = None
  <2>1. LifeOf(u)
    BY DEF LifeInv
  <2>2. CASE u = t
    <3>1. \A c \in Conns : StartedAt(c) => StartedAt(c)'
      BY <1>2 DEF StartedAt
    <3>2. \A i \in DOMAIN dead[t] : dead[t][i] \in Conns
      BY <1>0
    <3> QED
      BY <1>0, <1>1, <2>1, <2>2, <3>1, <3>2 DEF LifeOf, RegLocalsOf, CleanupRPCs, StartedAt
  <2>3. CASE u # t
    BY <1>1, <2>1, <2>3 DEF LifeOf
  <2> QED
    BY <2>2, <2>3
<1>4. \A k \in Keys : filter_groups'[k] # None =>
         \/ filter_groups[k] # None
         \/ \E s \in Sessions, u \in Subs : k = SubKey(s, u) /\ rpc[s] # "off"
  <2>1. CASE t \in Sessions /\ RmLock(t)
    BY <1>0, <2>1 DEF RmLock, RemoveStart, vars, indexVars
  <2>2. CASE t \in Sessions /\ AddLock(t)
    <3>1. rpc[t] = "add_lock" /\ target[t] = t /\ rsub[t] \in Subs
      BY <1>0, <2>2 DEF AddLock, RGoto, RegLocalsOf, RequestRPCs, OwnAddresses
    <3>2. \A k \in Keys : filter_groups'[k] = filter_groups[k] \/ k = SubKey(t, rsub[t])
      BY <1>0, <2>2, <3>1 DEF AddLock, AddStart
    <3> QED
      BY <2>2, <3>1, <3>2
  <2>3. CASE ClIndex(t)
    BY <1>0, <2>3 DEF ClIndex, RemoveStart
  <2>4. CASE IndexStep(t)
    BY <1>0, <2>4, CallKeeps DEF IndexStep
  <2> QED
    BY <2>1, <2>2, <2>3, <2>4
<1>5. \A r \in owed' : connections'[AddrOf[r[1]]] = r[1]
  BY <1>1 DEF LifeInv
<1> QED
  BY <1>1, <1>2, <1>3, <1>4, <1>5, LifeFrame

(* The publisher: the connections it finds dead were registered. *)
LEMMA PublisherLife ==
    ASSUME RegInv, LifeInv, OwnAddresses, NEW p \in Publishers,
           Publish(p) \/ Deliver(p) \/ DeliverDone(p)
    PROVE  LifeInv'
<1>0. /\ p \in Tasks /\ LifeOf(p) /\ RegLocalsOf(p) /\ OwnEntry /\ OverlapInv /\ None \notin Sessions
      /\ rpc \in [Tasks -> RPCs] /\ dead \in [Tasks -> Seq(Conns)] /\ conn \in [Tasks -> Conns \cup {None}]
      /\ connections \in [Conns -> Sessions \cup {None}] /\ AddrOf \in [Sessions -> Conns]
      /\ matching \in [Tasks -> Seq(Keys)]
  BY TaskKinds, RegistryAssumption DEF RegInv, RegTypeOK, TypeOK, LifeInv
<1>1. /\ UNCHANGED <<connections, conn>> /\ UNCHANGED filter_groups
      /\ \A u \in Tasks \ {p} : rpc'[u] = rpc[u] /\ dead'[u] = dead[u]
      /\ rpc[p] # "off" => rpc'[p] # "off"
      /\ rpc'[p] \in {"deliver", "cl_done"}
  BY <1>0 DEF Publish, Deliver, DeliverDone, RGoto, DistStart, DistReturn, indexVars, sharedVars, localVars
<1>2. \A o \in Sessions : rpc[o] # "off" => rpc'[o] # "off"
  BY <1>1, TaskKinds
<1>3. \A i \in DOMAIN dead'[p] : dead'[p][i] \in Conns /\ StartedAt(dead'[p][i])
  <2>1. \A i \in DOMAIN dead[p] : dead[p][i] \in Conns /\ StartedAt(dead[p][i])
    BY <1>0 DEF LifeOf
  <2>2. CASE dead' = dead
    BY <2>1, <2>2
  <2>3. CASE Deliver(p) /\ dead' # dead
    <3> DEFINE k == Head(matching[p])
               data == connections[k[2]]
    <3>1. k \in Keys
      BY <1>0, <2>3 DEF Deliver
    <3>2. data # None /\ k[2] \in Conns /\ dead' = [dead EXCEPT ![p] = Append(@, k[2])]
      BY <2>3, <3>1 DEF Deliver, Keys
    <3>3. data \in Sessions /\ AddrOf[data] = k[2]
      BY <1>0, <3>2 DEF OwnEntry
    <3>4. StartedAt(k[2])
      BY <3>3 DEF LifeInv, StartedAt, OwnAddresses
    <3>5. dead'[p] = Append(dead[p], k[2]) /\ dead[p] \in Seq(Conns)
      BY <1>0, <3>2
    <3>6. \A i \in DOMAIN Append(dead[p], k[2]) :
             Append(dead[p], k[2])[i] = k[2] \/ (i \in DOMAIN dead[p] /\ Append(dead[p], k[2])[i] = dead[p][i])
      BY <3>5, <3>2
    <3> QED
      BY <2>1, <3>2, <3>4, <3>5, <3>6
  <2>4. Publish(p) \/ DeliverDone(p) => dead' = dead
    BY DEF Publish, DeliverDone
  <2> QED
    BY <2>2, <2>3, <2>4
<1>4. LifeOf(p)'
  BY <1>1, <1>2, <1>3 DEF LifeOf, CleanupRPCs, StartedAt
<1>5. \A u \in Tasks : LifeOf(u)' \/ /\ rpc'[u] = rpc[u] /\ conn'[u] = conn[u] /\ dead'[u] = dead[u]
                                     /\ rpc[u] = "cl_index" => connections'[conn[u]] = None
  BY <1>1, <1>4 DEF LifeInv, LifeOf
<1>6. \A r \in owed' : connections'[AddrOf[r[1]]] = r[1]
  <2>1. CASE Publish(p)
    BY <1>1, <2>1 DEF Publish, Subscribed, LifeInv
  <2>2. CASE Deliver(p) \/ DeliverDone(p)
    BY <1>1, <2>2 DEF Deliver, DeliverDone, envVars, LifeInv
  <2> QED
    BY <2>1, <2>2
<1> QED
  BY <1>1, <1>2, <1>5, <1>6, LifeFrame

LEMMA LifeStep == ASSUME RegInv, LifeInv, OwnAddresses, NEW t \in Tasks, RegStep(t) PROVE LifeInv'
<1>1. CASE t \in Sessions /\ (Connect(t) \/ DropHandle(t))
  BY <1>1, ConnectLife, DropLife
<1>2. CASE \/ t \in Sessions /\ (RmLock(t) \/ AddLock(t))
           \/ ClIndex(t) \/ IndexStep(t)
  BY <1>2, EnterLife
<1>3. CASE t \in Publishers /\ (Publish(t) \/ Deliver(t) \/ DeliverDone(t))
  BY <1>3, PublisherLife
<1>4. CASE \/ ClGet(t) \/ ClRead(t) \/ ClMetrics(t) \/ (\E s \in Sessions : t = ReaperOf(s) /\ ReaperDone(s))
           \/ t \in Publishers /\ (NextDead(t) \/ PublishDone(t))
  BY <1>4, CleanupLife
<1>5. CASE t \in Sessions /\ (\/ Req(t) \/ CloseSub(t) \/ Disconnect(t) \/ Unwind(t) \/ RmGet(t) \/ RmDone(t)
                              \/ AddGet(t) \/ AddDone(t) \/ EndSession(t) \/ Drain(t) \/ OutboundFails(t)
                              \/ OutboundStops(t))
  BY <1>5, SessionLife
<1> QED
  BY <1>1, <1>2, <1>3, <1>4, <1>5, UnregisterLife DEF RegStep, CleanupStep

(* What a step leaves of a publisher that does not make it. *)
LEMMA PublisherFrame ==
    ASSUME RegInv, NEW t \in Tasks, RegStep(t), NEW p \in Publishers, p # t
    PROVE  /\ rpc'[p] = rpc[p] /\ conn'[p] = conn[p] /\ dead'[p] = dead[p]
           /\ event'[p] = event[p] /\ matching'[p] = matching[p]
<1>0. /\ p \in Tasks /\ p \notin Sessions /\ p \notin Reapers /\ OverlapInv
      /\ rpc \in [Tasks -> RPCs] /\ conn \in [Tasks -> Conns \cup {None}] /\ dead \in [Tasks -> Seq(Conns)]
      /\ event \in [Tasks -> Events \cup {None}] /\ matching \in [Tasks -> Seq(Keys)]
      /\ \A s \in Sessions : ReaperOf(s) # p
  <2>1. p \in Tasks /\ p \notin Sessions /\ p \notin Reapers /\ \A s \in Sessions : ReaperOf(s) # p
    BY TaskKinds
  <2> QED
    BY <2>1 DEF RegInv, RegTypeOK, TypeOK
<1>1. CASE t \in Sessions /\ (RmLock(t) \/ AddLock(t))
  BY <1>0, <1>1 DEF RmLock, AddLock, AddStart, RemoveStart, RGoto, vars, callVars
<1>2. CASE ClIndex(t)
  BY <1>0, <1>2 DEF ClIndex, RemoveStart
<1>3. CASE IndexStep(t)
  BY <1>0, <1>3, CallKeeps DEF IndexStep, localVars
<1>4. CASE t \in Publishers /\ (Publish(t) \/ DeliverDone(t))
  BY <1>0, <1>4 DEF Publish, DeliverDone, DistStart, DistReturn, RGoto
<1>5. CASE t \in Publishers /\ Deliver(t)
  BY <1>0, <1>5 DEF Deliver
<1>6. CASE \/ ClGet(t) \/ ClRead(t) \/ ClMetrics(t) \/ ClRemove(t)
           \/ (\E s \in Sessions : t = ReaperOf(s) /\ ReaperDone(s))
           \/ t \in Publishers /\ (NextDead(t) \/ PublishDone(t))
  BY <1>0, <1>6 DEF ClGet, ClRead, ClMetrics, ClRemove, ReaperDone, NextDead, PublishDone, RGoto, vars, callVars
<1>7. CASE t \in Sessions /\ (Connect(t) \/ DropHandle(t))
  BY <1>0, <1>7 DEF Connect, DropHandle, RGoto, vars, callVars
<1>8. CASE t \in Sessions /\ (\/ Req(t) \/ CloseSub(t) \/ Disconnect(t) \/ Unwind(t) \/ RmGet(t) \/ RmDone(t)
                              \/ AddGet(t) \/ AddDone(t) \/ EndSession(t) \/ Drain(t) \/ OutboundFails(t)
                              \/ OutboundStops(t))
  BY <1>0, <1>8 DEF Req, CloseSub, Disconnect, Unwind, RmGet, RmDone, AddGet, AddDone, EndSession, Drain,
     OutboundFails, OutboundStops, RGoto, vars, callVars, localVars
<1> QED
  BY <1>1, <1>2, <1>3, <1>4, <1>5, <1>6, <1>7, <1>8 DEF RegStep, CleanupStep

(* The session closes a subscription that it has. *)
Closing(t) == t \in Sessions /\ RmLock(t) /\ rsub[t] \in subs[target[t]]

(* What was sent stays sent, and what is unregistered stays unregistered. *)
LEMMA ReachedStays ==
    ASSUME RegInv, LifeInv, OwnAddresses, NEW t \in Tasks, RegStep(t),
           NEW k \in Keys, NEW e \in EventIds, filter_groups[k] # None, Reached(k, e),
           Closing(t) => k # SubKey(target[t], rsub[t])
    PROVE  Reached(k, e)'
<1>0. /\ AddrOf \in [Sessions -> Conns] /\ None \notin Sessions /\ RegLocalsOf(t)
      /\ connections \in [Conns -> Sessions \cup {None}]
  BY TaskKinds, RegistryAssumption DEF RegInv, RegTypeOK
<1>1. PICK s \in Sessions :
         /\ k = SubKey(s, k[3])
         /\ connections[AddrOf[s]] # s \/ <<s, k[3], e, ScopeOf[s]>> \in sent
  BY DEF Reached
<1>2. k[3] \in Subs
  BY DEF Keys
<1>3. <<s, k[3], e, ScopeOf[s]>> \in sent => <<s, k[3], e, ScopeOf[s]>> \in sent'
  <2>1. CASE t \in Sessions /\ RmLock(t)
    BY <1>1, <2>1 DEF RmLock, Closing
  <2>2. CASE ~(t \in Sessions /\ RmLock(t))
    <3>1. sent \subseteq sent'
      BY <2>2 DEF RegStep, Connect, Req, CloseSub, Disconnect, Unwind, RmGet, RmDone, AddGet, AddLock, AddDone,
         EndSession, DropHandle, Drain, OutboundFails, OutboundStops, ReaperDone, Publish, Deliver, DeliverDone,
         NextDead, PublishDone, CleanupStep, ClGet, ClRead, ClRemove, ClIndex, ClMetrics, IndexStep, envVars
    <3> QED
      BY <3>1
  <2> QED
    BY <2>1, <2>2
<1>4. connections[AddrOf[s]] # s => connections'[AddrOf[s]] # s
  <2>1. CASE t \in Sessions /\ Connect(t)
    <3>1. rpc[t] = "off" /\ connections' = [connections EXCEPT ![AddrOf[t]] = t]
      BY <2>1 DEF Connect, RGoto
    <3>2. PICK o \in Sessions, u \in Subs : k = SubKey(o, u) /\ rpc[o] # "off"
      BY DEF LifeInv
    <3>3. AddrOf[s] = AddrOf[o]
      BY <1>1, <1>2, <3>2, SubKeyType
    <3>4. s # t
      BY <3>1, <3>2, <3>3 DEF OwnAddresses
    <3> QED
      BY <1>0, <2>1, <3>1, <3>4 DEF OwnAddresses
  <2>2. CASE ClRemove(t)
    BY <1>0, <2>2 DEF ClRemove
  <2>3. CASE ~(t \in Sessions /\ Connect(t)) /\ ~ClRemove(t)
    <3>1. connections' = connections
      BY <2>3 DEF RegStep, Req, CloseSub, Disconnect, Unwind, RmGet, RmLock, RmDone, AddGet, AddLock, AddDone,
         EndSession, DropHandle, Drain, OutboundFails, OutboundStops, ReaperDone, Publish, Deliver, DeliverDone,
         NextDead, PublishDone, CleanupStep, ClGet, ClRead, ClIndex, ClMetrics, IndexStep, sharedVars
    <3> QED
      BY <3>1
  <2> QED
    BY <2>1, <2>2, <2>3
<1> QED
  BY <1>1, <1>3, <1>4 DEF Reached, SubKey

(* The publisher keeps what it has in hand until the connection was sent   *)
(* the event, or is unregistered.                                          *)
LEMMA PendingStays ==
    ASSUME RegInv, FoundInv, LifeInv, OwnAddresses, NEW t \in Tasks, RegStep(t), NEW p \in Publishers,
           NEW k \in Keys, NEW e \in EventIds, filter_groups[k] # None, Pending(p, k, e)
    PROVE  Pending(p, k, e)' \/ Reached(k, e)'
<1>0. /\ p \in Tasks /\ p \notin Sessions /\ p \notin Reapers /\ (\A s \in Sessions : ReaperOf(s) # p)
      /\ PlaceOf(p) /\ RegLocalsOf(p) /\ LifeOf(p) /\ KeysOf(p) /\ OverlapInv
  BY TaskKinds DEF RegInv, LifeInv, FoundInv
<1>1. /\ rpc \in [Tasks -> RPCs] /\ conn \in [Tasks -> Conns \cup {None}] /\ dead \in [Tasks -> Seq(Conns)]
      /\ event \in [Tasks -> Events \cup {None}] /\ matching \in [Tasks -> Seq(Keys)]
      /\ connections \in [Conns -> Sessions \cup {None}]
  BY DEF RegInv, RegTypeOK, TypeOK
<1>2. PICK s \in Sessions, u \in Subs : k = SubKey(s, u)
  BY DEF LifeInv
<1>3. k[1] = ScopeOf[s] /\ k[2] = AddrOf[s] /\ k[3] = u /\ AddrOf[s] \in Conns /\ k[2] \in Conns
  BY <1>2, SubKeyType, RegistryAssumption
<1>4. CASE p # t
  BY <1>4, PublisherFrame DEF Pending
<1>5. CASE p = t /\ Deliver(p)
  <2> DEFINE h == Head(matching[p])
             data == connections[h[2]]
  <2>1. /\ rpc' = rpc /\ conn' = conn /\ event' = event /\ matching[p] # <<>> /\ rpc[p] = "deliver"
        /\ connections' = connections
        /\ matching'[p] = Tail(matching[p])
        /\ dead'[p] = IF data # None /\ ~CanSend(data) THEN Append(dead[p], h[2]) ELSE dead[p]
    BY <1>0, <1>1, <1>5 DEF Deliver, sharedVars
  <2>2. CASE \E i \in DOMAIN dead[p] : dead[p][i] = k[2]
    <3>1. PICK i \in DOMAIN dead[p] : dead[p][i] = k[2]
      BY <2>2
    <3>2. i \in DOMAIN dead'[p] /\ dead'[p][i] = k[2]
      <4>1. h \in Keys
        BY <1>0, <1>1, <2>1
      <4>2. h[2] \in Conns
        BY <4>1 DEF Keys
      <4> QED
        BY <1>1, <1>0, <2>1, <3>1, <4>2
    <3> QED
      BY <2>1, <3>2 DEF Pending
  <2>3. CASE \E i \in DOMAIN matching[p] : matching[p][i] = k
    <3>1. PICK i \in DOMAIN matching[p] : matching[p][i] = k
      BY <2>3
    <3>2. CASE i # 1
      <4>1. i - 1 \in DOMAIN Tail(matching[p]) /\ Tail(matching[p])[i - 1] = matching[p][i]
        BY <1>0, <1>1, <2>1, <3>1, <3>2
      <4> QED
        BY <2>1, <3>1, <4>1 DEF Pending
    <3>3. CASE i = 1
      <4>1. h = k /\ InScope(p, k)
        BY <1>0, <1>1, <3>1, <3>3 DEF KeysOf
      <4>2. CASE data = None
        BY <1>2, <1>3, <2>1, <4>1, <4>2, RegistryAssumption DEF Reached, SubKey, Tasks
      <4>3. CASE data # None /\ ~CanSend(data)
        <5>1. dead'[p] = Append(dead[p], k[2])
          BY <2>1, <4>1, <4>3
        <5>2. Len(dead[p]) + 1 \in DOMAIN dead'[p] /\ dead'[p][Len(dead[p]) + 1] = k[2]
          BY <1>0, <1>1, <1>3, <5>1
        <5> QED
          BY <2>1, <5>2 DEF Pending
      <4>4. CASE data # None /\ CanSend(data)
        <5>1. data = s
          BY <1>1, <1>3, <4>1, <4>4 DEF RegInv, OwnEntry, OwnAddresses
        <5>2. event[p].id = e
          <6>1. Distributing(p)
            BY <1>0, <2>1 DEF PlaceOf
          <6>2. event[p] \in Events
            BY <1>0, <6>1 DEF OverlapInv, BasicInv, CallInv, LocalsInv, LocalsOf
          <6> QED
            BY <6>2, IndexAssumption DEF Pending
        <5>3. <<s, k[3], e, ScopeOf[s]>> \in sent'
          BY <1>3, <1>5, <4>1, <4>4, <5>1, <5>2 DEF Deliver, InScope
        <5> QED
          BY <1>2, <1>3, <5>3 DEF Reached, SubKey
      <4> QED
        BY <4>2, <4>3, <4>4
    <3> QED
      BY <3>2, <3>3
  <2> QED
    BY <2>1, <2>2, <2>3 DEF Pending
<1>6. CASE p = t /\ Publish(p)
  <2>1. rpc[p] = "idle"
    BY <1>6 DEF Publish, RGoto
  <2>2. matching[p] = <<>> /\ dead[p] = <<>>
    BY <1>0, <2>1 DEF PlaceOf, KeysOf, LifeOf
  <2> QED
    BY <2>1, <2>2 DEF Pending
<1>7. CASE p = t /\ DeliverDone(p)
  <2>1. /\ rpc[p] = "deliver" /\ matching[p] = <<>> /\ dead' = dead /\ event'[p] = None
    BY <1>0, <1>1, <1>7 DEF DeliverDone, DistReturn, RGoto
  <2> QED
    BY <2>1 DEF Pending
<1>8. CASE p = t /\ NextDead(p)
  <2>1. /\ rpc[p] = "cl_done" /\ rpc'[p] = "cl_get" /\ conn'[p] = Head(dead[p]) /\ dead'[p] = Tail(dead[p])
        /\ dead[p] # <<>> /\ matching' = matching /\ event' = event
    BY <1>0, <1>1, <1>8 DEF NextDead, RGoto, vars, callVars
  <2>2. CASE \E i \in DOMAIN dead[p] : dead[p][i] = k[2]
    <3>1. PICK i \in DOMAIN dead[p] : dead[p][i] = k[2]
      BY <2>2
    <3>2. i = 1 => conn'[p] = k[2]
      BY <1>0, <1>1, <2>1, <3>1
    <3>3. i # 1 => i - 1 \in DOMAIN dead'[p] /\ dead'[p][i - 1] = k[2]
      BY <1>0, <1>1, <2>1, <3>1
    <3> QED
      BY <2>1, <3>2, <3>3 DEF Pending
  <2> QED
    BY <2>1, <2>2 DEF Pending
<1>9. CASE p = t /\ PublishDone(p)
  <2>1. rpc[p] = "cl_done" /\ dead[p] = <<>>
    BY <1>9 DEF PublishDone, RGoto
  <2>2. matching[p] = <<>>
    BY <1>0, <2>1 DEF PlaceOf, KeysOf
  <2> QED
    BY <2>1, <2>2 DEF Pending
<1>10. CASE p = t /\ (ClGet(p) \/ ClRead(p) \/ ClIndex(p) \/ ClMetrics(p))
  <2>1. /\ UNCHANGED <<conn, dead, matching, event>>
        /\ rpc[p] \in {"cl_get", "cl_read", "cl_remove"} => rpc'[p] \in {"cl_get", "cl_read", "cl_remove"}
    BY <1>0, <1>1, <1>10 DEF ClGet, ClRead, ClIndex, ClMetrics, RGoto, RemoveStart, vars, callVars
  <2> QED
    BY <2>1 DEF Pending
<1>11. CASE p = t /\ ClRemove(p)
  <2>1. /\ UNCHANGED <<conn, dead, matching, event>>
        /\ connections'[conn[p]] = None
    BY <1>0, <1>1, <1>11 DEF ClRemove, vars, callVars, RegLocalsOf, CleanupRPCs
  <2>2. conn[p] = k[2] => Reached(k, e)'
    BY <1>2, <1>3, <2>1, RegistryAssumption DEF Reached, SubKey, Tasks
  <2> QED
    BY <2>1, <2>2 DEF Pending
<1>12. CASE p = t /\ IndexStep(p)
  <2>1. /\ UNCHANGED <<rpc, conn, dead, event>>
        /\ \A i \in DOMAIN matching[p] : i \in DOMAIN matching'[p] /\ matching'[p][i] = matching[p][i]
    BY <1>0, <1>12, CallKeeps DEF IndexStep, localVars
  <2> QED
    BY <2>1 DEF Pending
<1> QED
  BY <1>0, <1>4, <1>5, <1>6, <1>7, <1>8, <1>9, <1>10, <1>11, <1>12 DEF RegStep, CleanupStep

(* Given of a live subscription lasts, but for one that is being closed. *)
LEMMA GivenStays ==
    ASSUME RegInv, FoundInv, LifeInv, OwnAddresses, NEW t \in Tasks, RegStep(t),
           NEW r \in GivenKeys, filter_groups[r[1]] # None,
           Closing(t) => r[1] # SubKey(target[t], rsub[t])
    PROVE  r \in GivenKeys'
<1>1. r \in Keys \X EventIds /\ Given(r[1], r[2])
  BY DEF GivenKeys
<1>2. Given(r[1], r[2])'
  <2>1. CASE Reached(r[1], r[2])
    <3>1. Reached(r[1], r[2])'
      BY <1>1, <2>1, ReachedStays
    <3> QED
      BY <3>1 DEF Given
  <2>2. CASE \E p \in Publishers : Pending(p, r[1], r[2])
    <3>1. PICK p \in Publishers : Pending(p, r[1], r[2])
      BY <2>2
    <3>2. Pending(p, r[1], r[2])' \/ Reached(r[1], r[2])'
      BY <1>1, <3>1, PendingStays
    <3> QED
      BY <3>2 DEF Given
  <2> QED
    BY <1>1, <2>1, <2>2 DEF Given
<1> QED
  BY <1>1, <1>2 DEF GivenKeys

(* The invariant after a step, of the values the two sets have then. *)
LEMMA LossAfter ==
    ASSUME NEW O, NEW D, OwedKeys' = O, GivenKeys' = D, DeliveryInv(O, D)'
    PROVE  DeliveryInv(OwedKeys, GivenKeys)'
  BY DEF DeliveryInv, OwedLive, GroupMarks, FilterMarks, Carried, CheckedDone

(* Most steps leave the index, whatever they do to results. *)
LEMMA StillSteps ==
    ASSUME NEW t \in Tasks, RegStep(t)
    PROVE  \/ t \in Sessions /\ (RmLock(t) \/ AddLock(t))
           \/ t \in Publishers /\ (Publish(t) \/ DeliverDone(t))
           \/ ClIndex(t) \/ IndexStep(t)
           \/ ButResults /\ owed' \subseteq owed
<1>1. UNCHANGED vars => ButResults
  BY DEF ButResults, vars, callVars
<1>2. CASE t \in Publishers /\ Deliver(t)
  BY <1>2 DEF Deliver, ButResults
<1> QED
  BY <1>1, <1>2 DEF RegStep, Connect, Req, CloseSub, Disconnect, Unwind, RmGet, RmDone, AddGet, AddDone,
     EndSession, DropHandle, Drain, OutboundFails, OutboundStops, ReaperDone, NextDead, PublishDone,
     CleanupStep, ClGet, ClRead, ClRemove, ClMetrics, envVars

(* What is owed, by the subscriptions' keys. *)
LEMMA OwedOf ==
    ASSUME RegInv, OwnAddresses, NEW x \in Sessions \X Subs \X EventIds, NEW s \in Sessions, NEW u \in Subs
    PROVE  <<SubKey(x[1], x[2]), x[3]>>[1] = SubKey(s, u) => x[1] = s /\ x[2] = u
  BY SubKeyType DEF OwnAddresses

LEMMA LossStep ==
    ASSUME RegInv, FoundInv, LossInv, OwnAddresses, NEW t \in Tasks, RegStep(t)
    PROVE  DeliveryInv(OwedKeys, GivenKeys)'
<1> PICK O, D, O2, D2 : O = OwedKeys /\ D = GivenKeys /\ O2 = OwedKeys' /\ D2 = GivenKeys'
  OBVIOUS
<1>0. /\ DeliveryInv(O, D) /\ LifeInv /\ OverlapInv /\ PlaceOf(t) /\ RegLocalsOf(t) /\ LifeOf(t)
      /\ owed \subseteq Sessions \X Subs \X EventIds
      /\ O = {<<SubKey(x[1], x[2]), x[3]>> : x \in owed}
      /\ O2 = {<<SubKey(x[1], x[2]), x[3]>> : x \in owed'}
  BY DEF LossInv, LifeInv, RegInv, RegTypeOK, OwedKeys
<1> SUFFICES DeliveryInv(O2, D2)'
  BY LossAfter
<1>1. owed' \subseteq owed => O2 \subseteq O
  BY <1>0
<1>2. ASSUME ~Closing(t) PROVE DeliveryInv(O, D2)
  <2>1. \A r \in D : filter_groups[r[1]] # None => r \in D2
    BY <1>0, <1>2, GivenStays
  <2> QED
    BY <1>0, <2>1, DeliveryWeaken
<1>3. CASE ButResults /\ owed' \subseteq owed /\ ~Closing(t)
  <2>1. DeliveryInv(O, D2)
    BY <1>2, <1>3
  <2>2. DeliveryInv(O2, D2)
    BY <1>0, <1>1, <1>3, <2>1, DeliveryWeaken
  <2> QED
    BY <1>3, <2>2, DeliveryStutter
<1>4. CASE t \in Sessions /\ RmLock(t)
  <2> DEFINE k == SubKey(target[t], rsub[t])
  <2>1. CASE Closing(t)
    <3>1. /\ target[t] \in Sessions /\ rsub[t] \in Subs /\ k \in Keys
      BY <1>0, <1>4, SubKeyType DEF RmLock, RegLocalsOf, RequestRPCs
    <3>2. /\ owed' = {x \in owed : ~(x[1] = target[t] /\ x[2] = rsub[t])} /\ RemoveStart(t, k)
      BY <1>4, <2>1 DEF RmLock, Closing
    <3>3. \A r \in O2 : r[1] # k
      <4>1. ASSUME NEW x \in owed' PROVE SubKey(x[1], x[2]) # k
        BY <1>0, <3>1, <3>2, <4>1, OwedOf
      <4> QED
        BY <1>0, <4>1
    <3> PICK D3 : D3 = {r \in D : filter_groups[r[1]] # None}
      OBVIOUS
    <3>4. DeliveryInv(O, D3)
      <4>1. \A r \in D : filter_groups[r[1]] # None => r \in D3
        OBVIOUS
      <4> QED
        BY <1>0, <4>1, DeliveryWeaken
    <3>5. ASSUME NEW r \in D3, r[1] # k PROVE r \in D2
      BY <1>0, <2>1, <3>5, GivenStays
    <3>6. O2 \subseteq O
      BY <1>1, <3>2
    <3> QED
      BY <1>0, <3>1, <3>2, <3>3, <3>4, <3>5, <3>6, RemoveStartDelivery
  <2>2. CASE ~Closing(t)
    <3>1. ButResults /\ owed' = owed
      BY <1>4, <2>2 DEF RmLock, Closing, ButResults, vars, callVars
    <3> QED
      BY <1>3, <2>2, <3>1
  <2> QED
    BY <2>1, <2>2
<1>5. CASE t \in Sessions /\ AddLock(t)
  <2>1. owed' = owed /\ ~Closing(t)
    BY <1>5 DEF AddLock, envVars, Closing, RmLock, RGoto
  <2>2. \E k \in Keys, fs \in FilterLists : AddStart(t, k, fs)
    BY <1>0, <1>5, SubKeyType DEF AddLock, RGoto, RegLocalsOf, RequestRPCs
  <2>3. DeliveryInv(O, D2) /\ O2 = O
    BY <1>0, <1>2, <2>1
  <2> QED
    BY <1>0, <2>2, <2>3, AddStartDelivery
<1>6. CASE ClIndex(t)
  <2>1. owed' = owed /\ ~Closing(t)
    BY <1>6 DEF ClIndex, envVars, Closing, RmLock, RGoto
  <2>2. PICK u \in rids[t] : RemoveStart(t, <<ScopeOf[target[t]], conn[t], u>>)
    BY <1>6 DEF ClIndex
  <2>3. target[t] \in Sessions /\ conn[t] \in Conns /\ u \in Subs /\ connections[conn[t]] = None
    BY <1>0, <1>6 DEF ClIndex, RegLocalsOf, CleanupRPCs, LifeOf, RegInv, RegTypeOK
  <2> DEFINE k == <<ScopeOf[target[t]], conn[t], u>>
  <2>4. k \in Keys
    BY <2>3, RegistryAssumption DEF Keys
  <2>5. \A r \in O : r[1] # k
    <3>1. ASSUME NEW x \in owed PROVE SubKey(x[1], x[2]) # k
      <4>1. connections[AddrOf[x[1]]] = x[1] /\ x[1] \in Sessions /\ x[2] \in Subs
        BY <1>0 DEF LifeInv
      <4>2. AddrOf[x[1]] # conn[t]
        BY <2>3, <4>1, RegistryAssumption DEF Tasks
      <4> QED
        BY <4>2 DEF SubKey
    <3> QED
      BY <1>0, <3>1
  <2>6. DeliveryInv(O, D2) /\ O2 = O
    BY <1>0, <1>2, <2>1
  <2> HIDE DEF k
  <2>7. RemoveStart(t, k)
    BY <2>2 DEF k
  <2> QED
    BY <1>0, <2>4, <2>5, <2>6, <2>7, RemoveStartDelivery
<1>7. CASE t \in Publishers /\ Publish(t)
  <2>1. ~Closing(t)
    BY <1>7, TaskKinds DEF Closing
  <2>2. PICK e \in Events, sc \in Scopes :
           /\ DistStart(t, e, sc)
           /\ owed' = owed \cup {x \in Sessions \X Subs \X {e.id} : Subscribed(x[1], x[2], e, sc)}
    BY <1>7 DEF Publish
  <2>3. O \subseteq O2
    BY <1>0, <2>2
  <2>4. ASSUME NEW r \in O2 \ O PROVE DueNow(r, e, sc)
    <3>1. PICK x \in owed' : r = <<SubKey(x[1], x[2]), x[3]>> /\ x \notin owed
      BY <1>0, <2>4
    <3>2. x \in Sessions \X Subs \X {e.id} /\ Subscribed(x[1], x[2], e, sc)
      BY <2>2, <3>1
    <3> PICK k : k = SubKey(x[1], x[2])
      OBVIOUS
    <3>3. k \in Keys /\ k[1] = sc /\ r = <<k, e.id>>
      BY <3>1, <3>2, SubKeyType DEF Subscribed
    <3>4. PICK id \in groupFilters[filter_groups[k]] : Settled(id) /\ MatchesEvent(tracked[id].filter, e)
      BY <3>2 DEF Subscribed
    <3>5. InGroup(k, id)
      BY <3>2, <3>4 DEF Subscribed, InGroup
    <3>6. id \in FilterIds
      BY <1>0, <3>3, <3>5, InGroupFilter
    <3> QED
      BY <3>3, <3>4, <3>5, <3>6 DEF DueNow
  <2> QED
    BY <1>0, <1>2, <2>1, <2>2, <2>3, <2>4, DistributeDelivery
<1>8. CASE t \in Publishers /\ DeliverDone(t)
  <2>1. owed' = owed /\ ~Closing(t) /\ DistReturn(t)
    BY <1>8, TaskKinds DEF DeliverDone, envVars, Closing
  <2>2. DeliveryInv(O, D2) /\ O2 = O
    BY <1>0, <1>2, <2>1
  <2> QED
    BY <1>0, <2>1, <2>2, EndDelivery
<1>9. CASE IndexStep(t)
  <2>1. owed' = owed /\ rpc' = rpc /\ CallStep(t)
    BY <1>9 DEF IndexStep, envVars, localVars
  <2>2. ~Closing(t)
    <3>1. ASSUME t \in Sessions, RmLock(t) PROVE rpc'[t] # "rm_lock"
      BY <3>1 DEF RmLock, AfterRemove, RegInv, RegTypeOK
    <3>2. RmLock(t) => rpc[t] = "rm_lock"
      BY DEF RmLock
    <3> QED
      BY <2>1, <3>1, <3>2 DEF Closing
  <2>3. DeliveryInv(O, D2) /\ O2 = O
    BY <1>0, <1>2, <2>1, <2>2
  <2>4. ASSUME pc[t] = "group_mark" PROVE <<key[t], event[t].id>> \in D2
    <3>1. GroupMark(t)
      BY <2>1, <2>4 DEF CallStep, AddStep, RemoveStep, DistStep, AddFilter, AddToGroup, AddToIndex, AddReturn,
         RemoveSnapshot, RemoveFilter, RemoveFromIndex, RemoveReturn, Lookup, CheckFilter, MarkFilter, GetGroup,
         GroupSeen, DistDone, Goto
    <3>2. Distributing(t) /\ LocalsOf(t) /\ matching \in [Tasks -> Seq(Keys)] /\ event' = event
      BY <1>0, <2>4, <3>1 DEF Distributing, OverlapInv, BasicInv, CallInv, TypeOK, LocalsInv, GroupMark
    <3>3. key[t] \in Keys /\ event[t] \in Events
      BY <2>4, <3>2 DEF LocalsOf
    <3>4. t \in Publishers
      <4>1. rpc[t] = "deliver"
        BY <1>0, <3>2 DEF PlaceOf
      <4> QED
        BY <1>0, <4>1, TaskKinds DEF PlaceOf, CleanupRPCs
    <3>5. matching'[t] = Append(matching[t], key[t]) /\ matching[t] \in Seq(Keys)
      BY <3>1, <3>2 DEF GroupMark
    <3>6. Len(matching[t]) + 1 \in DOMAIN matching'[t] /\ matching'[t][Len(matching[t]) + 1] = key[t]
      BY <3>3, <3>5
    <3>7. event[t].id \in EventIds
      BY <3>3, IndexAssumption DEF Event
    <3> PICK k, e : k = key[t] /\ e = event[t].id
      OBVIOUS
    <3>8. Pending(t, k, e)'
      BY <3>2, <3>6 DEF Pending
    <3>9. Given(k, e)'
      BY <3>4, <3>8 DEF Given
    <3> QED
      BY <3>3, <3>7, <3>9 DEF GivenKeys
  <2> QED
    BY <1>0, <2>1, <2>3, <2>4, CallStepDelivery
<1> QED
  BY <1>3, <1>4, <1>5, <1>6, <1>7, <1>8, <1>9, StillSteps DEF Closing

LEMMA LossInit == RegInit => LossInv
<1> SUFFICES ASSUME RegInit PROVE LossInv
  OBVIOUS
<1>1. LifeInv
  BY RegistryAssumption, TaskKinds
  DEF RegInit, Init, LifeInv, LifeOf, CleanupRPCs, Tasks
<1>2. DeliveryInv(OwedKeys, GivenKeys)
  <2> PICK D : D = GivenKeys
    OBVIOUS
  <2>1. OwedKeys = {}
    BY DEF RegInit, OwedKeys
  <2>2. DeliveryInv({}, D)
    BY DeliveryInit DEF RegInit
  <2> QED
    BY <2>1, <2>2
<1> QED
  BY <1>1, <1>2 DEF LossInv

LEMMA LossStutter == RegInv /\ LossInv /\ UNCHANGED regVars => LossInv'
<1> SUFFICES ASSUME RegInv, LossInv, UNCHANGED regVars PROVE LossInv'
  OBVIOUS
<1>1. /\ UNCHANGED <<connections, rpc, conn, dead, sent, owed, matching, event>> /\ ButResults
      /\ UNCHANGED filter_groups
  BY DEF regVars, vars, callVars, indexVars, sharedVars, localVars, envVars, ButResults
<1>2. LifeInv'
  BY <1>1 DEF LossInv, LifeInv, LifeOf, StartedAt
<1>3. DeliveryInv(OwedKeys, GivenKeys)'
  <2> PICK O, D : O = OwedKeys /\ D = GivenKeys
    OBVIOUS
  <2>1. OwedKeys' = O /\ GivenKeys' = D
    BY <1>1 DEF OwedKeys, GivenKeys, Given, Reached, Pending
  <2>2. DeliveryInv(O, D)'
    BY <1>1, DeliveryStutter DEF LossInv
  <2> QED
    BY <2>1, <2>2, LossAfter
<1> QED
  BY <1>2, <1>3 DEF LossInv

(***************************************************************************)
(* Where every session has an address of its own: a connection that is     *)
(* gone from connections does not come back, the index names only sessions *)
(* that have connected, and every event owed to a subscription was given   *)
(* to it or is in a publisher's hands.                                     *)
(***************************************************************************)
THEOREM LossInvariance ==
    ASSUME OwnAddresses
    PROVE  RegSpec => [](RegInv /\ IsolationInv /\ LossInv)
<1>1. RegInv /\ IsolationInv /\ LossInv /\ [RegNext]_regVars => (RegInv /\ IsolationInv /\ LossInv)'
  <2> SUFFICES ASSUME RegInv, IsolationInv, LossInv, [RegNext]_regVars
               PROVE  (RegInv /\ IsolationInv /\ LossInv)'
    OBVIOUS
  <2>1. RegInv' /\ IsolationInv'
    BY RegInvStep, IsolationStep
  <2>2. LossInv'
    <3>1. ASSUME NEW t \in Tasks, RegStep(t) PROVE LossInv'
      BY <3>1, LifeStep, LossStep DEF LossInv, IsolationInv
    <3> QED
      BY <3>1, LossStutter, RegSteps
  <2> QED
    BY <2>1, <2>2
<1>2. RegInit => RegInv /\ IsolationInv /\ LossInv
  BY RegInvInit, IsolationInit, LossInit
<1> QED
  BY <1>1, <1>2, PTL DEF RegSpec

(***************************************************************************)
(* Where every session has an address of its own, no event is lost without *)
(* a trace: once no publisher is busy with it, a session that was fully    *)
(* subscribed when its distribution began, did not close the subscription  *)
(* and is still registered, was sent the event, however the publishers,    *)
(* the cleanups and the sessions' requests overlap.                        *)
(***************************************************************************)
THEOREM NothingLost ==
    ASSUME OwnAddresses
    PROVE  RegSpec => []NoSilentLoss
<1>1. RegInv /\ IsolationInv /\ LossInv => NoSilentLoss
  <2> SUFFICES ASSUME RegInv, FoundInv, LossInv, NEW x \in owed, ~Publishing(x[3])
               PROVE  <<x[1], x[2], x[3], ScopeOf[x[1]]>> \in sent
    BY DEF NoSilentLoss, IsolationInv
  <2> PICK k, e : k = SubKey(x[1], x[2]) /\ e = x[3]
    OBVIOUS
  <2>1. x[1] \in Sessions /\ x[2] \in Subs /\ e \in EventIds /\ k \in Keys /\ <<k, e>> \in OwedKeys
    BY SubKeyType DEF RegInv, RegTypeOK, OwedKeys
  <2>2. ASSUME NEW p \in Publishers, Pending(p, k, e) PROVE FALSE
    <3>1. rpc[p] # "idle"
      BY <2>2, TaskKinds DEF Pending, RegInv, PlaceOf, FoundInv, KeysOf, LossInv, LifeInv, LifeOf
    <3> QED
      BY <2>2, <3>1 DEF Pending, Publishing
  <2>3. ASSUME <<k, e>> \notin GivenKeys PROVE FALSE
    <3>1. PICK t \in Tasks : event[t] # None /\ event[t].id = e /\ Distributing(t)
      BY <2>1, <2>3 DEF LossInv, DeliveryInv, Carried, Carries
    <3>2. rpc[t] = "deliver" /\ t \in Publishers
      <4>1. rpc[t] = "deliver" /\ PlaceOf(t)
        BY <3>1 DEF RegInv, PlaceOf
      <4> QED
        BY <4>1, TaskKinds DEF PlaceOf, CleanupRPCs
    <3> QED
      BY <3>1, <3>2 DEF Publishing
  <2>4. Reached(k, e)
    BY <2>1, <2>2, <2>3 DEF GivenKeys, Given
  <2>5. PICK s \in Sessions : k = SubKey(s, k[3]) /\ (connections[AddrOf[s]] # s \/ <<s, k[3], e, ScopeOf[s]>> \in sent)
    BY <2>4 DEF Reached
  <2>6. k[3] = x[2] /\ s = x[1]
    <3>1. k[3] = x[2] /\ k[2] = AddrOf[x[1]]
      BY <2>1, SubKeyType
    <3>2. k[2] = AddrOf[s]
      BY <2>1, <2>5, <3>1, SubKeyType
    <3> QED
      BY <2>1, <3>1, <3>2 DEF OwnAddresses
  <2>7. connections[AddrOf[x[1]]] = x[1]
    BY DEF LossInv, LifeInv
  <2> QED
    BY <2>5, <2>6, <2>7
<1> QED
  BY <1>1, LossInvariance, PTL

-----------------------------------------------------------------------------
(***************************************************************************)
(* The metric and the index, where every session has an address of its own *)
(* and no publisher finds a channel full or closed.                        *)
(***************************************************************************)

LEMMA CleanerKinds ==
    /\ \A s \in Sessions : s \in Tasks /\ ReaperOf(s) \in Tasks /\ s # ReaperOf(s) /\ ReaperOf(s) \notin Sessions
    /\ \A s \in Sessions : s \notin Publishers /\ ReaperOf(s) \notin Publishers
    /\ \A s, o \in Sessions : s # o => Cleaners(s) \cap Cleaners(o) = {}
    /\ \A t \in Tasks : t \in Publishers \/ \E s \in Sessions : t \in Cleaners(s)
<1>1. \A s, o \in Sessions : s # o => ReaperOf(s) # ReaperOf(o)
  BY DEF ReaperOf
<1>2. \A t \in Reapers : \E s \in Sessions : t = ReaperOf(s)
  BY DEF Reapers, ReaperOf
<1> QED
  BY <1>1, <1>2, TaskKinds DEF Cleaners

(* What the order of a session depends on. *)
SameFor(s) ==
    /\ \A t \in Cleaners(s) : /\ rpc'[t] = rpc[t] /\ conn'[t] = conn[t] /\ target'[t] = target[t]
                              /\ rids'[t] = rids[t] /\ count'[t] = count[t]
    /\ rsub'[s] = rsub[s] /\ isNew'[s] = isNew[s] /\ subs'[s] = subs[s]
    /\ connections'[AddrOf[s]] = connections[AddrOf[s]]
    /\ \A u \in Subs : filter_groups'[SubKey(s, u)] = filter_groups[SubKey(s, u)]

LEMMA OrderSame ==
    ASSUME NEW s \in Sessions, OrderOf(s), SameFor(s)
    PROVE  OrderOf(s)' /\ CountedOf(s)' = CountedOf(s)
<1>1. /\ s \in Cleaners(s) /\ ReaperOf(s) \in Cleaners(s) /\ Cleaners(s)' = Cleaners(s)
      /\ ReaperOf(s)' = ReaperOf(s)
  BY DEF Cleaners, ReaperOf
<1>2. LiveOf(s)' = LiveOf(s) /\ (Registered(s)' <=> Registered(s))
  BY DEF SameFor, LiveOf, Registered, SubKey
<1>3. \A t \in Cleaners(s) : CleanerOf(s, t)'
  BY <1>1 DEF OrderOf, CleanerOf, SameFor
<1>4. RegisteredIn(s)' /\ IndexedIn(s)' /\ PendingIn(s)'
  BY <1>1, <1>2 DEF OrderOf, RegisteredIn, IndexedIn, PendingIn, SameFor
<1>5. CountedOf(s)' = CountedOf(s)
  BY <1>1, <1>2 DEF CountedOf, SameFor
<1> QED
  BY <1>1, <1>3, <1>4, <1>5 DEF OrderOf

(* A task changes the order of its own session only. *)
LEMMA OthersSame ==
    ASSUME RegInv, OwnAddresses, OrderInv, NEW t \in Tasks, RegStep(t),
           NEW s \in Sessions, t \notin Cleaners(s)
    PROVE  SameFor(s)
<1>0. /\ \A c \in Cleaners(s) : c # t /\ c \in Tasks /\ c \notin Publishers
      /\ s \in Tasks /\ AddrOf \in [Sessions -> Conns] /\ RegLocalsOf(t)
      /\ \A u \in Subs : SubKey(s, u) \in Keys
      /\ s \in Cleaners(s)
  BY CleanerKinds, RegistryAssumption, SubKeyType DEF RegInv, Cleaners
<1>1. /\ rpc \in [Tasks -> RPCs] /\ conn \in [Tasks -> Conns \cup {None}] /\ target \in [Tasks -> Sessions \cup {None}]
      /\ rids \in [Tasks -> SUBSET Subs] /\ count \in [Tasks -> 0..Cardinality(Subs)]
      /\ rsub \in [Tasks -> Subs \cup {None}] /\ isNew \in [Tasks -> BOOLEAN] /\ subs \in [Sessions -> SUBSET Subs]
      /\ connections \in [Conns -> Sessions \cup {None}] /\ filter_groups \in [Keys -> GroupIds \cup {None}]
  BY DEF RegInv, RegTypeOK, TypeOK
<1>2. CASE t \in Publishers
  <2>1. ~CleanupStep(t)
    BY <1>2 DEF OrderInv, CleanupRPCs, CleanupStep, ClGet, ClRead, ClRemove, ClIndex, ClMetrics, RGoto
  <2>2. t \notin Sessions /\ \A o \in Sessions : t # ReaperOf(o)
    BY <1>2, CleanerKinds
  <2>3. CASE Publish(t) \/ DeliverDone(t)
    BY <1>0, <1>1, <1>2, <2>3 DEF SameFor, Publish, DeliverDone, RGoto, DistStart, DistReturn, sharedVars, indexVars, envVars
  <2>4. CASE Deliver(t)
    BY <2>4 DEF SameFor, Deliver, sharedVars, indexVars
  <2>5. CASE NextDead(t) \/ PublishDone(t)
    BY <1>0, <1>1, <1>2, <2>5 DEF SameFor, NextDead, PublishDone, RGoto, sharedVars, vars, indexVars
  <2>6. CASE IndexStep(t)
    BY <1>0, <2>6, CallKeeps DEF SameFor, IndexStep, sharedVars, localVars, RegInv
  <2> QED
    BY <1>2, <2>1, <2>2, <2>3, <2>4, <2>5, <2>6 DEF RegStep
<1>3. ASSUME NEW o \in Sessions, t \in Cleaners(o) PROVE SameFor(s)
  <2>0. /\ o # s /\ AddrOf[o] # AddrOf[s] /\ t \notin Publishers /\ CleanerOf(o, t) /\ ReaperOf(o) \notin Cleaners(s)
        /\ \A x \in Sessions : t = ReaperOf(x) => x = o
        /\ t \in Sessions => t = o
    <3>1. o # s /\ AddrOf[o] # AddrOf[s] /\ CleanerOf(o, t)
      BY <1>3 DEF OwnAddresses, OrderInv, OrderOf
    <3>2. t \in {o, ReaperOf(o)} /\ \A x \in Sessions : ReaperOf(x) \in Cleaners(x) /\ x \in Cleaners(x)
      BY <1>3 DEF Cleaners
    <3>3. t \notin Publishers /\ Cleaners(o) \cap Cleaners(s) = {}
      BY <3>1, <3>2, CleanerKinds
    <3>4. \A x \in Sessions : t \in Cleaners(x) => x = o
      BY <1>3, CleanerKinds
    <3> QED
      BY <3>1, <3>2, <3>3, <3>4
  <2>1. \A u, v \in Subs : SubKey(s, u) # SubKey(o, v)
    BY <2>0 DEF SubKey
  <2>2. CASE t \in Sessions /\ Connect(t)
    BY <1>0, <1>1, <2>0, <2>2 DEF SameFor, Connect, RGoto, vars, indexVars
  <2>3. CASE t \in Sessions /\ (RmLock(t) \/ AddLock(t))
    <3>1. t = o /\ target[t] = o /\ rsub[t] \in Subs
      BY <1>0, <2>0, <2>3 DEF RmLock, AddLock, RGoto, RegLocalsOf, RequestRPCs, OwnAddresses
    <3>2. \A u \in Subs : filter_groups'[SubKey(s, u)] = filter_groups[SubKey(s, u)]
      <4>1. \A k \in Keys : k # SubKey(o, rsub[t]) => filter_groups'[k] = filter_groups[k]
        BY <1>1, <2>3, <3>1 DEF RmLock, AddLock, RemoveStart, AddStart, vars, indexVars
      <4> QED
        BY <1>0, <2>1, <3>1, <4>1
    <3> QED
      BY <1>0, <1>1, <2>0, <2>3, <3>1, <3>2 DEF SameFor, RmLock, AddLock, RGoto
  <2>4. CASE ClIndex(t)
    <3>1. PICK u \in rids[t] : RemoveStart(t, SubKey(o, u)) /\ u \in Subs
      BY <1>1, <2>0, <2>4 DEF ClIndex, CleanerOf, SubKey, CleanupRPCs
    <3>2. \A v \in Subs : filter_groups'[SubKey(s, v)] = filter_groups[SubKey(s, v)]
      BY <1>0, <1>1, <2>1, <3>1 DEF RemoveStart
    <3> QED
      BY <1>0, <1>1, <2>4, <3>2 DEF SameFor, ClIndex, sharedVars
  <2>5. CASE ClRemove(t)
    <3>1. conn[t] = AddrOf[o]
      BY <2>0, <2>5 DEF ClRemove, CleanerOf, CleanupRPCs
    <3> QED
      BY <1>0, <1>1, <2>0, <2>5, <3>1 DEF SameFor, ClRemove, vars, indexVars
  <2>6. CASE ClGet(t) \/ ClRead(t) \/ ClMetrics(t) \/ (\E x \in Sessions : t = ReaperOf(x) /\ ReaperDone(x))
    BY <1>0, <1>1, <2>6 DEF SameFor, ClGet, ClRead, ClMetrics, ReaperDone, RGoto, sharedVars, vars, indexVars
  <2>7. CASE t \in Sessions /\ DropHandle(t)
    BY <1>0, <1>1, <2>0, <2>7 DEF SameFor, DropHandle, sharedVars, vars, indexVars
  <2>8. CASE IndexStep(t)
    BY <1>0, <2>8, CallKeeps DEF SameFor, IndexStep, sharedVars, localVars, RegInv
  <2>9. CASE t \in Sessions /\ (\/ Req(t) \/ CloseSub(t) \/ Disconnect(t) \/ Unwind(t) \/ RmGet(t) \/ RmDone(t)
                                \/ AddGet(t) \/ AddDone(t) \/ EndSession(t))
    BY <1>0, <1>1, <2>9 DEF SameFor, Req, CloseSub, Disconnect, Unwind, RmGet, RmDone, AddGet, AddDone, EndSession,
       RGoto, sharedVars, vars, indexVars
  <2>10. CASE t \in Sessions /\ (Drain(t) \/ OutboundFails(t) \/ OutboundStops(t))
    BY <2>10 DEF SameFor, Drain, OutboundFails, OutboundStops, sharedVars, localVars, vars, indexVars
  <2> QED
    BY <2>0, <2>2, <2>3, <2>4, <2>5, <2>6, <2>7, <2>8, <2>9, <2>10 DEF RegStep, CleanupStep
<1> QED
  BY <1>2, <1>3, CleanerKinds

(* What the metric counts is finite. *)
LEMMA CountedFinite ==
    ASSUME NEW S \in SUBSET (Sessions \X Subs) PROVE IsFiniteSet(S) /\ Cardinality(S) \in Nat
<1>1. IsFiniteSet(Sessions \X Subs)
  BY FS_Product, RegistryAssumption
<1> QED
  BY <1>1, FS_Subset, FS_CardinalityType

(* How the metric follows the subscriptions of the session that makes a step. *)
MetricOf(s) ==
    \/ CountedOf(s)' = CountedOf(s) /\ active' = active
    \/ \E u \in CountedOf(s) : CountedOf(s)' = CountedOf(s) \ {u} /\ active' = active - 1
    \/ \E u \in Subs \ CountedOf(s) : CountedOf(s)' = CountedOf(s) \cup {u} /\ active' = active + 1
    \/ CountedOf(s)' = {} /\ active' = active - Cardinality(CountedOf(s))

LEMMA MetricStep ==
    ASSUME RegInv, NEW s \in Sessions, active = Cardinality(Counted),
           \A o \in Sessions \ {s} : CountedOf(o)' = CountedOf(o), MetricOf(s), CountedOf(s) \subseteq Subs
    PROVE  active' = Cardinality(Counted')
<1> PICK C, C2, S, S2 : C = Counted /\ C2 = Counted' /\ S = CountedOf(s) /\ S2 = CountedOf(s)'
  OBVIOUS
<1>1. C \in SUBSET (Sessions \X Subs) /\ IsFiniteSet(C) /\ Cardinality(C) \in Nat
  BY CountedFinite DEF Counted
<1>2. C2 \in SUBSET (Sessions \X Subs)
  BY DEF Counted
<1>3. /\ \A x \in Sessions \X Subs : x[1] # s => (x \in C2 <=> x \in C)
      /\ \A u \in Subs : (<<s, u>> \in C <=> u \in S) /\ (<<s, u>> \in C2 <=> u \in S2)
  BY DEF Counted
<1>4. CASE S2 = S /\ active' = active
  <2>1. C2 = C
    BY <1>1, <1>2, <1>3, <1>4
  <2> QED
    BY <1>4, <2>1
<1>5. ASSUME NEW u \in S, S2 = S \ {u}, active' = active - 1 PROVE active' = Cardinality(C2)
  <2>1. C2 = C \ {<<s, u>>} /\ <<s, u>> \in C
    BY <1>1, <1>2, <1>3, <1>5
  <2> QED
    BY <1>1, <1>5, <2>1, FS_RemoveElement
<1>6. ASSUME NEW u \in Subs \ S, S2 = S \cup {u}, active' = active + 1 PROVE active' = Cardinality(C2)
  <2>1. C2 = C \cup {<<s, u>>} /\ <<s, u>> \notin C
    BY <1>1, <1>2, <1>3, <1>6
  <2> QED
    BY <1>1, <1>6, <2>1, FS_AddElement
<1>7. CASE S2 = {} /\ active' = active - Cardinality(S)
  <2> DEFINE M == {s} \X S
  <2>1. C = C2 \cup M /\ C2 \cap M = {} /\ M \in SUBSET (Sessions \X Subs)
    BY <1>1, <1>2, <1>3, <1>7
  <2>2. IsFiniteSet(S) /\ IsFiniteSet({s}) /\ Cardinality({s}) = 1 /\ Cardinality(S) \in Nat
    BY SubsCount, FS_Singleton, FS_CardinalityType
  <2>3. Cardinality(M) = Cardinality(S) /\ IsFiniteSet(M)
    BY <2>2, FS_Product
  <2>4. IsFiniteSet(C2) /\ Cardinality(C2) \in Nat
    BY <1>2, CountedFinite
  <2>5. Cardinality(C) = Cardinality(C2) + Cardinality(M) - Cardinality({})
    BY <2>1, <2>3, <2>4, FS_Union
  <2> QED
    BY <1>7, <2>2, <2>3, <2>4, <2>5, FS_EmptySet
<1> QED
  BY <1>4, <1>5, <1>6, <1>7 DEF MetricOf

LEMMA IndexedSame ==
    ASSUME NEW s \in Sessions, IndexedIn(s), connections'[AddrOf[s]] = connections[AddrOf[s]],
           subs'[s] = subs[s], UNCHANGED filter_groups,
           \A t \in Cleaners(s) : /\ rpc'[t] = "cl_index" <=> rpc[t] = "cl_index"
                                  /\ rpc[t] = "cl_index" => rids'[t] = rids[t]
    PROVE  IndexedIn(s)'
<1>1. LiveOf(s)' = LiveOf(s) /\ (Registered(s)' <=> Registered(s)) /\ Cleaners(s)' = Cleaners(s)
  BY DEF LiveOf, Registered, SubKey, Cleaners, ReaperOf
<1> QED
  BY <1>1 DEF IndexedIn

(* While a request or nothing is in progress, or the session is over, the   *)
(* reaper rests; while the reaper works, the session is over.              *)
LEMMA OneCleaner ==
    ASSUME RegInv, NEW s \in Sessions
    PROVE  /\ rpc[s] # "done" => rpc[ReaperOf(s)] = "off"
           /\ rpc[ReaperOf(s)] # "off" => rpc[s] = "done"
           /\ rpc[ReaperOf(s)] \in CleanupRPCs \cup {"off", "cl_done", "done"}
  BY CleanerKinds, TaskKinds DEF RegInv, ReapersWait, PlaceOf

(* A session connects, or makes progress with a request, or its outbound task does. *)
LEMMA RequestOrder ==
    ASSUME RegInv, OwnAddresses, NEW s \in Sessions, OrderOf(s), active \in Int,
           \/ Connect(s) \/ Req(s) \/ CloseSub(s) \/ RmGet(s) \/ AddGet(s) \/ RmDone(s) \/ AddDone(s)
           \/ Drain(s) \/ OutboundFails(s) \/ OutboundStops(s)
    PROVE  OrderOf(s)' /\ MetricOf(s)
<1> PICK r : r = ReaperOf(s)
  OBVIOUS
<1>0. /\ s \in Tasks /\ r \in Tasks /\ r # s /\ Cleaners(s) = {s, r} /\ Cleaners(s)' = {s, r}
      /\ (rpc[s] # "done" => rpc[r] = "off") /\ RegLocalsOf(s)
      /\ AddrOf \in [Sessions -> Conns] /\ AddrOf[s] \in Conns /\ None \notin Sessions
      /\ CleanerOf(s, s) /\ CleanerOf(s, r) /\ RegisteredIn(s) /\ IndexedIn(s) /\ PendingIn(s)
  BY CleanerKinds, OneCleaner, RegistryAssumption DEF Cleaners, ReaperOf, RegInv, OrderOf, Tasks
<1>1. /\ rpc \in [Tasks -> RPCs] /\ conn \in [Tasks -> Conns \cup {None}] /\ target \in [Tasks -> Sessions \cup {None}]
      /\ rsub \in [Tasks -> Subs \cup {None}] /\ isNew \in [Tasks -> BOOLEAN] /\ subs \in [Sessions -> SUBSET Subs]
      /\ connections \in [Conns -> Sessions \cup {None}]
  BY DEF RegInv, RegTypeOK
<1>2. UNCHANGED <<subs, conn, rids, count>> /\ UNCHANGED filter_groups
  BY DEF Connect, Req, CloseSub, RmGet, AddGet, RmDone, AddDone, Drain, OutboundFails, OutboundStops,
     sharedVars, localVars, vars, indexVars
<1>3. rpc'[r] = rpc[r] /\ target'[r] = target[r]
  BY <1>0, <1>1 DEF Connect, Req, CloseSub, RmGet, AddGet, RmDone, AddDone, Drain, OutboundFails, OutboundStops,
     RGoto, localVars
<1>4. CleanerOf(s, r)'
  BY <1>0, <1>2, <1>3 DEF CleanerOf
<1>5. CASE Connect(s)
  <2>1. /\ rpc[s] = "off" /\ rpc'[s] = "idle" /\ connections'[AddrOf[s]] = s /\ active' = active
        /\ UNCHANGED <<rsub, isNew>>
    BY <1>0, <1>1, <1>5 DEF Connect, RGoto
  <2>2. ~Registered(s) /\ subs[s] = {} /\ LiveOf(s) = {} /\ Registered(s)'
    BY <1>0, <2>1 DEF RegisteredIn, IndexedIn, Registered
  <2>3. LiveOf(s)' = LiveOf(s)
    BY <1>2 DEF LiveOf, SubKey
  <2>4. CleanerOf(s, s)' /\ RegisteredIn(s)' /\ PendingIn(s)'
    BY <2>1, <2>2 DEF CleanerOf, RegisteredIn, PendingIn, CleanupRPCs
  <2>5. IndexedIn(s)'
    BY <1>0, <1>2, <1>3, <2>1, <2>2, <2>3 DEF IndexedIn
  <2>6. CountedOf(s) = {} /\ CountedOf(s)' = {}
    BY <1>0, <1>2, <2>1, <2>2 DEF CountedOf
  <2> QED
    BY <1>0, <1>4, <2>1, <2>4, <2>5, <2>6 DEF OrderOf, MetricOf
<1>6. CASE ~Connect(s)
  <2>1. /\ connections' = connections
        /\ rpc[s] \in RequestRPCs \cup {"idle"} \/ UNCHANGED <<rpc, target, rsub, isNew, active>>
    BY <1>6 DEF Req, CloseSub, RmGet, AddGet, RmDone, AddDone, Drain, OutboundFails, OutboundStops, RGoto,
       RequestRPCs, sharedVars, localVars
  <2>2. Registered(s)' <=> Registered(s)
    BY <2>1 DEF Registered
  <2>3. CASE UNCHANGED <<rpc, target, rsub, isNew, active>>
    <3>1. SameFor(s)
      BY <1>2, <2>1, <2>3 DEF SameFor
    <3> QED
      BY <2>3, <3>1, OrderSame DEF MetricOf
  <2>4. CASE rpc[s] \in RequestRPCs \cup {"idle"} /\ (Req(s) \/ CloseSub(s) \/ RmGet(s) \/ AddGet(s) \/ RmDone(s) \/ AddDone(s))
    <3>1. /\ rpc'[s] \in (RequestRPCs \cup {"idle"}) \ {"rm_wait", "add_wait"}
          /\ (Req(s) \/ CloseSub(s) \/ RmGet(s) \/ AddGet(s)) => rpc[s] \notin {"rm_wait", "add_wait"} /\ active' = active
      BY <1>0, <1>1, <2>4 DEF Req, CloseSub, RmGet, AddGet, RmDone, AddDone, RGoto, AfterRemove, RequestRPCs, sharedVars
    <3>2. Registered(s) /\ Registered(s)'
      BY <1>0, <2>2, <2>4 DEF RegisteredIn
    <3>3. CleanerOf(s, s)' /\ RegisteredIn(s)' /\ PendingIn(s)'
      BY <3>1, <3>2 DEF CleanerOf, RegisteredIn, PendingIn, CleanupRPCs, RequestRPCs, BeforeRemoval
    <3>4. IndexedIn(s)'
      BY <1>0, <1>2, <1>3, <2>1, <2>4, <3>1, IndexedSame DEF RequestRPCs
    <3>5. CountedOf(s)' = subs[s]
      BY <1>2, <3>1, <3>2 DEF CountedOf
    <3>6. CASE Req(s) \/ CloseSub(s) \/ RmGet(s) \/ AddGet(s)
      BY <1>0, <1>4, <3>1, <3>2, <3>3, <3>4, <3>5, <3>6 DEF OrderOf, MetricOf, CountedOf
    <3>7. CASE RmDone(s)
      <4>1. rpc[s] = "rm_wait" /\ active' = active - 1 /\ rsub[s] \in Subs /\ rsub[s] \notin subs[s]
        BY <1>0, <3>7 DEF RmDone, RGoto, RegLocalsOf, RequestRPCs, PendingIn
      <4>2. CountedOf(s) = subs[s] \cup {rsub[s]}
        BY <3>2, <4>1 DEF CountedOf
      <4> QED
        BY <1>0, <1>4, <3>3, <3>4, <3>5, <4>1, <4>2 DEF OrderOf, MetricOf
    <3>8. CASE AddDone(s)
      <4>1. /\ rpc[s] = "add_wait" /\ rsub[s] \in Subs /\ rsub[s] \in subs[s]
            /\ active' = IF isNew[s] THEN active + 1 ELSE active
        BY <1>0, <3>8 DEF AddDone, RGoto, RegLocalsOf, RequestRPCs, PendingIn
      <4>2. CountedOf(s) = IF isNew[s] THEN subs[s] \ {rsub[s]} ELSE subs[s]
        BY <1>1, <3>2, <4>1 DEF CountedOf
      <4> QED
        BY <1>0, <1>1, <1>4, <3>3, <3>4, <3>5, <4>1, <4>2 DEF OrderOf, MetricOf
    <3> QED
      BY <2>4, <3>6, <3>7, <3>8
  <2>5. Drain(s) \/ OutboundFails(s) \/ OutboundStops(s) => UNCHANGED <<rpc, target, rsub, isNew, active>>
    BY DEF Drain, OutboundFails, OutboundStops, sharedVars, localVars
  <2> QED
    BY <1>6, <2>1, <2>3, <2>4, <2>5
<1> QED
  BY <1>5, <1>6

(* A request changes the subscriptions and the index in one step. *)
LEMMA EnterOrder ==
    ASSUME RegInv, OwnAddresses, NEW s \in Sessions, OrderOf(s), RmLock(s) \/ AddLock(s)
    PROVE  OrderOf(s)' /\ MetricOf(s)
<1> PICK r : r = ReaperOf(s)
  OBVIOUS
<1>0. /\ s \in Tasks /\ r \in Tasks /\ r # s /\ Cleaners(s) = {s, r} /\ Cleaners(s)' = {s, r}
      /\ (rpc[s] # "done" => rpc[r] = "off") /\ RegLocalsOf(s) /\ AddrOf[s] \in Conns
      /\ CleanerOf(s, s) /\ CleanerOf(s, r) /\ RegisteredIn(s) /\ IndexedIn(s) /\ PendingIn(s)
  BY CleanerKinds, OneCleaner, RegistryAssumption DEF Cleaners, ReaperOf, RegInv, OrderOf
<1>1. /\ rpc \in [Tasks -> RPCs] /\ target \in [Tasks -> Sessions \cup {None}]
      /\ isNew \in [Tasks -> BOOLEAN] /\ subs \in [Sessions -> SUBSET Subs]
      /\ filter_groups \in [Keys -> GroupIds \cup {None}]
  BY DEF RegInv, RegTypeOK, TypeOK
<1>2. /\ rpc[s] \in {"rm_lock", "add_lock"} /\ target[s] = s /\ rsub[s] \in Subs
      /\ UNCHANGED <<connections, rsub, conn, rids, count, active>>
      /\ rpc'[s] \in RequestRPCs \cup {"idle"} /\ rpc'[r] = rpc[r] /\ rpc[r] = "off"
  BY <1>0, <1>1 DEF RmLock, AddLock, RGoto, AfterRemove, RegLocalsOf, RequestRPCs, OwnAddresses
<1>3. Registered(s) /\ Registered(s)' /\ LiveOf(s) = subs[s]
  BY <1>0, <1>2 DEF RegisteredIn, IndexedIn, RequestRPCs, Registered
<1>4. CleanerOf(s, s)' /\ CleanerOf(s, r)' /\ RegisteredIn(s)'
  BY <1>2, <1>3 DEF CleanerOf, RegisteredIn, CleanupRPCs, RequestRPCs, BeforeRemoval
<1>5. \A u, v \in Subs : SubKey(s, u) \in Keys /\ (SubKey(s, u) = SubKey(s, v) => u = v)
  BY SubKeyType
<1>6. LiveOf(s)' = subs'[s]
  <2>1. CASE RmLock(s)
    <3>1. CASE rsub[s] \in subs[s]
      <4>1. subs'[s] = subs[s] \ {rsub[s]} /\ filter_groups' = [filter_groups EXCEPT ![SubKey(s, rsub[s])] = None]
        BY <1>1, <1>2, <2>1, <3>1 DEF RmLock, RemoveStart
      <4> QED
        BY <1>1, <1>2, <1>3, <1>5, <4>1 DEF LiveOf, SubKey
    <3>2. CASE rsub[s] \notin subs[s]
      <4>1. subs' = subs /\ filter_groups' = filter_groups
        BY <1>2, <2>1, <3>2 DEF RmLock, vars, indexVars
      <4> QED
        BY <1>3, <4>1 DEF LiveOf, SubKey
    <3> QED
      BY <3>1, <3>2
  <2>2. CASE AddLock(s)
    <3>1. /\ subs'[s] = subs[s] \cup {rsub[s]}
          /\ \/ filter_groups[SubKey(s, rsub[s])] # None /\ filter_groups' = filter_groups
             \/ filter_groups' = [filter_groups EXCEPT ![SubKey(s, rsub[s])] = nextGroup]
      BY <1>1, <1>2, <2>2 DEF AddLock, AddStart
    <3>2. nextGroup # None
      BY IndexAssumption DEF RegInv, RegTypeOK, TypeOK
    <3> QED
      BY <1>1, <1>2, <1>3, <1>5, <3>1, <3>2 DEF LiveOf, SubKey
  <2> QED
    BY <2>1, <2>2
<1>7. IndexedIn(s)'
  BY <1>0, <1>2, <1>3, <1>6 DEF IndexedIn, RequestRPCs
<1>8. PendingIn(s)' /\ CountedOf(s)' = CountedOf(s)
  <2>1. CountedOf(s) = subs[s]
    BY <1>2, <1>3 DEF CountedOf
  <2>2. CASE RmLock(s) /\ rsub[s] \in subs[s]
    <3>1. rpc'[s] = "rm_wait" /\ subs'[s] = subs[s] \ {rsub[s]}
      BY <1>0, <1>1, <1>2, <2>2 DEF RmLock
    <3> QED
      BY <1>1, <1>2, <1>3, <2>1, <2>2, <3>1 DEF PendingIn, CountedOf
  <2>3. CASE RmLock(s) /\ rsub[s] \notin subs[s]
    <3>1. rpc'[s] \notin {"rm_wait", "add_wait"} /\ subs'[s] = subs[s]
      BY <1>0, <1>1, <1>2, <2>3 DEF RmLock, AfterRemove
    <3> QED
      BY <1>1, <1>2, <1>3, <2>1, <3>1 DEF PendingIn, CountedOf
  <2>4. CASE AddLock(s)
    <3>1. rpc'[s] = "add_wait" /\ subs'[s] = subs[s] \cup {rsub[s]} /\ isNew'[s] = (rsub[s] \notin subs[s])
      BY <1>0, <1>1, <1>2, <2>4 DEF AddLock, RGoto
    <3> QED
      BY <1>1, <1>2, <1>3, <2>1, <3>1 DEF PendingIn, CountedOf
  <2> QED
    BY <2>2, <2>3, <2>4
<1> QED
  BY <1>0, <1>2, <1>4, <1>7, <1>8 DEF OrderOf, MetricOf

(* cleanup_connection, by the session's task or by its reaper. *)
LEMMA CleanupOrder ==
    ASSUME RegInv, NEW s \in Sessions, OrderOf(s), NEW t \in Cleaners(s), active \in Int, CleanupStep(t)
    PROVE  OrderOf(s)' /\ MetricOf(s)
<1>a. PICK z \in Cleaners(s) : z # t /\ Cleaners(s) = {z, t}
  BY CleanerKinds DEF Cleaners
<1>0. /\ s \in Tasks /\ t \in Tasks /\ z \in Tasks /\ Cleaners(s)' = {z, t}
      /\ RegLocalsOf(t) /\ AddrOf[s] \in Conns /\ None \notin Sessions
      /\ CleanerOf(s, t) /\ CleanerOf(s, z) /\ RegisteredIn(s) /\ IndexedIn(s) /\ PendingIn(s)
  BY <1>a, CleanerKinds, RegistryAssumption DEF Cleaners, ReaperOf, RegInv, OrderOf, Tasks
<1>1. /\ rpc \in [Tasks -> RPCs] /\ conn \in [Tasks -> Conns \cup {None}] /\ target \in [Tasks -> Sessions \cup {None}]
      /\ rids \in [Tasks -> SUBSET Subs] /\ count \in [Tasks -> 0..Cardinality(Subs)]
      /\ subs \in [Sessions -> SUBSET Subs] /\ connections \in [Conns -> Sessions \cup {None}]
      /\ filter_groups \in [Keys -> GroupIds \cup {None}]
  BY DEF RegInv, RegTypeOK, TypeOK
<1>2. /\ rpc[t] \in CleanupRPCs /\ UNCHANGED <<subs, conn, rsub, isNew>>
      /\ rpc'[z] = rpc[z] /\ target'[z] = target[z] /\ rids'[z] = rids[z] /\ count'[z] = count[z]
  BY <1>0, <1>1, <1>a DEF CleanupStep, ClGet, ClRead, ClRemove, ClIndex, ClMetrics, RGoto, CleanupRPCs, sharedVars
<1>3. /\ rpc[z] \notin CleanupRPCs
      /\ rpc[s] \in CleanupRPCs \cup {"done"}
      /\ t = s \/ (t = ReaperOf(s) /\ rpc[s] = "done" /\ z = s)
  BY <1>a, <1>2, OneCleaner DEF Cleaners, CleanupRPCs
<1>4. CleanerOf(s, z)'
  BY <1>2, <1>3 DEF CleanerOf, CleanupRPCs
<1>5. rpc[t] \in BeforeRemoval <=> Registered(s)
  BY <1>2, <1>3, <1>0 DEF RegisteredIn, BeforeRemoval, CleanupRPCs
<1>6. conn[t] = AddrOf[s]
  BY <1>0, <1>2 DEF CleanerOf
<1>7. ASSUME rpc'[t] \in CleanupRPCs \cup {"cl_done"}, rpc'[t] \in BeforeRemoval <=> Registered(s)'
      PROVE  RegisteredIn(s)' /\ PendingIn(s)'
  <2>1. t = s \/ (rpc'[s] = "done" /\ ReaperOf(s)' = t)
    BY <1>2, <1>3 DEF ReaperOf
  <2>2. rpc'[s] \in CleanupRPCs \cup {"cl_done", "done"}
    BY <1>7, <2>1
  <2> QED
    BY <1>2, <1>7, <2>1, <2>2 DEF RegisteredIn, PendingIn, CleanupRPCs, BeforeRemoval, RequestRPCs
<1>8. CASE ClGet(t) \/ ClRead(t)
  <2>1. /\ connections' = connections /\ active' = active /\ UNCHANGED filter_groups
        /\ rpc[t] \in {"cl_get", "cl_read"} /\ rpc'[t] \in {"cl_read", "cl_remove"}
        /\ rpc'[t] = "cl_read" => target'[t] = s
        /\ rpc'[t] = "cl_remove" => target'[t] = s /\ rids'[t] = subs[s] /\ count'[t] = Cardinality(subs[s])
    <3>1. rpc[t] \in {"cl_get", "cl_read"}
      BY <1>8 DEF ClGet, ClRead, RGoto
    <3>2. connections[conn[t]] = s
      BY <1>5, <1>6, <3>1 DEF Registered, BeforeRemoval
    <3> QED
      BY <1>0, <1>1, <1>8, <3>1, <3>2 DEF ClGet, ClRead, RGoto, CleanerOf, sharedVars, vars, indexVars
  <2>2. CleanerOf(s, t)'
    BY <1>2, <1>6, <2>1 DEF CleanerOf
  <2>3. Registered(s) /\ Registered(s)'
    BY <1>5, <2>1 DEF Registered, BeforeRemoval
  <2>4. RegisteredIn(s)' /\ PendingIn(s)'
    BY <1>7, <2>1, <2>3 DEF BeforeRemoval, CleanupRPCs
  <2>5. IndexedIn(s)'
    BY <1>0, <1>a, <1>2, <2>1, IndexedSame
  <2>6. CountedOf(s)' = CountedOf(s)
    <3>1. rpc[s] \notin {"rm_wait", "add_wait"} /\ rpc'[s] \notin {"rm_wait", "add_wait"}
      BY <1>2, <1>3, <2>1 DEF CleanupRPCs
    <3> QED
      BY <1>2, <2>3, <3>1 DEF CountedOf
  <2> QED
    BY <1>0, <1>4, <2>1, <2>2, <2>4, <2>5, <2>6 DEF OrderOf, MetricOf
<1>9. CASE ClRemove(t)
  <2>1. /\ rpc[t] = "cl_remove" /\ rpc'[t] = "cl_index" /\ target'[t] = s /\ UNCHANGED <<rids, count, active>>
        /\ connections'[AddrOf[s]] = None /\ UNCHANGED filter_groups
    BY <1>0, <1>1, <1>6, <1>9 DEF ClRemove, CleanerOf, vars, indexVars
  <2>2. CleanerOf(s, t)'
    BY <1>0, <1>2, <1>6, <2>1 DEF CleanerOf
  <2>3. Registered(s) /\ ~Registered(s)'
    BY <1>0, <1>5, <2>1 DEF Registered, BeforeRemoval
  <2>4. RegisteredIn(s)' /\ PendingIn(s)'
    BY <1>7, <2>1, <2>3 DEF BeforeRemoval, CleanupRPCs
  <2>5. IndexedIn(s)'
    <3>1. LiveOf(s)' = LiveOf(s) /\ LiveOf(s) = rids[t]
      BY <1>0, <2>1, <2>3 DEF LiveOf, SubKey, IndexedIn, CleanerOf
    <3> QED
      BY <1>0, <1>2, <1>3, <2>1, <2>3, <3>1 DEF IndexedIn, CleanupRPCs
  <2>6. CountedOf(s)' = CountedOf(s)
    <3>1. rpc[s] \notin {"rm_wait", "add_wait"} /\ rpc'[s] \notin {"rm_wait", "add_wait"}
      BY <1>2, <1>3, <2>1 DEF CleanupRPCs
    <3> QED
      BY <1>0, <1>a, <1>2, <2>1, <2>3, <3>1 DEF CountedOf
  <2> QED
    BY <1>0, <1>4, <2>1, <2>2, <2>4, <2>5, <2>6 DEF OrderOf, MetricOf
<1>10. CASE ClIndex(t)
  <2>1. PICK u \in rids[t] : rids' = [rids EXCEPT ![t] = @ \ {u}] /\ RemoveStart(t, SubKey(s, u))
    BY <1>0, <1>6, <1>10 DEF ClIndex, CleanerOf, SubKey
  <2>2. /\ rpc[t] = "cl_index" /\ UNCHANGED <<rpc, target, count, active, connections>> /\ u \in Subs
        /\ filter_groups' = [filter_groups EXCEPT ![SubKey(s, u)] = None]
    BY <1>0, <1>1, <1>10, <2>1 DEF ClIndex, RemoveStart, sharedVars
  <2>3. CleanerOf(s, t)'
    BY <1>0, <1>2, <1>6, <2>2 DEF CleanerOf
  <2>4. ~Registered(s) /\ ~Registered(s)'
    BY <1>5, <2>2 DEF Registered, BeforeRemoval
  <2>5. RegisteredIn(s)' /\ PendingIn(s)'
    BY <1>7, <2>2, <2>4 DEF BeforeRemoval, CleanupRPCs
  <2>6. IndexedIn(s)'
    <3>1. \A v, w \in Subs : SubKey(s, v) \in Keys /\ (SubKey(s, v) = SubKey(s, w) => v = w)
      BY SubKeyType
    <3>2. LiveOf(s) = rids[t] /\ LiveOf(s)' = LiveOf(s) \ {u}
      BY <1>0, <1>a, <1>1, <2>2, <3>1 DEF IndexedIn, LiveOf, SubKey
    <3> QED
      BY <1>0, <1>1, <1>2, <1>3, <2>1, <2>2, <2>4, <3>2 DEF IndexedIn, CleanupRPCs
  <2>7. CountedOf(s)' = CountedOf(s)
    BY <1>0, <1>a, <1>2, <2>2, <2>4 DEF CountedOf
  <2> QED
    BY <1>0, <1>4, <2>2, <2>3, <2>5, <2>6, <2>7 DEF OrderOf, MetricOf
<1>11. CASE ClMetrics(t)
  <2>1. /\ rpc[t] = "cl_index" /\ rpc'[t] = "cl_done" /\ rids[t] = {} /\ active' = active - count[t]
        /\ UNCHANGED <<connections, target, rids, count>> /\ UNCHANGED filter_groups
    BY <1>0, <1>1, <1>11 DEF ClMetrics, RGoto, vars, indexVars
  <2>2. CleanerOf(s, t)'
    BY <2>1 DEF CleanerOf, CleanupRPCs
  <2>3. ~Registered(s) /\ ~Registered(s)'
    BY <1>5, <2>1 DEF Registered, BeforeRemoval
  <2>4. RegisteredIn(s)' /\ PendingIn(s)'
    BY <1>7, <2>1, <2>3 DEF BeforeRemoval
  <2>5. IndexedIn(s)'
    <3>1. LiveOf(s) = {} /\ LiveOf(s)' = LiveOf(s)
      BY <1>0, <1>a, <2>1 DEF IndexedIn, LiveOf, SubKey
    <3> QED
      BY <1>0, <1>2, <1>3, <2>1, <2>3, <3>1 DEF IndexedIn, CleanupRPCs
  <2>6. CountedOf(s) = subs[s] /\ CountedOf(s)' = {}
    <3>1. rpc[s] \notin {"rm_wait", "add_wait"}
      BY <1>3 DEF CleanupRPCs
    <3>2. rpc'[z] # "cl_index" /\ rpc'[t] # "cl_index"
      BY <1>2, <1>3, <2>1 DEF CleanupRPCs
    <3> QED
      BY <1>0, <1>a, <2>1, <2>3, <3>1, <3>2 DEF CountedOf
  <2>7. count[t] = Cardinality(subs[s])
    BY <1>0, <2>1 DEF CleanerOf
  <2> QED
    BY <1>0, <1>4, <2>1, <2>2, <2>4, <2>5, <2>6, <2>7 DEF OrderOf, MetricOf
<1> QED
  BY <1>8, <1>9, <1>10, <1>11 DEF CleanupStep

(* A session ends, and with it its handle; the reaper ends. *)
LEMMA EndOrder ==
    ASSUME RegInv, OwnAddresses, NEW s \in Sessions, OrderOf(s),
           Disconnect(s) \/ Unwind(s) \/ EndSession(s) \/ DropHandle(s) \/ ReaperDone(s)
    PROVE  OrderOf(s)' /\ MetricOf(s)
<1> PICK r : r = ReaperOf(s)
  OBVIOUS
<1>0. /\ s \in Tasks /\ r \in Tasks /\ r # s /\ Cleaners(s) = {s, r} /\ Cleaners(s)' = {s, r} /\ r = ReaperOf(s)'
      /\ (rpc[s] # "done" => rpc[r] = "off") /\ (rpc[r] # "off" => rpc[s] = "done") /\ AddrOf[s] \in Conns
      /\ AddrOf \in [Sessions -> Conns] /\ connections[AddrOf[s]] \in Sessions \cup {None}
      /\ CleanerOf(s, s) /\ CleanerOf(s, r) /\ RegisteredIn(s) /\ IndexedIn(s) /\ PendingIn(s)
  <2>1. s \in Tasks /\ r \in Tasks /\ r # s
    BY CleanerKinds
  <2>2. Cleaners(s) = {s, r} /\ Cleaners(s)' = {s, r} /\ r = ReaperOf(s)'
    BY DEF Cleaners, ReaperOf
  <2>3. (rpc[s] # "done" => rpc[r] = "off") /\ (rpc[r] # "off" => rpc[s] = "done")
    BY OneCleaner
  <2>4. AddrOf \in [Sessions -> Conns] /\ AddrOf[s] \in Conns
    BY RegistryAssumption
  <2>5. connections[AddrOf[s]] \in Sessions \cup {None}
    BY <2>4 DEF RegInv, RegTypeOK
  <2>6. CleanerOf(s, s) /\ CleanerOf(s, r) /\ RegisteredIn(s) /\ IndexedIn(s) /\ PendingIn(s)
    BY <2>2 DEF OrderOf
  <2> QED
    BY <2>1, <2>2, <2>3, <2>4, <2>5, <2>6
<1>1. /\ rpc \in [Tasks -> RPCs] /\ conn \in [Tasks -> Conns \cup {None}] /\ target \in [Tasks -> Sessions \cup {None}]
      /\ count \in [Tasks -> 0..Cardinality(Subs)]
  BY DEF RegInv, RegTypeOK
<1>2. UNCHANGED <<connections, subs, rids, isNew, active>> /\ UNCHANGED filter_groups
  BY DEF Disconnect, Unwind, EndSession, DropHandle, ReaperDone, sharedVars, vars, indexVars
<1>3. Registered(s)' <=> Registered(s)
  BY <1>2 DEF Registered
<1>4. /\ rpc'[s] \in {"cl_get", "ended", "done"} /\ rpc[s] \in {"idle", "cl_done", "ended", "done"}
      /\ rpc[r] \notin {"cl_index"} /\ rpc'[r] \notin {"cl_index"}
  BY <1>0, <1>1 DEF Disconnect, Unwind, EndSession, DropHandle, ReaperDone, RGoto
<1>5. PendingIn(s)' /\ IndexedIn(s)' /\ CountedOf(s)' = CountedOf(s)
  <2>1. IndexedIn(s)'
    BY <1>0, <1>2, <1>4, IndexedSame
  <2> QED
    BY <1>0, <1>2, <1>3, <1>4, <2>1 DEF PendingIn, CountedOf
<1>6. CASE Disconnect(s) \/ Unwind(s) \/ EndSession(s)
  <2>1. /\ rpc'[r] = rpc[r] /\ rpc[r] = "off"
        /\ rpc'[s] = "cl_get" => conn'[s] = AddrOf[s] /\ rpc[s] = "idle"
        /\ rpc'[s] # "done"
    BY <1>0, <1>1, <1>6 DEF Disconnect, Unwind, EndSession, RGoto
  <2>2. CleanerOf(s, s)' /\ CleanerOf(s, r)' /\ RegisteredIn(s)'
    BY <1>0, <1>3, <1>4, <2>1 DEF CleanerOf, RegisteredIn, CleanupRPCs, RequestRPCs, BeforeRemoval
  <2> QED
    BY <1>0, <1>2, <1>5, <2>2 DEF OrderOf, MetricOf
<1>7. CASE DropHandle(s)
  <2>1. /\ rpc'[s] = "done" /\ rpc'[r] = IF connections[AddrOf[s]] # None THEN "cl_get" ELSE "off"
        /\ rpc'[r] = "cl_get" => conn'[r] = AddrOf[s]
    BY <1>0, <1>1, <1>7 DEF DropHandle
  <2>2. Registered(s) <=> connections[AddrOf[s]] # None
    BY <1>0, TaskKinds, RegistryAssumption DEF RegInv, OwnEntry, OwnAddresses, Registered
  <2>3. CleanerOf(s, s)' /\ CleanerOf(s, r)' /\ RegisteredIn(s)'
    BY <1>0, <1>3, <2>1, <2>2 DEF CleanerOf, RegisteredIn, CleanupRPCs, RequestRPCs, BeforeRemoval
  <2> QED
    BY <1>0, <1>2, <1>5, <2>3 DEF OrderOf, MetricOf
<1>8. CASE ReaperDone(s)
  <2>1. rpc[r] = "cl_done" /\ rpc'[r] = "done" /\ rpc[s] = "done" /\ rpc'[s] = "done"
    BY <1>0, <1>1, <1>8 DEF ReaperDone, RGoto
  <2>2. CleanerOf(s, s)' /\ CleanerOf(s, r)' /\ RegisteredIn(s)'
    BY <1>0, <1>3, <2>1 DEF CleanerOf, RegisteredIn, CleanupRPCs, RequestRPCs, BeforeRemoval
  <2> QED
    BY <1>0, <1>2, <1>5, <2>2 DEF OrderOf, MetricOf
<1> QED
  BY <1>6, <1>7, <1>8

(* A publisher that finds no channel dead unregisters nobody. *)
LEMMA PublisherOrder ==
    ASSUME RegInv, OrderInv, NeverDead, NEW t \in Tasks, RegStep(t), NEW p \in Publishers
    PROVE  rpc'[p] \notin CleanupRPCs
<1>0. p \in Tasks /\ p \notin Sessions /\ rpc[p] \notin CleanupRPCs /\ dead[p] = <<>> /\ rpc \in [Tasks -> RPCs]
  BY TaskKinds DEF OrderInv, NeverDead, RegInv, RegTypeOK
<1>1. CASE p # t
  BY <1>0, <1>1, PublisherFrame
<1>2. CASE p = t
  <2>1. ~CleanupStep(p) /\ ~NextDead(p) /\ \A o \in Sessions : p # ReaperOf(o)
    BY <1>0, <1>2, CleanerKinds
    DEF CleanupRPCs, CleanupStep, ClGet, ClRead, ClRemove, ClIndex, ClMetrics, RGoto, NextDead
  <2>2. CASE Publish(p) \/ DeliverDone(p) \/ PublishDone(p)
    BY <1>0, <2>2 DEF Publish, DeliverDone, PublishDone, RGoto, CleanupRPCs
  <2>3. CASE Deliver(p) \/ IndexStep(p)
    BY <1>0, <2>3 DEF Deliver, IndexStep, localVars
  <2> QED
    BY <1>0, <1>2, <2>1, <2>2, <2>3 DEF RegStep
<1> QED
  BY <1>1, <1>2

LEMMA OrderStep ==
    ASSUME RegInv, OwnAddresses, OrderInv, NeverDead, NEW t \in Tasks, RegStep(t)
    PROVE  OrderInv'
<1>0. active \in Int /\ (\A s \in Sessions : OrderOf(s) /\ CountedOf(s) \subseteq Subs) /\ active = Cardinality(Counted)
  BY DEF OrderInv, RegInv, RegTypeOK, CountedOf
<1>1. \A p \in Publishers : rpc'[p] \notin CleanupRPCs
  BY PublisherOrder
<1>2. ASSUME NEW s \in Sessions, t \notin Cleaners(s) PROVE OrderOf(s)' /\ CountedOf(s)' = CountedOf(s)
  BY <1>0, <1>2, OthersSame, OrderSame
<1>3. CASE t \in Publishers
  <2>1. \A s \in Sessions : t \notin Cleaners(s)
    BY <1>3, CleanerKinds DEF Cleaners
  <2>2. active' = active
    <3>1. ~CleanupStep(t) /\ t \notin Sessions /\ \A o \in Sessions : t # ReaperOf(o)
      BY <1>3, CleanerKinds DEF OrderInv, CleanupRPCs, CleanupStep, ClGet, ClRead, ClRemove, ClIndex, ClMetrics, RGoto
    <3> QED
      BY <3>1 DEF RegStep, Publish, Deliver, DeliverDone, NextDead, PublishDone, IndexStep, sharedVars
  <2>3. Counted' = Counted
    BY <1>2, <2>1 DEF Counted
  <2> QED
    BY <1>0, <1>1, <1>2, <2>1, <2>2, <2>3 DEF OrderInv
<1>4. ASSUME NEW s \in Sessions, t \in Cleaners(s) PROVE OrderInv'
  <2>1. /\ t \notin Publishers /\ (t \in Sessions => t = s)
        /\ \A o \in Sessions : t = ReaperOf(o) => o = s
        /\ \A o \in Sessions \ {s} : t \notin Cleaners(o)
    <3>1. \A o \in Sessions : o \in Cleaners(o) /\ ReaperOf(o) \in Cleaners(o)
      BY DEF Cleaners
    <3>2. \A o \in Sessions \ {s} : t \notin Cleaners(o)
      BY <1>4, CleanerKinds
    <3>3. t \in {s, ReaperOf(s)}
      BY <1>4 DEF Cleaners
    <3> QED
      BY <3>1, <3>2, <3>3, CleanerKinds
  <2>2. OrderOf(s)' /\ MetricOf(s)
    <3>1. CASE IndexStep(t)
      <4>1. SameFor(s) /\ active' = active
        <5>1. UNCHANGED filter_groups
          BY <3>1, CallKeeps DEF IndexStep, RegInv
        <5> QED
          BY <3>1, <5>1 DEF SameFor, IndexStep, sharedVars, localVars
      <4> QED
        BY <1>0, <4>1, OrderSame DEF MetricOf
    <3>2. CASE CleanupStep(t)
      BY <1>0, <1>4, <3>2, CleanupOrder
    <3>3. CASE \E o \in Sessions : t = ReaperOf(o) /\ ReaperDone(o)
      BY <1>0, <2>1, <3>3, EndOrder
    <3>4. CASE t = s /\ (Disconnect(t) \/ Unwind(t) \/ EndSession(t) \/ DropHandle(t))
      BY <1>0, <3>4, EndOrder
    <3>5. CASE t = s /\ (RmLock(t) \/ AddLock(t))
      BY <1>0, <3>5, EnterOrder
    <3>6. CASE t = s /\ (\/ Connect(t) \/ Req(t) \/ CloseSub(t) \/ RmGet(t) \/ AddGet(t) \/ RmDone(t) \/ AddDone(t)
                         \/ Drain(t) \/ OutboundFails(t) \/ OutboundStops(t))
      BY <1>0, <3>6, RequestOrder
    <3> QED
      BY <2>1, <3>1, <3>2, <3>3, <3>4, <3>5, <3>6 DEF RegStep
  <2>3. active' = Cardinality(Counted')
    BY <1>0, <1>2, <2>1, <2>2, MetricStep
  <2> QED
    BY <1>1, <1>2, <2>1, <2>2, <2>3 DEF OrderInv
<1> QED
  BY <1>3, <1>4, CleanerKinds

LEMMA OrderInit == RegInit => OrderInv
<1> SUFFICES ASSUME RegInit PROVE OrderInv
  OBVIOUS
<1>1. ASSUME NEW s \in Sessions PROVE OrderOf(s) /\ CountedOf(s) = {}
  <2>1. /\ \A t \in Cleaners(s) : t \in Tasks /\ rpc[t] = "off"
        /\ s \in Cleaners(s) /\ ReaperOf(s) \in Cleaners(s) /\ subs[s] = {} /\ ~Registered(s) /\ LiveOf(s) = {}
    <3>1. connections[AddrOf[s]] = None /\ s # None /\ \A u \in Subs : filter_groups[SubKey(s, u)] = None
      BY RegistryAssumption, SubKeyType DEF RegInit, Init, Tasks
    <3> QED
      BY <3>1, CleanerKinds DEF RegInit, Cleaners, Registered, LiveOf
  <2> QED
    BY <2>1 DEF OrderOf, CleanerOf, RegisteredIn, IndexedIn, PendingIn, CountedOf, CleanupRPCs, RequestRPCs, BeforeRemoval
<1>2. Counted = {}
  BY <1>1 DEF Counted
<1>3. active = Cardinality(Counted) /\ \A p \in Publishers : rpc[p] \notin CleanupRPCs
  BY <1>2, FS_EmptySet, TaskKinds DEF RegInit, CleanupRPCs
<1> QED
  BY <1>1, <1>3 DEF OrderInv

LEMMA OrderStutter == OrderInv /\ UNCHANGED regVars => OrderInv'
<1> SUFFICES ASSUME OrderInv, UNCHANGED regVars PROVE OrderInv'
  OBVIOUS
<1>1. UNCHANGED <<connections, subs, rpc, conn, target, rids, count, rsub, isNew, active>> /\ UNCHANGED filter_groups
  BY DEF regVars, vars, indexVars, sharedVars, localVars
<1>2. \A s \in Sessions : SameFor(s)
  BY <1>1 DEF SameFor
<1>3. \A s \in Sessions : OrderOf(s)' /\ CountedOf(s)' = CountedOf(s)
  BY <1>2, OrderSame DEF OrderInv
<1>4. Counted' = Counted
  BY <1>3 DEF Counted
<1> QED
  BY <1>1, <1>3, <1>4 DEF OrderInv

(* With every operation finished, a session counts what it is subscribed   *)
(* to if it is registered, and nothing otherwise, in metric and index.     *)
LEMMA RestingSession ==
    ASSUME RegInv, OrderInv, Quiescent, NEW s \in Sessions
    PROVE  /\ CountedOf(s) = IF Registered(s) THEN subs[s] ELSE {}
           /\ LiveOf(s) = IF Registered(s) THEN subs[s] ELSE {}
<1>1. \A t \in Cleaners(s) : rpc[t] # "cl_index"
  BY CleanerKinds DEF Quiescent, Resting, Cleaners
<1>2. rpc[s] \notin {"rm_wait", "add_wait"}
  BY CleanerKinds DEF Quiescent, Resting
<1>3. subs[s] \subseteq Subs /\ IndexedIn(s)
  BY DEF RegInv, RegTypeOK, OrderInv, OrderOf
<1>4. CountedOf(s) = IF Registered(s) THEN subs[s] ELSE {}
  BY <1>1, <1>2 DEF CountedOf
<1>5. LiveOf(s) = IF Registered(s) THEN subs[s] ELSE {}
  BY <1>1, <1>3 DEF IndexedIn
<1> QED
  BY <1>4, <1>5

LEMMA RestingMetric ==
    ASSUME RegInv, OwnAddresses, OrderInv, Quiescent
    PROVE  active = Cardinality(RegisteredKeys)
<1> DEFINE F == [x \in Counted |-> SubKey(x[1], x[2])]
<1>1. Counted = {y \in Sessions \X Subs : Registered(y[1]) /\ y[2] \in subs[y[1]]}
  <2>1. ASSUME NEW y \in Sessions \X Subs
        PROVE  y[2] \in CountedOf(y[1]) <=> Registered(y[1]) /\ y[2] \in subs[y[1]]
    <3>1. y[1] \in Sessions
      OBVIOUS
    <3> QED
      BY <3>1, RestingSession
  <2> QED
    BY <2>1 DEF Counted
<1>2. IsFiniteSet(Counted) /\ active = Cardinality(Counted)
  BY CountedFinite DEF Counted, OrderInv
<1>3. \A x, y \in Counted : F[x] = F[y] => x = y
  <2> SUFFICES ASSUME NEW x \in Counted, NEW y \in Counted, SubKey(x[1], x[2]) = SubKey(y[1], y[2])
               PROVE  x = y
    OBVIOUS
  <2>1. /\ x[1] \in Sessions /\ x[2] \in Subs /\ x = <<x[1], x[2]>>
        /\ y[1] \in Sessions /\ y[2] \in Subs /\ y = <<y[1], y[2]>>
    BY DEF Counted
  <2>2. AddrOf[x[1]] = AddrOf[y[1]] /\ x[2] = y[2]
    BY <2>1, SubKeyType
  <2> QED
    BY <2>1, <2>2 DEF OwnAddresses
<1>4. RegisteredKeys = {F[x] : x \in Counted}
  BY <1>1 DEF RegisteredKeys
<1>5. F \in Bijection(Counted, RegisteredKeys)
  <2>1. F \in [Counted -> RegisteredKeys] /\ \A k \in RegisteredKeys : \E x \in Counted : F[x] = k
    BY <1>4
  <2> QED
    BY <1>3, <2>1, Fun_IsBij
<1>6. ExistsBijection(Counted, RegisteredKeys)
  BY <1>5 DEF ExistsBijection
<1> QED
  BY <1>2, <1>6, FS_Bijection

LEMMA RestingIndex ==
    ASSUME RegInv, LifeInv, OrderInv, Quiescent
    PROVE  {k \in Keys : filter_groups[k] # None} = RegisteredKeys
<1>1. ASSUME NEW s \in Sessions, NEW u \in Subs
      PROVE  filter_groups[SubKey(s, u)] # None <=> Registered(s) /\ u \in subs[s]
  BY RestingSession DEF LiveOf
<1>2. ASSUME NEW k \in Keys, filter_groups[k] # None PROVE k \in RegisteredKeys
  <2>1. PICK s \in Sessions, u \in Subs : k = SubKey(s, u)
    BY <1>2 DEF LifeInv
  <2>2. <<s, u>> \in {y \in Sessions \X Subs : Registered(y[1]) /\ y[2] \in subs[y[1]]}
    BY <1>1, <1>2, <2>1
  <2> QED
    BY <2>1, <2>2 DEF RegisteredKeys
<1>3. ASSUME NEW k \in RegisteredKeys PROVE k \in Keys /\ filter_groups[k] # None
  <2>1. PICK x \in Sessions \X Subs : k = SubKey(x[1], x[2]) /\ Registered(x[1]) /\ x[2] \in subs[x[1]]
    BY DEF RegisteredKeys
  <2>2. x[1] \in Sessions /\ x[2] \in Subs
    OBVIOUS
  <2> QED
    BY <1>1, <2>1, <2>2, SubKeyType
<1> QED
  BY <1>2, <1>3

(***************************************************************************)
(* Where every session has an address of its own, and for as long as no    *)
(* publisher finds a channel full or closed, what each session's tasks     *)
(* have done agrees in connections, in the index and in the metric.        *)
(***************************************************************************)
THEOREM OrderInvariance ==
    ASSUME OwnAddresses
    PROVE  RegSpec /\ []NeverDead => []OrderInv
<1>1. RegInv /\ OrderInv /\ NeverDead /\ [RegNext]_regVars => OrderInv'
  <2> SUFFICES ASSUME RegInv, OrderInv, NeverDead, [RegNext]_regVars PROVE OrderInv'
    OBVIOUS
  <2>1. ASSUME NEW t \in Tasks, RegStep(t) PROVE OrderInv'
    BY <2>1, OrderStep
  <2> QED
    BY <2>1, OrderStutter, RegSteps
<1> QED
  BY <1>1, OrderInit, RegistryInvariance, PTL DEF RegSpec

(***************************************************************************)
(* Then the active-subscriptions metric is exact whenever no operation is  *)
(* in progress, for any number of sessions, requests and publishers.       *)
(***************************************************************************)
THEOREM OrderlyMetric ==
    ASSUME OwnAddresses
    PROVE  RegSpec /\ []NeverDead => []MetricExact
<1>1. RegInv /\ OrderInv => MetricExact
  BY RestingMetric DEF MetricExact
<1> QED
  BY <1>1, OrderInvariance, RegistryInvariance, PTL

(***************************************************************************)
(* And the indexes hold exactly the subscriptions of the registered        *)
(* connections.                                                            *)
(***************************************************************************)
THEOREM OrderlyIndex ==
    ASSUME OwnAddresses
    PROVE  RegSpec /\ []NeverDead => []IndexMirrorsRegistry
<1>1. RegInv /\ LossInv /\ OrderInv => IndexMirrorsRegistry
  BY RestingIndex DEF IndexMirrorsRegistry, LossInv
<1> QED
  BY <1>1, OrderInvariance, LossInvariance, PTL
=============================================================================
