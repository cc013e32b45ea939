-------------------------- MODULE EventStoreProofs --------------------------
(***************************************************************************)
(* Theorems about EventStore: its types, what an OK and the buffer's queue *)
(* promise, and that every step is one of Publication or leaves it alone;  *)
(* and, at the end, about the tool that repairs the database's files.      *)
(***************************************************************************)
EXTENDS EventStore, Integrity, SequenceFacts, FiniteSetTheorems

(* A connection task that is at work on a command has one, and distributes *)
(* only events that came signed.                                           *)
TaskAtWork(t) ==
    /\ task[t].pc \in {"signing", "saving", "distributing"} => task[t].todo # <<>>
    /\ task[t].pc = "distributing" => Command(t).op = "signed"

(* The buffer's task is at work on an event exactly between the turns of   *)
(* its loop; outside of a flush nothing is left of one; the event it       *)
(* distributes is one Publication knows of, and stands in the database.    *)
FlushAtWork ==
    /\ flush.pc \in {"select", "flush", "done"} <=> flush.event = None
    /\ flush.pc \in {"select", "done"} => flush.todo = {}
    /\ flush.pc = "distributing" => Stands(flush.event)

(* Only replaceable events come to the buffer. *)
Buffered == Range(queue) \cup buffer \cup flush.todo \cup ({flush.event} \ {None})
BufferedReplaceable == \A e \in Buffered : e.replaceable

(* The queue holds the last of the events it has taken. *)
QueueIsSuffix ==
    /\ Len(queue) <= Len(accepted)
    /\ \A k \in 1..Len(queue) : accepted[Len(accepted) - Len(queue) + k] = queue[k]

(* Who has saved an event and still has to distribute it. *)
Owing(e) ==
    {r \in Requesters :
        IF r = Buffer THEN flush.pc = "distributing" /\ flush.event = e
        ELSE task[r].pc = "distributing" /\ Command(r).event = e}

(* Every distribution, also one that is due, has a save of its own. *)
Paid(e) == announces[e] + Cardinality(Owing(e)) <= saves[e]

(***************************************************************************)
(* The inductive invariant.  NothingLost says nothing of the order in the  *)
(* queue, from which it follows that an event in the buffer is replaced by *)
(* a later one; nor of the event that is being distributed, which is no    *)
(* longer under way afterwards.                                            *)
(***************************************************************************)
StoreInv ==
    /\ StoreTypeOK
    /\ \A t \in Tasks : TaskAtWork(t)
    /\ FlushAtWork
    /\ BufferedReplaceable
    /\ QueueIsSuffix
    /\ OkMeansStored
    /\ NothingLost
    /\ \A e \in Events : Paid(e)

-----------------------------------------------------------------------------
(* The database. *)

(* Of three versions the winner over the winner wins. *)
LEMMA BeatsTransitive ==
    ASSUME NEW d \in Events, NEW e \in Events, NEW f \in Events, Beats(d, e), Beats(e, f)
    PROVE  Beats(d, f)
  BY StoreAssumption DEF Beats

LEMMA StoredType ==
    ASSUME NEW D \in SUBSET Events, NEW e \in Events
    PROVE  Stored(D, e) \in SUBSET Events
  BY DEF Stored

(* A save leaves everything standing, and what was saved stands. *)
LEMMA SaveStands ==
    ASSUME StoreTypeOK, NEW x \in Events, db' = Stored(db, x), deleted' = deleted
    PROVE  Stands(x)' /\ \A e \in Events : Stands(e) => Stands(e)'
<1>0. db \subseteq Events /\ deleted \subseteq Events
  BY DEF StoreTypeOK
<1>1. CASE \E f \in db : Beats(f, x)
  BY <1>1 DEF Stored, Stands
<1>2. CASE ~ \E f \in db : Beats(f, x)
  <2>1. db' = {f \in db : ~Beats(x, f)} \cup {x}
    BY <1>2 DEF Stored
  <2>2. ASSUME NEW e \in Events, Stands(e) PROVE Stands(e)'
    <3>1. PICK f \in db \cup deleted : f = e \/ Beats(f, e)
      BY <2>2 DEF Stands
    <3>2. CASE f \in db' \cup deleted'
      BY <3>1, <3>2 DEF Stands
    <3>3. CASE f \notin db' \cup deleted'
      <4>1. Beats(x, f)
        BY <2>1, <3>3
      <4>2. Beats(x, e)
        BY <1>0, <3>1, <4>1, BeatsTransitive
      <4> QED
        BY <2>1, <4>2 DEF Stands
    <3> QED
      BY <3>2, <3>3
  <2> QED
    BY <2>1, <2>2 DEF Stands
<1> QED
  BY <1>1, <1>2

(* So does a deletion, which the history keeps. *)
LEMMA DeleteStands ==
    ASSUME NEW x, delete(x)
    PROVE  \A e \in Events : Stands(e) => Stands(e)'
<1>1. db \cup deleted \subseteq db' \cup deleted'
  BY DEF delete
<1> QED
  BY <1>1 DEF Stands

(* The command a task is at work on. *)
LEMMA CommandType ==
    ASSUME StoreTypeOK, NEW t \in Tasks, task[t].todo # <<>>
    PROVE  /\ Command(t) \in Commands /\ Command(t).event \in Events
           /\ Command(t).op \in {"signed", "unsigned", "delete"}
           /\ Tail(task[t].todo) \in Seq(Commands)
<1>1. task[t].todo \in Seq(Commands)
  BY DEF StoreTypeOK
<1>2. Command(t) \in Commands /\ Tail(task[t].todo) \in Seq(Commands)
  BY <1>1 DEF Command
<1> QED
  BY <1>2 DEF Commands

(* Every step is a save, a deletion or leaves the database alone. *)
LEMMA DatabaseStep ==
    ASSUME StoreTypeOK, \A t \in Tasks : TaskAtWork(t), FlushAtWork, [Next]_storeVars
    PROVE  \/ UNCHANGED <<db, deleted, saves>>
           \/ \E x \in Events : save_event(x) /\ deleted' = deleted
           \/ \E x \in Events : delete(x) /\ saves' = saves
<1>1. CASE UNCHANGED storeVars
  BY <1>1 DEF storeVars
<1>2. CASE CollectBatch \/ SignBatch \/ Cancel
  BY <1>2 DEF CollectBatch, SignBatch, Cancel, history
<1>3. CASE BufferStep
  <2>1. CASE SaveFlushed
    <3>1. flush.event \in Events
      BY <2>1 DEF SaveFlushed, FlushAtWork, StoreTypeOK
    <3> QED
      BY <2>1, <3>1 DEF SaveFlushed
  <2>2. CASE ~SaveFlushed
    BY <1>3, <2>2 DEF BufferStep, Insert, TimerElapses, StartFlush, SignNext, SignDone,
         DistributeFlushed, EndFlush, history
  <2> QED
    BY <2>1, <2>2
<1>4. ASSUME NEW t \in Tasks, HandleEvent(t) \/ TaskStep(t)
      PROVE  \/ UNCHANGED <<db, deleted, saves>>
             \/ \E x \in Events : save_event(x) /\ deleted' = deleted
             \/ \E x \in Events : delete(x) /\ saves' = saves
  <2>1. CASE Save(t)
    <3>1. Command(t).event \in Events
      BY <2>1, CommandType DEF Save, TaskAtWork
    <3> QED
      BY <2>1, <3>1 DEF Save
  <2>2. CASE Delete(t)
    <3>1. Command(t).event \in Events
      BY <2>2, CommandType DEF Delete, NextCommand
    <3> QED
      BY <2>2, <3>1 DEF Delete
  <2>3. CASE ~Save(t) /\ ~Delete(t)
    BY <1>4, <2>3 DEF HandleEvent, TaskStep, ReturnOk, QueueReplaceable, RequestSignature,
         ReceiveSignature, SaveSigned, Distribute, history
  <2> QED
    BY <2>1, <2>2, <2>3
<1> QED
  BY <1>1, <1>2, <1>3, <1>4 DEF Next

LEMMA StandsStep ==
    ASSUME StoreTypeOK, \A t \in Tasks : TaskAtWork(t), FlushAtWork, [Next]_storeVars
    PROVE  \A e \in Events : Stands(e) => Stands(e)'
<1>1. CASE UNCHANGED <<db, deleted, saves>>
  BY <1>1 DEF Stands
<1>2. CASE \E x \in Events : save_event(x) /\ deleted' = deleted
  BY <1>2, SaveStands DEF save_event
<1>3. CASE \E x \in Events : delete(x) /\ saves' = saves
  BY <1>3, DeleteStands
<1> QED
  BY <1>1, <1>2, <1>3, DatabaseStep

-----------------------------------------------------------------------------
(* Connection tasks. *)

(* InOrder changes the order of a plan's commands and nothing else. *)
LEMMA InOrderType ==
    ASSUME NEW plan \in Seq(Commands)
    PROVE  InOrder(plan) \in Seq(Commands)
<1>1. CASE Signed(plan) = {}
  BY <1>1 DEF InOrder
<1>2. CASE Signed(plan) # {}
  <2> DEFINE i == Min(Signed(plan))
             swapped == [plan EXCEPT ![i] = Last(plan)]
  <2>1. Len(plan) \in Nat /\ DOMAIN plan = 1..Len(plan)
    OBVIOUS
  <2>2. Signed(plan) \in SUBSET Nat /\ Signed(plan) \subseteq 1..Len(plan)
    BY <2>1 DEF Signed
  <2>3. i \in Signed(plan)
    BY <1>2, <2>2, LeastNat DEF Min
  <2>4. i \in 1..Len(plan) /\ plan[i] \in Commands
    BY <2>2, <2>3
  <2>5. Last(plan) \in Commands
    BY <2>1, <2>4 DEF Last
  <2> HIDE DEF i
  <2>6. swapped \in [1..Len(plan) -> Commands]
    BY <2>1, <2>4, <2>5
  <2>7. swapped \in Seq(Commands) /\ Len(swapped) = Len(plan)
    BY <2>1, <2>6
  <2> HIDE DEF swapped
  <2>8. Front(swapped) \in Seq(Commands)
    BY <2>1, <2>4, <2>7 DEF Front
  <2>9. <<plan[i]>> \in Seq(Commands)
    BY <2>4
  <2>10. InOrder(plan) = <<plan[i]>> \o Front(swapped)
    BY <1>2 DEF InOrder, i, swapped
  <2> QED
    BY <2>8, <2>9, <2>10
<1> QED
  BY <1>1, <1>2

TaskStates == [pc : {"idle", "next", "signing", "saving", "distributing"}, todo : Seq(Commands)]

LEMMA GotoStep ==
    ASSUME StoreTypeOK, NEW t \in Tasks,
           NEW to \in {"idle", "next", "signing", "saving", "distributing"}, Goto(t, to)
    PROVE  /\ task' \in [Tasks -> TaskStates] /\ task'[t].pc = to /\ task'[t].todo = task[t].todo
           /\ \A d \in Tasks \ {t} : task'[d] = task[d]
  BY DEF StoreTypeOK, TaskStates, Goto

LEMMA DoneStep ==
    ASSUME StoreTypeOK, NEW t \in Tasks, task[t].todo # <<>>, Done(t)
    PROVE  /\ task' \in [Tasks -> TaskStates] /\ task'[t].pc = "next"
           /\ \A d \in Tasks \ {t} : task'[d] = task[d]
<1>1. Tail(task[t].todo) \in Seq(Commands)
  BY CommandType
<1> QED
  BY <1>1 DEF StoreTypeOK, TaskStates, Done

LEMMA AbortStep ==
    ASSUME StoreTypeOK, NEW t \in Tasks, Abort(t)
    PROVE  /\ task' \in [Tasks -> TaskStates] /\ task'[t].pc = "idle"
           /\ \A d \in Tasks \ {t} : task'[d] = task[d]
<1>1. <<>> \in Seq(Commands)
  OBVIOUS
<1> QED
  BY <1>1 DEF StoreTypeOK, TaskStates, Abort

(* What a step of a task leaves of the tasks. *)
TaskTypes == task' \in [Tasks -> TaskStates] /\ \A t \in Tasks : TaskAtWork(t)'

LEMMA TaskFrame ==
    ASSUME NEW t \in Tasks, \A d \in Tasks : TaskAtWork(d), task' \in [Tasks -> TaskStates],
           \A d \in Tasks \ {t} : task'[d] = task[d], TaskAtWork(t)'
    PROVE  TaskTypes
<1>1. ASSUME NEW d \in Tasks \ {t} PROVE TaskAtWork(d)'
  BY <1>1 DEF TaskAtWork, Command
<1> QED
  BY <1>1 DEF TaskTypes

LEMMA TasksStep ==
    ASSUME StoreTypeOK, \A t \in Tasks : TaskAtWork(t), [Next]_storeVars
    PROVE  TaskTypes
<1>1. ASSUME task' = task PROVE TaskTypes
  BY <1>1 DEF TaskTypes, TaskAtWork, Command, StoreTypeOK, TaskStates
<1>2. ASSUME NEW t \in Tasks, HandleEvent(t) \/ TaskStep(t) PROVE TaskTypes
  <2>1. CASE HandleEvent(t)
    <3>1. PICK plan \in Plans : task' = [task EXCEPT ![t] = [pc |-> "next", todo |-> InOrder(plan)]]
      BY <2>1 DEF HandleEvent
    <3>2. InOrder(plan) \in Seq(Commands)
      BY StoreAssumption, InOrderType
    <3>3. /\ task' \in [Tasks -> TaskStates] /\ task'[t].pc = "next"
          /\ \A d \in Tasks \ {t} : task'[d] = task[d]
      BY <3>1, <3>2 DEF StoreTypeOK, TaskStates
    <3>4. TaskAtWork(t)'
      BY <3>3 DEF TaskAtWork
    <3> QED
      BY <3>3, <3>4, TaskFrame
  <2>2. ASSUME task[t].todo # <<>>, Done(t) PROVE TaskTypes
    <3>1. TaskAtWork(t)'
      BY <2>2, DoneStep DEF TaskAtWork
    <3> QED
      BY <2>2, <3>1, DoneStep, TaskFrame
  <2>3. ASSUME Abort(t) PROVE TaskTypes
    <3>1. TaskAtWork(t)'
      BY <2>3, AbortStep DEF TaskAtWork
    <3> QED
      BY <2>3, <3>1, AbortStep, TaskFrame
  <2>4. ASSUME NEW to \in {"signing", "saving"}, task[t].todo # <<>>, Goto(t, to) PROVE TaskTypes
    <3>1. TaskAtWork(t)'
      BY <2>4, GotoStep DEF TaskAtWork
    <3> QED
      BY <2>4, <3>1, GotoStep, TaskFrame
  <2>5. CASE ReturnOk(t)
    <3>1. Goto(t, "idle")
      BY <2>5 DEF ReturnOk
    <3>2. TaskAtWork(t)'
      BY <3>1, GotoStep DEF TaskAtWork
    <3> QED
      BY <3>1, <3>2, GotoStep, TaskFrame
  <2>6. CASE Save(t)
    <3>1. task[t].todo # <<>>
      BY <2>6 DEF Save, TaskAtWork
    <3>2. CASE Goto(t, "distributing") /\ Command(t).op = "signed"
      <4>1. task'[t].todo = task[t].todo /\ task'[t].pc = "distributing"
        BY <3>2, GotoStep
      <4>2. TaskAtWork(t)'
        BY <3>1, <3>2, <4>1 DEF TaskAtWork, Command
      <4> QED
        BY <3>2, <4>2, GotoStep, TaskFrame
    <3> QED
      BY <2>2, <2>3, <2>6, <3>1, <3>2 DEF Save
  <2>7. CASE QueueReplaceable(t) \/ Delete(t)
    BY <2>2, <2>3, <2>7 DEF QueueReplaceable, Delete, NextCommand
  <2>8. CASE Distribute(t)
    BY <2>2, <2>8 DEF Distribute, TaskAtWork
  <2>9. CASE RequestSignature(t) \/ SaveSigned(t)
    BY <2>4, <2>9 DEF RequestSignature, SaveSigned, NextCommand
  <2>10. CASE ReceiveSignature(t)
    BY <2>3, <2>4, <2>10 DEF ReceiveSignature, TaskAtWork
  <2> QED
    BY <1>2, <2>1, <2>5, <2>6, <2>7, <2>8, <2>9, <2>10 DEF TaskStep
<1>3. CASE ~ \E t \in Tasks : HandleEvent(t) \/ TaskStep(t)
  <2>1. task' = task
    BY <1>3 DEF Next, storeVars, CollectBatch, SignBatch, Cancel, BufferStep, Insert, TimerElapses,
         StartFlush, SignNext, SignDone, SaveFlushed, DistributeFlushed, EndFlush
  <2> QED
    BY <1>1, <2>1
<1> QED
  BY <1>2, <1>3

-----------------------------------------------------------------------------
(* The signing processor. *)
SignTypes ==
    /\ signQueue \in Seq(Requesters) /\ Len(signQueue) <= SignCapacity
    /\ batch \in Seq(Requesters)
    /\ answer \in [Requesters -> {"none", "signed", "failed"}]

LEMMA SignStep ==
    ASSUME StoreTypeOK, [Next]_storeVars
    PROVE  SignTypes'
<1>0. SignTypes
  BY DEF SignTypes, StoreTypeOK
<1>1. ASSUME UNCHANGED signVars PROVE SignTypes'
  BY <1>0, <1>1 DEF SignTypes, signVars
<1>2. ASSUME NEW r \in Requesters, sign_store_command(r) PROVE SignTypes'
  <2>1. Len(Append(signQueue, r)) = Len(signQueue) + 1 /\ Append(signQueue, r) \in Seq(Requesters)
        /\ Len(signQueue) \in Nat
    BY <1>0 DEF SignTypes
  <2>2. Len(signQueue) + 1 <= SignCapacity
    BY <1>2, <2>1, StoreAssumption DEF sign_store_command
  <2> QED
    BY <1>0, <1>2, <2>1, <2>2 DEF SignTypes, sign_store_command
<1>3. ASSUME NEW r \in Requesters, NEW what, TakeAnswer(r, what) PROVE SignTypes'
  BY <1>0, <1>3 DEF SignTypes, TakeAnswer
<1>4. CASE CollectBatch
  <2>1. <<>> \in Seq(Requesters) /\ Len(<<>>) = 0 /\ 0 <= SignCapacity
    BY StoreAssumption
  <2> QED
    BY <1>0, <1>4, <2>1 DEF SignTypes, CollectBatch
<1>5. CASE SignBatch
  <2>1. <<>> \in Seq(Requesters)
    OBVIOUS
  <2>2. answer' \in [Requesters -> {"none", "signed", "failed"}]
    BY <1>0, <1>5 DEF SignTypes, SignBatch
  <2> QED
    BY <1>0, <1>5, <2>1, <2>2 DEF SignTypes, SignBatch
<1>6. CASE SignNext
  BY <1>2, <1>6 DEF SignNext, Requesters
<1>7. CASE SignDone
  BY <1>3, <1>7 DEF SignDone, Requesters
<1>8. ASSUME NEW t \in Tasks, RequestSignature(t) PROVE SignTypes'
  BY <1>2, <1>8 DEF RequestSignature, Requesters
<1>9. ASSUME NEW t \in Tasks, ReceiveSignature(t) PROVE SignTypes'
  BY <1>3, <1>9 DEF ReceiveSignature, Requesters
<1>10. CASE /\ ~CollectBatch /\ ~SignBatch /\ ~SignNext /\ ~SignDone
            /\ \A t \in Tasks : ~RequestSignature(t) /\ ~ReceiveSignature(t)
  <2>1. UNCHANGED signVars
    BY <1>10 DEF Next, storeVars, signVars, Cancel, BufferStep, Insert, TimerElapses,
         StartFlush, SaveFlushed, DistributeFlushed, EndFlush, HandleEvent, TaskStep, ReturnOk,
         QueueReplaceable, SaveSigned, Save, Distribute, Delete
  <2> QED
    BY <1>1, <2>1
<1> QED
  BY <1>4, <1>5, <1>6, <1>7, <1>8, <1>9, <1>10

-----------------------------------------------------------------------------
(* The buffer, its queue and its task. *)
FlushStates ==
    [pc : {"select", "flush", "signing", "saving", "distributing", "done"},
     ripe : BOOLEAN, final : BOOLEAN, todo : SUBSET Events, event : Events \cup {None}]

BufferTypes ==
    /\ queue \in Seq(Events) /\ Len(queue) <= QueueCapacity
    /\ accepted \in Seq(Events)
    /\ buffer \subseteq Events /\ excused \subseteq Events
    /\ flush \in FlushStates

BufferGood == BufferTypes /\ FlushAtWork /\ BufferedReplaceable /\ QueueIsSuffix

(* Every event the queue has taken is accounted for. *)
UnderWay == Range(queue) \cup buffer \cup flush.todo \cup {flush.event}
Superseded(i) == \E j \in i + 1 .. Len(accepted) : accepted[j].key = accepted[i].key

LEMMA LossFrame ==
    ASSUME NothingLost, accepted \in Seq(Events), accepted' = accepted, excused \subseteq excused',
           \A e \in Events : Stands(e) => Stands(e)',
           \A i \in DOMAIN accepted : accepted[i] \in UnderWay =>
              \/ accepted[i] \in UnderWay' \cup excused' \/ Stands(accepted[i])' \/ Superseded(i)
    PROVE  NothingLost'
<1> SUFFICES ASSUME NEW i \in DOMAIN accepted
             PROVE  \/ accepted[i] \in UnderWay' \cup excused'
                    \/ Stands(accepted[i])' \/ Superseded(i)
  BY DEF NothingLost, UnderWay, Superseded
<1>1. accepted[i] \in Events
  OBVIOUS
<1>2. accepted[i] \in UnderWay \cup excused \/ Stands(accepted[i]) \/ Superseded(i)
  BY DEF NothingLost, UnderWay, Superseded
<1> QED
  BY <1>1, <1>2

(* A queue from which the first is taken is still the end of accepted. *)
LEMMA SuffixTail ==
    ASSUME BufferTypes, QueueIsSuffix, queue # <<>>, queue' = Tail(queue), accepted' = accepted
    PROVE  /\ QueueIsSuffix' /\ queue' \in Seq(Events) /\ Len(queue') <= QueueCapacity
           /\ \A i \in DOMAIN accepted :
                 accepted[i] \in Range(queue) \/ Superseded(i) \/ accepted[i].key # Head(queue).key
<1> DEFINE n == Len(accepted)
           l == Len(queue)
<1>1. /\ n \in Nat /\ l \in Nat \ {0} /\ l <= n /\ DOMAIN accepted = 1..n /\ DOMAIN queue = 1..l
      /\ Len(Tail(queue)) = l - 1 /\ Tail(queue) \in Seq(Events)
      /\ \A k \in 1..(l - 1) : Tail(queue)[k] = queue[k + 1]
      /\ Head(queue) = queue[1]
  BY DEF BufferTypes, QueueIsSuffix
<1>2. \A k \in 1..l : accepted[n - l + k] = queue[k]
  BY DEF QueueIsSuffix
<1>3. QueueIsSuffix'
  <2>1. ASSUME NEW k \in 1..(l - 1) PROVE accepted[n - (l - 1) + k] = Tail(queue)[k]
    <3>1. k + 1 \in 1..l /\ n - (l - 1) + k = n - l + (k + 1)
      BY <1>1
    <3> QED
      BY <1>1, <1>2, <3>1
  <2> QED
    BY <1>1, <2>1 DEF QueueIsSuffix
<1>4. queue' \in Seq(Events) /\ Len(queue') <= QueueCapacity
  BY <1>1, StoreAssumption DEF BufferTypes
<1>5. ASSUME NEW i \in 1..n, accepted[i] \notin Range(queue), accepted[i].key = Head(queue).key
      PROVE  Superseded(i)
  <2>1. accepted[n - l + 1] = Head(queue) /\ n - l + 1 \in 1..n
    <3>1. 1 \in 1..l /\ n - l + 1 \in 1..n
      BY <1>1
    <3> QED
      BY <1>1, <1>2, <3>1
  <2>2. CASE i < n - l + 1
    <3>1. n - l + 1 \in i + 1 .. n
      BY <1>1, <2>2
    <3> QED
      BY <1>5, <2>1, <3>1 DEF Superseded
  <2>3. CASE i >= n - l + 1
    <3>1. i - (n - l) \in 1..l /\ n - l + (i - (n - l)) = i
      BY <1>1, <2>3
    <3>2. accepted[i] = queue[i - (n - l)]
      BY <1>2, <3>1
    <3> QED
      BY <1>1, <1>5, <3>1, <3>2 DEF Range
  <2> QED
    BY <1>1, <2>2, <2>3
<1> QED
  BY <1>1, <1>3, <1>4, <1>5

LEMMA InsertStep ==
    ASSUME BufferGood, NothingLost, Insert, \A e \in Events : Stands(e) => Stands(e)'
    PROVE  BufferGood' /\ NothingLost'
<1> DEFINE e == Head(queue)
<1>0. /\ BufferTypes /\ FlushAtWork /\ BufferedReplaceable /\ QueueIsSuffix
      /\ queue # <<>> /\ queue' = Tail(queue) /\ flush.pc = "select"
      /\ buffer' = {f \in buffer : f.key # e.key} \cup {e}
      /\ flush' = [flush EXCEPT !.ripe = FALSE]
      /\ accepted' = accepted /\ excused' = excused
  BY DEF BufferGood, Insert, history
<1>1. e \in Events /\ Range(queue) = {e} \cup Range(Tail(queue))
  BY <1>0, RangeTail DEF BufferTypes
<1> HIDE DEF e
<1>2. /\ flush' \in FlushStates /\ flush'.pc = flush.pc /\ flush'.todo = flush.todo
      /\ flush'.event = flush.event
  BY <1>0 DEF BufferTypes, FlushStates
<1>3. BufferTypes'
  BY <1>0, <1>1, <1>2, SuffixTail DEF BufferTypes
<1>4. FlushAtWork'
  BY <1>0, <1>2 DEF FlushAtWork
<1>5. BufferedReplaceable'
  BY <1>0, <1>1, <1>2 DEF BufferedReplaceable, Buffered
<1>6. ASSUME NEW i \in DOMAIN accepted, accepted[i] \in UnderWay
      PROVE  accepted[i] \in UnderWay' \/ Superseded(i)
  <2>1. CASE accepted[i] \in Range(queue) \/ accepted[i].key # e.key
    BY <1>0, <1>1, <1>2, <1>6, <2>1 DEF UnderWay
  <2>2. CASE accepted[i] \notin Range(queue) /\ accepted[i].key = e.key
    BY <1>0, <2>2, SuffixTail DEF e
  <2> QED
    BY <2>1, <2>2
<1>7. NothingLost'
  BY <1>0, <1>6, LossFrame DEF BufferTypes
<1> QED
  BY <1>0, <1>3, <1>4, <1>5, <1>7, SuffixTail DEF BufferGood

LEMMA QueueStep ==
    ASSUME BufferGood, NothingLost, StoreTypeOK, NEW t \in Tasks, QueueReplaceable(t),
           \A e \in Events : Stands(e) => Stands(e)'
    PROVE  BufferGood' /\ NothingLost'
<1> DEFINE e == Command(t).event
<1>0. /\ BufferTypes /\ FlushAtWork /\ BufferedReplaceable /\ QueueIsSuffix
      /\ e \in Events /\ e.replaceable
      /\ UNCHANGED <<buffer, flush, excused>>
  BY CommandType DEF BufferGood, QueueReplaceable, NextCommand
<1>a. FlushAtWork'
  BY <1>0 DEF FlushAtWork, BufferTypes, FlushStates
<1>1. CASE UNCHANGED <<queue, accepted>>
  <2>1. BufferGood'
    BY <1>0, <1>a, <1>1 DEF BufferGood, BufferTypes, BufferedReplaceable, Buffered, QueueIsSuffix
  <2>2. UnderWay' = UnderWay
    BY <1>0, <1>1 DEF UnderWay
  <2>3. NothingLost'
    BY <1>0, <1>1, <2>2, LossFrame DEF BufferTypes
  <2> QED
    BY <2>1, <2>3
<1>2. CASE Len(queue) < QueueCapacity /\ queue' = Append(queue, e) /\ accepted' = Append(accepted, e)
  <2> HIDE DEF e
  <2> DEFINE n == Len(accepted)
             l == Len(queue)
  <2>1. /\ n \in Nat /\ l \in Nat /\ l <= n /\ DOMAIN accepted = 1..n /\ DOMAIN accepted' = 1..(n + 1)
        /\ accepted' \in Seq(Events) /\ queue' \in Seq(Events) /\ Len(accepted') = n + 1
        /\ Len(queue') = l + 1 /\ accepted'[n + 1] = e /\ queue'[l + 1] = e
        /\ \A k \in 1..n : accepted'[k] = accepted[k]
        /\ \A k \in 1..l : queue'[k] = queue[k]
    BY <1>0, <1>2 DEF BufferTypes, QueueIsSuffix
  <2>2. Range(queue') = Range(queue) \cup {e}
    BY <1>0, <1>2, RangeAppend DEF BufferTypes
  <2>3. BufferTypes'
    BY <1>0, <1>2, <2>1, StoreAssumption DEF BufferTypes
  <2>4. BufferedReplaceable'
    BY <1>0, <2>2 DEF BufferedReplaceable, Buffered
  <2>5. QueueIsSuffix'
    <3>1. ASSUME NEW k \in 1..(l + 1) PROVE accepted'[(n + 1) - (l + 1) + k] = queue'[k]
      <4>1. CASE k = l + 1
        BY <2>1, <4>1
      <4>2. CASE k # l + 1
        <5>1. k \in 1..l /\ (n + 1) - (l + 1) + k = n - l + k /\ n - l + k \in 1..n
          BY <2>1, <4>2
        <5> QED
          BY <1>0, <2>1, <5>1 DEF QueueIsSuffix
      <4> QED
        BY <4>1, <4>2
    <3> QED
      BY <2>1, <3>1 DEF QueueIsSuffix
  <2>6. ASSUME NEW i \in 1..(n + 1)
        PROVE  \/ accepted'[i] \in UnderWay' \cup excused' \/ Stands(accepted[i])' \/ Superseded(i)'
    <3>1. CASE i = n + 1
      BY <2>1, <2>2, <3>1 DEF UnderWay
    <3>2. CASE i # n + 1
      <4>1. i \in 1..n /\ accepted'[i] = accepted[i] /\ accepted[i] \in Events
        BY <1>0, <2>1, <3>2 DEF BufferTypes
      <4>2. accepted[i] \in UnderWay \cup excused \/ Stands(accepted[i]) \/ Superseded(i)
        BY <2>1, <4>1 DEF NothingLost, UnderWay, Superseded
      <4>3. CASE Superseded(i)
        <5>1. PICK j \in i + 1 .. n : accepted[j].key = accepted[i].key
          BY <4>3 DEF Superseded
        <5>2. j \in 1..n /\ j \in i + 1 .. n + 1
          BY <2>1, <4>1
        <5> QED
          BY <2>1, <4>1, <5>1, <5>2 DEF Superseded
      <4>4. CASE accepted[i] \in UnderWay \cup excused
        BY <1>0, <2>2, <4>1, <4>4 DEF UnderWay
      <4>5. CASE Stands(accepted[i])
        BY <4>1, <4>5 DEF Stands
      <4> QED
        BY <4>2, <4>3, <4>4, <4>5
    <3> QED
      BY <3>1, <3>2
  <2>7. NothingLost'
    <3> SUFFICES ASSUME NEW i \in DOMAIN accepted'
                 PROVE  \/ accepted'[i] \in UnderWay' \cup excused'
                        \/ Stands(accepted[i])' \/ Superseded(i)'
      BY DEF NothingLost, UnderWay, Superseded
    <3> QED
      BY <2>1, <2>6
  <2> QED
    BY <1>a, <2>3, <2>4, <2>5, <2>7 DEF BufferGood
<1> QED
  BY <1>1, <1>2 DEF QueueReplaceable

(* A step of the buffer's task that takes nothing from the queue. *)
LEMMA FlushFrame ==
    ASSUME BufferGood, NothingLost, \A e \in Events : Stands(e) => Stands(e)',
           queue' = queue, accepted' = accepted, excused \subseteq excused', excused' \subseteq Events,
           flush' \in FlushStates, FlushAtWork', buffer' \subseteq Events,
           buffer' \cup flush'.todo \cup ({flush'.event} \ {None}) \subseteq Buffered,
           \A e \in buffer \cup flush.todo \cup ({flush.event} \ {None}) :
              e \in buffer' \cup flush'.todo \cup {flush'.event} \cup excused' \/ Stands(e)'
    PROVE  BufferGood' /\ NothingLost'
<1>0. BufferTypes /\ BufferedReplaceable /\ QueueIsSuffix
  BY DEF BufferGood
<1>1. BufferTypes'
  BY <1>0 DEF BufferTypes
<1>2. BufferedReplaceable'
  BY <1>0 DEF BufferedReplaceable, Buffered
<1>3. QueueIsSuffix'
  BY <1>0 DEF QueueIsSuffix
<1>4. ASSUME NEW i \in DOMAIN accepted, accepted[i] \in UnderWay
      PROVE  accepted[i] \in UnderWay' \cup excused' \/ Stands(accepted[i])'
  <2>1. accepted[i] # None
    BY <1>0, StoreAssumption DEF BufferTypes
  <2>2. PICK e : e = accepted[i]
    OBVIOUS
  <2>3. e \in Range(queue) \/ e \in buffer \cup flush.todo \cup ({flush.event} \ {None})
    BY <1>4, <2>1, <2>2 DEF UnderWay
  <2>4. e \in UnderWay' \cup excused' \/ Stands(e)'
    BY <2>3 DEF UnderWay
  <2> QED
    BY <2>2, <2>4 DEF Stands
<1>5. NothingLost'
  BY <1>0, <1>4, LossFrame DEF BufferTypes
<1> QED
  BY <1>1, <1>2, <1>3, <1>5 DEF BufferGood

(* The fields of flush. *)
LEMMA FlushFields ==
    ASSUME BufferTypes
    PROVE  /\ flush.todo \subseteq Events /\ flush.event \in Events \cup {None}
           /\ flush = [pc |-> flush.pc, ripe |-> flush.ripe, final |-> flush.final,
                       todo |-> flush.todo, event |-> flush.event]
  BY DEF BufferTypes, FlushStates

LEMMA FlushStep ==
    ASSUME StoreTypeOK, BufferGood, NothingLost, \A e \in Events : Stands(e) => Stands(e)',
           StartFlush \/ TimerElapses \/ SignNext \/ SignDone \/ SaveFlushed \/ DistributeFlushed
    PROVE  BufferGood' /\ NothingLost'
<1>0. /\ BufferTypes /\ FlushAtWork /\ None \notin Events
      /\ buffer \subseteq Events /\ excused \subseteq Events /\ flush \in FlushStates
  BY StoreAssumption DEF BufferGood, BufferTypes
<1>a. /\ flush.todo \subseteq Events /\ flush.event \in Events \cup {None}
  BY <1>0, FlushFields
<1>1. CASE TimerElapses
  <2>1. /\ flush' \in FlushStates /\ flush'.pc = flush.pc /\ flush'.todo = flush.todo
        /\ flush'.event = flush.event /\ UNCHANGED <<queue, buffer, accepted, excused>>
    BY <1>0, <1>1 DEF TimerElapses, FlushStates, history
  <2>2. FlushAtWork'
    BY <1>0, <1>a, <2>1, <1>1 DEF FlushAtWork, TimerElapses
  <2> QED
    BY <1>0, <2>1, <2>2, FlushFrame DEF Buffered
<1>2. CASE StartFlush
  <2>1. PICK last \in BOOLEAN : flush' = [flush EXCEPT !.pc = "flush", !.ripe = FALSE,
                                                      !.final = last, !.todo = buffer]
    BY <1>2 DEF StartFlush
  <2>2. /\ flush.pc = "select" /\ flush.todo = {} /\ flush.event = None
        /\ buffer' = {} /\ UNCHANGED <<queue, accepted, excused>>
    BY <1>0, <1>2 DEF StartFlush, FlushAtWork, history
  <2>3. /\ flush' \in FlushStates /\ flush'.pc = "flush" /\ flush'.todo = buffer
        /\ flush'.event = None
    BY <1>0, <2>1, <2>2 DEF FlushStates
  <2>4. FlushAtWork'
    BY <2>3 DEF FlushAtWork
  <2> QED
    BY <1>0, <2>2, <2>3, <2>4, FlushFrame DEF Buffered
<1>3. CASE SignNext
  <2>1. PICK e \in flush.todo : flush' = [flush EXCEPT !.pc = "signing", !.event = e, !.todo = @ \ {e}]
    BY <1>3 DEF SignNext
  <2>2. flush.pc = "flush" /\ flush.event = None /\ e \in Events
        /\ UNCHANGED <<queue, buffer, accepted, excused>>
    BY <1>0, <1>a, <1>3, <2>1 DEF SignNext, FlushAtWork, history
  <2>3. /\ flush' \in FlushStates /\ flush'.pc = "signing" /\ flush'.todo = flush.todo \ {e}
        /\ flush'.event = e
    BY <1>0, <2>1, <2>2 DEF FlushStates
  <2>4. FlushAtWork'
    BY <1>0, <2>2, <2>3 DEF FlushAtWork
  <2> QED
    BY <1>0, <2>2, <2>3, <2>4, FlushFrame DEF Buffered
<1>4. ASSUME GiveUp, flush.pc \in {"signing", "saving"}, UNCHANGED <<queue, buffer, accepted>>
      PROVE  BufferGood' /\ NothingLost'
  <2>1. flush.event \in Events /\ excused' = excused \cup {flush.event}
    BY <1>0, <1>a, <1>4 DEF FlushAtWork, GiveUp
  <2>2. /\ flush' \in FlushStates /\ flush'.pc = "flush" /\ flush'.todo = flush.todo
        /\ flush'.event = None
    BY <1>0, <1>4 DEF GiveUp, FlushStates
  <2>3. FlushAtWork'
    BY <2>2 DEF FlushAtWork
  <2> QED
    BY <1>0, <1>4, <2>1, <2>2, <2>3, FlushFrame DEF Buffered
<1>5. ASSUME NEW to \in {"saving", "distributing"}, flush' = [flush EXCEPT !.pc = to],
             flush.pc \in {"signing", "saving"}, to = "distributing" => Stands(flush.event)',
             UNCHANGED <<queue, buffer, accepted, excused>>
      PROVE  BufferGood' /\ NothingLost'
  <2>1. flush.event \in Events
    BY <1>0, <1>a, <1>5 DEF FlushAtWork
  <2>2. /\ flush' \in FlushStates /\ flush'.pc = to /\ flush'.todo = flush.todo
        /\ flush'.event = flush.event
    BY <1>0, <1>5 DEF FlushStates
  <2>3. FlushAtWork'
    BY <1>0, <1>5, <2>1, <2>2 DEF FlushAtWork, Stands
  <2> QED
    BY <1>0, <1>5, <2>1, <2>2, <2>3, FlushFrame DEF Buffered
<1>6. CASE SignDone
  BY <1>4, <1>5, <1>6 DEF SignDone
<1>7. CASE SaveFlushed
  <2>1. CASE save_event(flush.event) /\ flush' = [flush EXCEPT !.pc = "distributing"]
    <3>1. flush.event \in Events /\ deleted' = deleted /\ db' = Stored(db, flush.event)
      BY <1>0, <1>a, <1>7, <2>1 DEF FlushAtWork, SaveFlushed, save_event
    <3>2. flush'.event = flush.event
      BY <1>0, <2>1 DEF FlushStates
    <3>3. Stands(flush.event)'
      <4>1. PICK x \in Events : x = flush.event
        BY <3>1
      <4>2. Stands(x)'
        BY <3>1, <4>1, SaveStands
      <4> QED
        BY <3>2, <4>1, <4>2 DEF Stands
    <3>4. excused' = excused
      <4>1. flush'.pc = "distributing"
        BY <1>0, <2>1 DEF FlushStates
      <4>2. ~GiveUp
        BY <1>0, <4>1 DEF GiveUp, FlushStates
      <4> QED
        BY <1>7, <4>2 DEF SaveFlushed
    <3> QED
      BY <1>5, <1>7, <2>1, <3>3, <3>4 DEF SaveFlushed
  <2> QED
    BY <1>4, <1>7, <2>1 DEF SaveFlushed
<1>8. CASE DistributeFlushed
  <2>1. flush.event \in Events /\ Stands(flush.event) /\ UNCHANGED <<queue, buffer, accepted, excused>>
    BY <1>0, <1>a, <1>8 DEF FlushAtWork, DistributeFlushed, history
  <2>2. /\ flush' \in FlushStates /\ flush'.pc = "flush" /\ flush'.todo = flush.todo
        /\ flush'.event = None
    BY <1>0, <1>8 DEF DistributeFlushed, FlushStates
  <2>3. FlushAtWork'
    BY <2>2 DEF FlushAtWork
  <2>4. ASSUME NEW e \in buffer \cup flush.todo \cup ({flush.event} \ {None})
        PROVE  e \in buffer' \cup flush'.todo \cup {flush'.event} \cup excused' \/ Stands(e)'
    <3>1. CASE e = flush.event
      <4>1. e \in Events /\ Stands(e)
        BY <2>1, <3>1
      <4> QED
        BY <4>1
    <3> QED
      BY <2>1, <2>2, <2>4, <3>1
  <2> QED
    BY <1>0, <2>1, <2>2, <2>3, <2>4, FlushFrame DEF Buffered
<1> QED
  BY <1>1, <1>2, <1>3, <1>6, <1>7, <1>8

LEMMA EndFlushStep ==
    ASSUME BufferGood, NothingLost, \A e \in Events : Stands(e) => Stands(e)', EndFlush
    PROVE  BufferGood' /\ NothingLost'
<1>0. /\ BufferTypes /\ FlushAtWork /\ BufferedReplaceable /\ QueueIsSuffix
      /\ buffer \subseteq Events /\ excused \subseteq Events /\ flush \in FlushStates
  BY DEF BufferGood, BufferTypes
<1>1. flush.pc = "flush" /\ flush.todo = {} /\ flush.event = None
      /\ UNCHANGED <<buffer, accepted>>
  BY <1>0 DEF EndFlush, FlushAtWork
<1>2. CASE flush.final
  <2>1. flush' = [flush EXCEPT !.pc = "done"] /\ queue' = <<>> /\ excused' = excused \cup Range(queue)
    BY <1>2 DEF EndFlush
  <2>2. /\ flush' \in FlushStates /\ flush'.pc = "done" /\ flush'.todo = {} /\ flush'.event = None
    BY <1>0, <1>1, <2>1 DEF FlushStates
  <2>3. FlushAtWork'
    BY <2>2 DEF FlushAtWork
  <2>4. queue' \in Seq(Events) /\ Len(queue') = 0 /\ Range(queue') = {} /\ Len(accepted) \in Nat
    BY <1>0, <2>1 DEF Range, BufferTypes
  <2>5. QueueIsSuffix'
    BY <1>1, <2>4 DEF QueueIsSuffix
  <2>6. Range(queue) \subseteq Events
    BY <1>0 DEF Range, BufferTypes
  <2>7. BufferTypes'
    BY <1>0, <1>1, <2>1, <2>2, <2>4, <2>6, StoreAssumption DEF BufferTypes
  <2>8. BufferedReplaceable'
    BY <1>0, <1>1, <2>2, <2>4 DEF BufferedReplaceable, Buffered
  <2>9. ASSUME NEW i \in DOMAIN accepted, accepted[i] \in UnderWay
        PROVE  accepted[i] \in UnderWay' \cup excused'
    BY <1>1, <2>1, <2>2, <2>9 DEF UnderWay
  <2>10. NothingLost'
    BY <1>0, <1>1, <2>1, <2>9, LossFrame DEF BufferTypes
  <2> QED
    BY <2>3, <2>5, <2>7, <2>8, <2>10 DEF BufferGood
<1>3. CASE ~flush.final
  <2>1. flush' = [flush EXCEPT !.pc = "select"] /\ queue' = queue /\ excused' = excused
    BY <1>3 DEF EndFlush
  <2>2. /\ flush' \in FlushStates /\ flush'.pc = "select" /\ flush'.todo = {} /\ flush'.event = None
    BY <1>0, <1>1, <2>1 DEF FlushStates
  <2>3. FlushAtWork'
    BY <2>2 DEF FlushAtWork
  <2> QED
    BY <1>0, <1>1, <2>1, <2>2, <2>3, FlushFrame DEF Buffered
<1> QED
  BY <1>2, <1>3

LEMMA BufferGoodStep ==
    ASSUME StoreTypeOK, BufferGood, NothingLost, \A t \in Tasks : TaskAtWork(t), [Next]_storeVars
    PROVE  BufferGood' /\ NothingLost'
<1>1. \A e \in Events : Stands(e) => Stands(e)'
  BY StandsStep DEF BufferGood
<1>2. CASE BufferStep
  BY <1>1, <1>2, InsertStep, FlushStep, EndFlushStep DEF BufferStep
<1>3. CASE \E t \in Tasks : QueueReplaceable(t)
  BY <1>1, <1>3, QueueStep
<1>4. CASE ~BufferStep /\ \A t \in Tasks : ~QueueReplaceable(t)
  <2>1. UNCHANGED <<queue, buffer, flush, accepted, excused>>
    BY <1>4 DEF Next, storeVars, bufVars, history, CollectBatch, SignBatch, Cancel, HandleEvent,
         TaskStep, ReturnOk, RequestSignature, ReceiveSignature, SaveSigned, Save, Distribute, Delete
  <2>2. FlushAtWork'
    BY <1>1, <2>1, StoreAssumption DEF BufferGood, FlushAtWork, Stands, BufferTypes, FlushStates
  <2> QED
    BY <1>1, <2>1, <2>2, FlushFrame DEF BufferGood, BufferTypes, Buffered
<1> QED
  BY <1>2, <1>3, <1>4

-----------------------------------------------------------------------------
(* Saves and distributions: what a step does to Publication's state. *)
Quiet ==
    /\ UNCHANGED <<saves, announces>>
    /\ \A e \in Events : Owing(e)' \subseteq Owing(e)

SavedBy(r, x) ==
    /\ saves' = [saves EXCEPT ![x] = @ + 1] /\ announces' = announces
    /\ \A e \in Events : Owing(e)' \subseteq IF e = x THEN Owing(e) \cup {r} ELSE Owing(e)

AnnouncedBy(r, x) ==
    /\ announces' = [announces EXCEPT ![x] = @ + 1] /\ saves' = saves
    /\ x \in Broadcast /\ r \in Owing(x)
    /\ \A e \in Events : Owing(e)' \subseteq IF e = x THEN Owing(e) \ {r} ELSE Owing(e)

PublicationStep ==
    \/ Quiet
    \/ \E r \in Requesters, x \in Events : SavedBy(r, x) \/ AnnouncedBy(r, x)

(* A task that does not come to distribute something owes nothing more. *)
LEMMA TaskOwing ==
    ASSUME NEW t \in Tasks, \A d \in Tasks \ {t} : task'[d] = task[d], flush' = flush
    PROVE  /\ task'[t].pc # "distributing" => \A e \in Events : Owing(e)' \subseteq Owing(e) \ {t}
           /\ \A e \in Events : Command(t)'.event # e => Owing(e)' \subseteq Owing(e)
           /\ \A e \in Events : Owing(e)' \subseteq Owing(e) \cup {t}
<1>1. Buffer # t
  BY StoreAssumption
<1>2. ASSUME NEW e \in Events, NEW r \in Owing(e)', r # t PROVE r \in Owing(e)
  BY <1>2 DEF Owing, Requesters, Command
<1>3. ASSUME NEW e \in Events, t \in Owing(e)'
      PROVE  task'[t].pc = "distributing" /\ Command(t)'.event = e
  BY <1>1, <1>3 DEF Owing
<1> QED
  BY <1>2, <1>3

LEMMA FlushOwing ==
    ASSUME task' = task
    PROVE  /\ flush'.pc # "distributing" => \A e \in Events : Owing(e)' \subseteq Owing(e) \ {Buffer}
           /\ \A e \in Events : flush'.event # e => Owing(e)' \subseteq Owing(e)
           /\ \A e \in Events : Owing(e)' \subseteq Owing(e) \cup {Buffer}
<1>1. ASSUME NEW e \in Events, NEW r \in Owing(e)', r # Buffer PROVE r \in Owing(e)
  BY <1>1 DEF Owing, Command
<1>2. ASSUME NEW e \in Events, Buffer \in Owing(e)'
      PROVE  flush'.pc = "distributing" /\ flush'.event = e
  BY <1>2 DEF Owing
<1> QED
  BY <1>1, <1>2

LEMMA TaskPublishes ==
    ASSUME StoreTypeOK, \A d \in Tasks : TaskAtWork(d), NEW t \in Tasks,
           HandleEvent(t) \/ TaskStep(t)
    PROVE  PublicationStep
<1>0. t \in Requesters /\ t # Buffer
  BY StoreAssumption DEF Requesters
<1>1. ASSUME \A d \in Tasks \ {t} : task'[d] = task[d], flush' = flush, task'[t].pc # "distributing",
             UNCHANGED <<saves, announces>>
      PROVE  PublicationStep
  BY <1>1, TaskOwing DEF PublicationStep, Quiet
<1>2. CASE HandleEvent(t)
  <2>1. PICK plan \in Plans : task' = [task EXCEPT ![t] = [pc |-> "next", todo |-> InOrder(plan)]]
    BY <1>2 DEF HandleEvent
  <2>2. task'[t].pc = "next" /\ \A d \in Tasks \ {t} : task'[d] = task[d]
    BY <2>1 DEF StoreTypeOK
  <2> QED
    BY <1>1, <1>2, <2>2 DEF HandleEvent, bufVars
<1>3. CASE ReturnOk(t) \/ RequestSignature(t) \/ SaveSigned(t)
  <2>1. PICK to \in {"idle", "signing", "saving"} : Goto(t, to)
    BY <1>3 DEF ReturnOk, RequestSignature, SaveSigned
  <2>2. UNCHANGED <<flush, saves, announces>>
    BY <1>3 DEF ReturnOk, RequestSignature, SaveSigned, bufVars
  <2> QED
    BY <1>1, <2>1, <2>2, GotoStep
<1>4. CASE ReceiveSignature(t)
  <2>1. UNCHANGED <<flush, saves, announces>>
    BY <1>4 DEF ReceiveSignature, bufVars
  <2>2. Goto(t, "saving") \/ Abort(t)
    BY <1>4 DEF ReceiveSignature
  <2> QED
    BY <1>1, <2>1, <2>2, GotoStep, AbortStep
<1>5. CASE QueueReplaceable(t) \/ Delete(t)
  <2>1. UNCHANGED <<flush, saves, announces>> /\ task[t].todo # <<>>
    BY <1>5 DEF QueueReplaceable, Delete, NextCommand, bufVars
  <2>2. Done(t) \/ Abort(t)
    BY <1>5 DEF QueueReplaceable, Delete
  <2> QED
    BY <1>1, <2>1, <2>2, DoneStep, AbortStep
<1>6. CASE Save(t)
  <2>1. /\ flush' = flush /\ announces' = announces /\ task[t].todo # <<>>
        /\ Command(t).event \in Events
    BY <1>6, CommandType DEF Save, TaskAtWork, bufVars
  <2>2. PICK x \in Events : x = Command(t).event
    BY <2>1
  <2>3. CASE Abort(t) /\ saves' = saves
    BY <1>1, <2>1, <2>3, AbortStep
  <2>4. CASE save_event(x) /\ Done(t)
    <3>1. \A e \in Events : Owing(e)' \subseteq Owing(e) \ {t}
      BY <2>1, <2>4, DoneStep, TaskOwing
    <3>2. SavedBy(t, x)
      BY <2>1, <2>4, <3>1 DEF SavedBy, save_event
    <3> QED
      BY <1>0, <3>2 DEF PublicationStep
  <2>5. CASE save_event(x) /\ Goto(t, "distributing")
    <3>1. Command(t)' = Command(t) /\ \A d \in Tasks \ {t} : task'[d] = task[d]
      BY <2>5, GotoStep DEF Command
    <3>2. \A e \in Events : Owing(e)' \subseteq IF e = x THEN Owing(e) \cup {t} ELSE Owing(e)
      BY <2>1, <2>2, <3>1, TaskOwing
    <3> QED
      BY <1>0, <2>1, <2>5, <3>2 DEF PublicationStep, SavedBy, save_event
  <2> QED
    BY <1>6, <2>2, <2>3, <2>4, <2>5 DEF Save
<1>7. CASE Distribute(t)
  <2>1. /\ flush' = flush /\ saves' = saves /\ task[t].todo # <<>> /\ task[t].pc = "distributing"
        /\ Command(t) \in Commands /\ Command(t).event \in Events /\ Command(t).op = "signed"
    BY <1>7, CommandType DEF Distribute, TaskAtWork, bufVars
  <2>2. PICK x \in Events : x = Command(t).event
    BY <2>1
  <2>3. x \in Broadcast
    BY <2>1, <2>2 DEF Commands, Broadcast
  <2>4. t \in Owing(x)
    BY <1>0, <2>1, <2>2 DEF Owing
  <2>5. \A e \in Events : Owing(e)' \subseteq Owing(e) \ {t}
    BY <1>7, <2>1, DoneStep, TaskOwing DEF Distribute
  <2>6. announces' = [announces EXCEPT ![x] = @ + 1]
    BY <1>7, <2>2 DEF Distribute, distribute_event
  <2> QED
    BY <1>0, <2>1, <2>3, <2>4, <2>5, <2>6 DEF PublicationStep, AnnouncedBy
<1> QED
  BY <1>2, <1>3, <1>4, <1>5, <1>6, <1>7 DEF TaskStep

LEMMA FlushPublishes ==
    ASSUME StoreTypeOK, BufferGood, BufferStep
    PROVE  PublicationStep
<1>0. Buffer \in Requesters /\ flush \in FlushStates /\ FlushAtWork /\ task' = task
  BY DEF Requesters, BufferGood, BufferTypes, BufferStep, Insert, TimerElapses, StartFlush,
         SignNext, SignDone, SaveFlushed, DistributeFlushed, EndFlush
<1>1. ASSUME flush'.pc # "distributing", UNCHANGED <<saves, announces>> PROVE PublicationStep
  BY <1>0, <1>1, FlushOwing DEF PublicationStep, Quiet
<1>2. CASE Insert \/ TimerElapses
  <2>1. flush'.pc = "select"
    BY <1>0, <1>2 DEF Insert, TimerElapses, FlushStates
  <2> QED
    BY <1>1, <1>2, <2>1 DEF Insert, TimerElapses
<1>3. CASE StartFlush
  <2>1. flush'.pc = "flush"
    BY <1>0, <1>3 DEF StartFlush, FlushStates
  <2> QED
    BY <1>1, <1>3, <2>1 DEF StartFlush
<1>4. CASE SignNext
  <2>1. flush'.pc = "signing"
    BY <1>0, <1>4 DEF SignNext, FlushStates
  <2> QED
    BY <1>1, <1>4, <2>1 DEF SignNext
<1>5. CASE SignDone
  <2>1. flush'.pc \in {"saving", "flush"}
    BY <1>0, <1>5 DEF SignDone, GiveUp, FlushStates
  <2> QED
    BY <1>1, <1>5, <2>1 DEF SignDone
<1>6. CASE EndFlush
  <2>1. flush'.pc \in {"done", "select"}
    BY <1>0, <1>6 DEF EndFlush, FlushStates
  <2> QED
    BY <1>1, <1>6, <2>1 DEF EndFlush
<1>7. CASE SaveFlushed
  <2>1. announces' = announces /\ flush.event \in Events
    BY <1>0, <1>7 DEF SaveFlushed, FlushAtWork, FlushStates
  <2>2. PICK x \in Events : x = flush.event
    BY <2>1
  <2>3. CASE GiveUp /\ saves' = saves
    <3>1. flush'.pc = "flush"
      BY <1>0, <2>3 DEF GiveUp, FlushStates
    <3> QED
      BY <1>1, <2>1, <2>3, <3>1
  <2>4. CASE save_event(x) /\ flush' = [flush EXCEPT !.pc = "distributing"]
    <3>1. flush'.event = x
      BY <1>0, <2>2, <2>4 DEF FlushStates
    <3>2. \A e \in Events : Owing(e)' \subseteq IF e = x THEN Owing(e) \cup {Buffer} ELSE Owing(e)
      BY <1>0, <3>1, FlushOwing
    <3> QED
      BY <1>0, <2>1, <2>4, <3>2 DEF PublicationStep, SavedBy, save_event
  <2> QED
    BY <1>7, <2>2, <2>3, <2>4 DEF SaveFlushed
<1>8. CASE DistributeFlushed
  <2>1. /\ saves' = saves /\ flush.event \in Events /\ flush.pc = "distributing"
        /\ flush.event.replaceable
    BY <1>0, <1>8, StoreAssumption
       DEF DistributeFlushed, FlushAtWork, FlushStates, BufferGood, BufferedReplaceable, Buffered
  <2>2. PICK x \in Events : x = flush.event
    BY <2>1
  <2>3. x \in Broadcast /\ Buffer \in Owing(x)
    BY <1>0, <2>1, <2>2 DEF Broadcast, Owing
  <2>4. flush'.pc = "flush"
    BY <1>0, <1>8 DEF DistributeFlushed, FlushStates
  <2>5. \A e \in Events : Owing(e)' \subseteq Owing(e) \ {Buffer}
    BY <1>0, <2>4, FlushOwing
  <2>6. announces' = [announces EXCEPT ![x] = @ + 1]
    BY <1>8, <2>2 DEF DistributeFlushed, distribute_event
  <2> QED
    BY <1>0, <2>1, <2>3, <2>5, <2>6 DEF PublicationStep, AnnouncedBy
<1> QED
  BY <1>2, <1>3, <1>4, <1>5, <1>6, <1>7, <1>8 DEF BufferStep

LEMMA Publishes ==
    ASSUME StoreTypeOK, BufferGood, \A d \in Tasks : TaskAtWork(d), [Next]_storeVars
    PROVE  PublicationStep
<1>1. CASE UNCHANGED storeVars \/ CollectBatch \/ SignBatch \/ Cancel
  <2>1. UNCHANGED <<task, flush, saves, announces>>
    BY <1>1 DEF storeVars, CollectBatch, SignBatch, Cancel, bufVars
  <2>2. \A e \in Events : Owing(e)' = Owing(e)
    BY <2>1 DEF Owing, Command
  <2> QED
    BY <2>1, <2>2 DEF PublicationStep, Quiet
<1> QED
  BY <1>1, TaskPublishes, FlushPublishes DEF Next

LEMMA OwingFinite ==
    ASSUME NEW e
    PROVE  /\ IsFiniteSet(Owing(e)) /\ Cardinality(Owing(e)) \in Nat
           /\ IsFiniteSet(Owing(e)') /\ Cardinality(Owing(e)') \in Nat
<1>1. IsFiniteSet(Requesters)
  BY StoreAssumption, FS_AddElement DEF Requesters
<1>2. Owing(e) \subseteq Requesters /\ Owing(e)' \subseteq Requesters
  BY DEF Owing
<1> QED
  BY <1>1, <1>2, FS_Subset, FS_CardinalityType

Counts ==
    saves \in [Events -> Nat] /\ announces \in [Events -> Nat]

LEMMA PaidStep ==
    ASSUME Counts, \A e \in Events : Paid(e), PublicationStep
    PROVE  Counts' /\ \A e \in Events : Paid(e)'
<1>0. \A e \in Events : /\ saves[e] \in Nat /\ announces[e] \in Nat
                        /\ Cardinality(Owing(e)) \in Nat /\ Cardinality(Owing(e)') \in Nat
                        /\ announces[e] + Cardinality(Owing(e)) <= saves[e]
  BY OwingFinite DEF Counts, Paid
<1>1. ASSUME NEW e \in Events, Owing(e)' \subseteq Owing(e)
      PROVE  Cardinality(Owing(e)') <= Cardinality(Owing(e))
  BY <1>1, OwingFinite, FS_Subset
<1>2. CASE Quiet
  <2>1. ASSUME NEW e \in Events PROVE Paid(e)'
    <3>1. Cardinality(Owing(e)') <= Cardinality(Owing(e)) /\ UNCHANGED <<saves, announces>>
      BY <1>1, <1>2 DEF Quiet
    <3> QED
      BY <1>0, <3>1 DEF Paid
  <2> QED
    BY <1>2, <2>1 DEF Quiet, Counts
<1>3. ASSUME NEW r \in Requesters, NEW x \in Events, SavedBy(r, x)
      PROVE  Counts' /\ \A e \in Events : Paid(e)'
  <2>1. saves' \in [Events -> Nat] /\ announces' = announces
    BY <1>0, <1>3 DEF SavedBy, Counts
  <2>2. saves'[x] = saves[x] + 1 /\ \A e \in Events \ {x} : saves'[e] = saves[e]
    BY <1>3 DEF SavedBy, Counts
  <2>3. Paid(x)'
    <3>1. Owing(x)' \subseteq Owing(x) \cup {r}
      BY <1>3 DEF SavedBy
    <3>2. IsFiniteSet(Owing(x) \cup {r}) /\ Cardinality(Owing(x) \cup {r}) <= Cardinality(Owing(x)) + 1
      <4>1. IsFiniteSet(Owing(x)) /\ Cardinality(Owing(x)) \in Nat
        BY OwingFinite
      <4>2. \A n \in Nat : n <= n + 1 /\ n + 1 <= n + 1
        OBVIOUS
      <4>3. /\ IsFiniteSet(Owing(x) \cup {r})
            /\ \/ Cardinality(Owing(x) \cup {r}) = Cardinality(Owing(x))
               \/ Cardinality(Owing(x) \cup {r}) = Cardinality(Owing(x)) + 1
        BY <4>1, FS_AddElement, Zenon
      <4> QED
        BY <4>1, <4>2, <4>3, Zenon
    <3>3. Cardinality(Owing(x)') <= Cardinality(Owing(x) \cup {r})
      BY <3>1, <3>2, FS_Subset
    <3>4. Cardinality(Owing(x) \cup {r}) \in Nat
      BY <3>2, FS_CardinalityType
    <3>5. Cardinality(Owing(x)') <= Cardinality(Owing(x)) + 1
      BY <1>0, <3>2, <3>3, <3>4
    <3> QED
      BY <1>0, <2>1, <2>2, <3>5 DEF Paid
  <2>4. ASSUME NEW e \in Events \ {x} PROVE Paid(e)'
    <3>1. Cardinality(Owing(e)') <= Cardinality(Owing(e))
      BY <1>1, <1>3 DEF SavedBy
    <3> QED
      BY <1>0, <2>1, <2>2, <3>1 DEF Paid
  <2> QED
    BY <2>1, <2>3, <2>4 DEF Counts
<1>4. ASSUME NEW r \in Requesters, NEW x \in Events, AnnouncedBy(r, x)
      PROVE  Counts' /\ \A e \in Events : Paid(e)'
  <2>1. announces' \in [Events -> Nat] /\ saves' = saves
    BY <1>0, <1>4 DEF AnnouncedBy, Counts
  <2>2. announces'[x] = announces[x] + 1 /\ \A e \in Events \ {x} : announces'[e] = announces[e]
    BY <1>4 DEF AnnouncedBy, Counts
  <2>3. Paid(x)'
    <3>1. Owing(x)' \subseteq Owing(x) \ {r} /\ r \in Owing(x)
      BY <1>4 DEF AnnouncedBy
    <3>2. IsFiniteSet(Owing(x) \ {r}) /\ Cardinality(Owing(x) \ {r}) = Cardinality(Owing(x)) - 1
      BY <3>1, OwingFinite, FS_RemoveElement
    <3>3. Cardinality(Owing(x)') <= Cardinality(Owing(x) \ {r})
      BY <3>1, <3>2, FS_Subset
    <3> QED
      BY <1>0, <2>1, <2>2, <3>2, <3>3 DEF Paid
  <2>4. ASSUME NEW e \in Events \ {x} PROVE Paid(e)'
    <3>1. Cardinality(Owing(e)') <= Cardinality(Owing(e))
      BY <1>1, <1>4 DEF AnnouncedBy
    <3> QED
      BY <1>0, <2>1, <2>2, <3>1 DEF Paid
  <2> QED
    BY <2>1, <2>3, <2>4 DEF Counts
<1> QED
  BY <1>2, <1>3, <1>4 DEF PublicationStep

-----------------------------------------------------------------------------
(* What is confirmed stands. *)
LEMMA OkStep ==
    ASSUME StoreInv, [Next]_storeVars
    PROVE  OkMeansStored' /\ oks' \subseteq Events
<1>0. StoreTypeOK /\ (\A t \in Tasks : TaskAtWork(t)) /\ FlushAtWork /\ OkMeansStored
      /\ oks \subseteq Events
  BY DEF StoreInv, StoreTypeOK
<1>1. \A e \in Events : Stands(e) => Stands(e)'
  BY <1>0, StandsStep
<1>2. CASE oks' = oks
  BY <1>0, <1>1, <1>2 DEF OkMeansStored
<1>3. ASSUME NEW t \in Tasks, Save(t), oks' # oks PROVE OkMeansStored' /\ oks' \subseteq Events
  <2>1. Command(t).event \in Events
    BY <1>0, <1>3, CommandType DEF Save, TaskAtWork
  <2>2. PICK x \in Events : x = Command(t).event
    BY <2>1
  <2>3. save_event(x) /\ oks' = oks \cup {x} /\ deleted' = deleted
    BY <1>3, <2>2 DEF Save
  <2>4. Stands(x)'
    BY <1>0, <2>3, SaveStands DEF save_event
  <2> QED
    BY <1>0, <1>1, <2>3, <2>4 DEF OkMeansStored
<1>4. oks' = oks \/ \E t \in Tasks : Save(t)
  BY DEF Next, storeVars, history, CollectBatch, SignBatch, Cancel, BufferStep, Insert,
         TimerElapses, StartFlush, SignNext, SignDone, SaveFlushed, DistributeFlushed, EndFlush,
         HandleEvent, TaskStep, ReturnOk, QueueReplaceable, RequestSignature, ReceiveSignature,
         SaveSigned, Distribute, Delete
<1> QED
  BY <1>2, <1>3, <1>4

(* The rest of the types. *)
LEMMA RestStep ==
    ASSUME StoreInv, [Next]_storeVars
    PROVE  db' \subseteq Events /\ deleted' \subseteq Events /\ cancelled' \in BOOLEAN /\ plans' \in 0..MaxPlans
<1>0. StoreTypeOK /\ (\A t \in Tasks : TaskAtWork(t)) /\ FlushAtWork
  BY DEF StoreInv
<1>1. db \subseteq Events /\ deleted \subseteq Events /\ cancelled \in BOOLEAN /\ plans \in 0..MaxPlans
  BY <1>0 DEF StoreTypeOK
<1>2. db' \subseteq Events /\ deleted' \subseteq Events
  <2>1. CASE UNCHANGED <<db, deleted, saves>>
    BY <1>1, <2>1
  <2>2. CASE \E x \in Events : save_event(x) /\ deleted' = deleted
    BY <1>1, <2>2, StoredType DEF save_event
  <2>3. CASE \E x \in Events : delete(x) /\ saves' = saves
    BY <1>1, <2>3 DEF delete
  <2> QED
    BY <1>0, <2>1, <2>2, <2>3, DatabaseStep
<1>3. cancelled' = cancelled \/ cancelled' = TRUE
  BY DEF Next, storeVars, CollectBatch, SignBatch, Cancel, BufferStep, Insert,
         TimerElapses, StartFlush, SignNext, SignDone, SaveFlushed, DistributeFlushed, EndFlush,
         HandleEvent, TaskStep, ReturnOk, QueueReplaceable, RequestSignature, ReceiveSignature,
         SaveSigned, Save, Distribute, Delete
<1>4. plans' = plans \/ (plans < MaxPlans /\ plans' = plans + 1)
  BY DEF Next, storeVars, CollectBatch, SignBatch, Cancel, BufferStep, Insert,
         TimerElapses, StartFlush, SignNext, SignDone, SaveFlushed, DistributeFlushed, EndFlush,
         HandleEvent, TaskStep, ReturnOk, QueueReplaceable, RequestSignature, ReceiveSignature,
         SaveSigned, Save, Distribute, Delete
<1>5. plans' \in 0..MaxPlans
  BY <1>1, <1>4, StoreAssumption
<1> QED
  BY <1>1, <1>2, <1>3, <1>5

LEMMA StoreInvStep == StoreInv /\ [Next]_storeVars => StoreInv'
<1> SUFFICES ASSUME StoreInv, [Next]_storeVars PROVE StoreInv'
  OBVIOUS
<1>1. /\ StoreTypeOK /\ (\A t \in Tasks : TaskAtWork(t)) /\ NothingLost
      /\ BufferGood /\ Counts /\ \A e \in Events : Paid(e)
  BY DEF StoreInv, BufferGood, BufferTypes, FlushStates, StoreTypeOK, Counts
<1>2. TaskTypes
  BY <1>1, TasksStep
<1>3. SignTypes'
  BY <1>1, SignStep
<1>4. BufferGood' /\ NothingLost'
  BY <1>1, BufferGoodStep
<1>5. Counts' /\ \A e \in Events : Paid(e)'
  BY <1>1, Publishes, PaidStep
<1>6. OkMeansStored' /\ oks' \subseteq Events
  BY OkStep
<1>7. StoreTypeOK'
  BY <1>2, <1>3, <1>4, <1>5, <1>6, RestStep
     DEF StoreTypeOK, TaskTypes, TaskStates, SignTypes, BufferGood, BufferTypes, FlushStates, Counts
<1> QED
  BY <1>2, <1>4, <1>5, <1>6, <1>7 DEF StoreInv, TaskTypes, BufferGood

LEMMA InitStoreInv == Init => StoreInv
<1> SUFFICES ASSUME Init PROVE StoreInv
  OBVIOUS
<1>0. /\ <<>> \in Seq(Commands) /\ <<>> \in Seq(Events) /\ <<>> \in Seq(Requesters) /\ Len(<<>>) = 0
      /\ 0 <= QueueCapacity /\ 0 <= SignCapacity /\ 0 \in 0..MaxPlans
  BY StoreAssumption
<1>1. StoreTypeOK
  BY <1>0 DEF Init, StoreTypeOK
<1>2. \A t \in Tasks : TaskAtWork(t)
  BY DEF Init, TaskAtWork
<1>3. FlushAtWork
  BY DEF Init, FlushAtWork
<1>4. BufferedReplaceable
  BY DEF Init, BufferedReplaceable, Buffered, Range
<1>5. QueueIsSuffix
  BY <1>0 DEF Init, QueueIsSuffix
<1>6. OkMeansStored /\ NothingLost
  BY DEF Init, OkMeansStored, NothingLost
<1>7. ASSUME NEW e \in Events PROVE Paid(e)
  <2>1. Owing(e) = {}
    <3>1. flush.pc = "select" /\ \A t \in Tasks : task[t].pc = "idle"
      BY DEF Init
    <3> QED
      BY <3>1 DEF Owing, Requesters
  <2>2. Cardinality({}) = 0
    BY FS_EmptySet
  <2>3. announces[e] = 0 /\ saves[e] = 0
    BY DEF Init
  <2> QED
    BY <2>1, <2>2, <2>3 DEF Paid
<1> QED
  BY <1>1, <1>2, <1>3, <1>4, <1>5, <1>6, <1>7 DEF StoreInv

(* StoreInv holds in every reachable state. *)
THEOREM StoreInvariance == Spec => []StoreInv
  BY InitStoreInv, StoreInvStep, PTL DEF Spec

(* Types; the buffer's queue and the signing channel stay within their     *)
(* capacities.                                                             *)
THEOREM StoreTypes == Spec => []StoreTypeOK
<1>1. StoreInv => StoreTypeOK
  BY DEF StoreInv
<1> QED
  BY <1>1, StoreInvariance, PTL

(* An OK of save_and_broadcast can be relied on, for any number of         *)
(* connections and whatever they and the buffer save and delete meanwhile. *)
THEOREM OkIsKept == Spec => []OkMeansStored
<1>1. StoreInv => OkMeansStored
  BY DEF StoreInv
<1> QED
  BY <1>1, StoreInvariance, PTL

(* ReplaceableEventsBuffer loses no event but those it excuses, for every  *)
(* capacity of its queue and every plan of the event processors.           *)
THEOREM BufferLosesNothing == Spec => []NothingLost
<1>1. StoreInv => NothingLost
  BY DEF StoreInv
<1> QED
  BY <1>1, StoreInvariance, PTL

-----------------------------------------------------------------------------
(* The safety part of Publication. *)
PublishesSafely == P!Init /\ [][P!Next]_(P!publicationVars)

LEMMA PublicationNext ==
    ASSUME StoreInv, [Next]_storeVars
    PROVE  [P!Next]_(P!publicationVars)
<1>1. PublicationStep
  BY Publishes DEF StoreInv, BufferGood, BufferTypes, FlushStates, StoreTypeOK
<1>2. CASE Quiet
  BY <1>2 DEF Quiet, P!publicationVars
<1>3. ASSUME NEW r \in Requesters, NEW x \in Events, SavedBy(r, x) PROVE P!Next
  <2>1. P!Save(x)
    BY <1>3 DEF SavedBy, P!Save
  <2> QED
    BY <2>1 DEF P!Next
<1>4. ASSUME NEW r \in Requesters, NEW x \in Events, AnnouncedBy(r, x) PROVE P!Next
  <2>1. saves[x] \in Nat /\ announces[x] \in Nat /\ Paid(x)
    BY DEF StoreInv, StoreTypeOK
  <2>2. Cardinality(Owing(x)) \in Nat /\ Cardinality(Owing(x)) # 0
    BY <1>4, OwingFinite, FS_EmptySet DEF AnnouncedBy
  <2>3. announces[x] < saves[x]
    BY <2>1, <2>2 DEF Paid
  <2>4. P!Announce(x)
    BY <1>4, <2>3 DEF AnnouncedBy, P!Announce
  <2> QED
    BY <1>4, <2>4 DEF AnnouncedBy, P!Next
<1> QED
  BY <1>1, <1>2, <1>3, <1>4 DEF PublicationStep

(* Every step of the store is a step of Publication or leaves its state    *)
(* alone: no path to the subscribers distributes an event that was not     *)
(* saved, or more often than it was saved.                                 *)
THEOREM StoreRefinesPublication == Spec => PublishesSafely
<1>1. Init => P!Init
  BY DEF Init, P!Init
<1>2. StoreInv /\ [Next]_storeVars => [P!Next]_(P!publicationVars)
  BY PublicationNext
<1> QED
  BY <1>1, <1>2, StoreInvariance, PTL DEF Spec, PublishesSafely

-----------------------------------------------------------------------------
(***************************************************************************)
(* nostr-lmdb-integrity, on any environment as nostr-lmdb writes it: an    *)
(* event's key is its id, an index entry has the id at its end, behind its *)
(* fields and some padding, unless the key is cut short.                   *)
(***************************************************************************)
Environment(env, pad) ==
    \A e \in env :
       /\ e.db \in Databases
       /\ e.key.at = KeyAt(e.db, pad)
       /\ e.key.len \in Nat /\ e.key.len <= KeyAt(e.db, pad) + 32
       /\ e.key.id \notin {NoId, Panic}
       /\ e.db = "events" => e.key.len = 32

(* The two tools look for the id at the same place; it is there, if the    *)
(* padding is theirs, and else their place is behind the key's end.        *)
LEMMA ToolsLayout ==
    ASSUME NEW d \in Indexes, NEW pad \in 0..3
    PROVE  /\ IdEnd[d] \in Nat /\ DumpIdAt[d] \in Nat /\ IdEnd[d] = DumpIdAt[d] + 32
           /\ KeyAt(d, pad) \in Nat
           /\ \/ KeyAt(d, pad) = DumpIdAt[d]
              \/ KeyAt(d, pad) < DumpIdAt[d] /\ Padding(d, pad) # Padding(d, 3)
<1> USE DEF IdEnd, DumpIdAt, KeyAt, TimeEnd, Padding, Indexes
<1>1. CASE d = "ci"
  BY <1>1
<1>2. CASE d = "tci"
  BY <1>2
<1>3. CASE d = "aci"
  BY <1>3
<1>4. CASE d = "akci"
  BY <1>4
<1>5. CASE d = "atci"
  BY <1>5
<1>6. CASE d = "ktci"
  BY <1>6
<1> QED
  BY <1>1, <1>2, <1>3, <1>4, <1>5, <1>6

(* What the check extracts is the entry's id or nothing; never less than   *)
(* the dump shows, nor than a full key padded as expected has.             *)
LEMMA Extracted ==
    ASSUME NEW env, NEW pad \in 0..3, Environment(env, pad), NEW e \in env
    PROVE  /\ extract_from_key(e.db, e.key) \in {e.key.id, NoId}
           /\ parse_key(e) # NoId => parse_key(e) = e.key.id /\ extract_from_key(e.db, e.key) = e.key.id
           /\ /\ e.db \in Indexes /\ e.key.len = KeyAt(e.db, pad) + 32
              /\ Padding(e.db, pad) = Padding(e.db, 3)
              => extract_from_key(e.db, e.key) = e.key.id
<1>0. /\ e.db \in Databases /\ e.key.at = KeyAt(e.db, pad) /\ e.key.len \in Nat
      /\ e.key.len <= KeyAt(e.db, pad) + 32
  BY DEF Environment
<1>1. CASE e.db \in Indexes
  <2> DEFINE place == DumpIdAt[e.db]
  <2>1. /\ IdEnd[e.db] = place + 32 /\ IdEnd[e.db] - 32 = place /\ place \in Nat
        /\ KeyAt(e.db, pad) \in Nat
        /\ \/ KeyAt(e.db, pad) = place
           \/ KeyAt(e.db, pad) < place /\ Padding(e.db, pad) # Padding(e.db, 3)
    BY <1>1, ToolsLayout
  <2>2. extract_from_key(e.db, e.key) =
           IF e.key.len >= place + 32 THEN Bytes(e.key, place, place + 32) ELSE NoId
    BY <1>1, <2>1 DEF extract_from_key, Indexes
  <2>3. parse_key(e) = IF e.key.len >= place + 32 THEN Bytes(e.key, place, place + 32) ELSE NoId
    BY <1>1 DEF parse_key
  <2> HIDE DEF place
  <2>4. e.key.len >= place + 32 => KeyAt(e.db, pad) = place
    BY <1>0, <2>1
  <2>5. KeyAt(e.db, pad) = place => Bytes(e.key, place, place + 32) = e.key.id
    BY <1>0 DEF Bytes
  <2>6. e.key.len = KeyAt(e.db, pad) + 32 /\ KeyAt(e.db, pad) = place => e.key.len >= place + 32
    BY <1>0, <2>1
  <2> QED
    BY <2>1, <2>2, <2>3, <2>4, <2>5, <2>6
<1>2. CASE e.db \notin Indexes
  <2>1. KeyAt(e.db, pad) = 0
    BY <1>2 DEF KeyAt
  <2>2. extract_from_key(e.db, e.key) \in {e.key.id, NoId}
    BY <1>0, <1>2, <2>1 DEF extract_from_key, Bytes
  <2>3. parse_key(e) = NoId
    BY <1>2 DEF parse_key
  <2> QED
    BY <1>2, <2>2, <2>3
<1> QED
  BY <1>1, <1>2

(***************************************************************************)
(* The integrity tool, for databases of any size and with any padding up   *)
(* to the one it expects: it removes only what names an event that no      *)
(* scope has, leaves no full index entry of such an event where the        *)
(* padding is the expected one, and none that the dump shows, finds        *)
(* nothing when run again, and changes nothing when it meets a scope that  *)
(* the registry does not know.                                             *)
(***************************************************************************)
THEOREM RepairsAreSound ==
    ASSUME NEW env, NEW registry, NEW pad \in 0..3, Environment(env, pad), NoId # Panic
    PROVE  RepairSoundFor(env, registry, pad)
<1> DEFINE corrupted == check_integrity(env, registry)
           after     == IntegrityMain(env, registry, TRUE, TRUE)
           ids       == {e.key.id : e \in {x \in env : x.db = "events"}}
           hashes    == {e.scope : e \in Checked(env)} \ {Unscoped}
           Panics(e) == extract_event_id_from_key(e, registry) = Panic
<1>1. get_all_event_ids(env) = ids
  BY DEF get_all_event_ids, Environment
<1>2. ASSUME NEW e \in env
      PROVE  /\ Panics(e) <=> e.scope # Unscoped /\ e.scope \notin registry
             /\ ~Panics(e) => extract_event_id_from_key(e, registry) = extract_from_key(e.db, e.key)
  <2>1. extract_from_key(e.db, e.key) # Panic
    BY Extracted DEF Environment
  <2> QED
    BY <2>1 DEF extract_event_id_from_key
<1>3. (\E e \in Checked(env) : Panics(e)) <=> ~(hashes \subseteq registry)
  BY <1>2 DEF Checked
<1>4. CASE \E e \in Checked(env) : Panics(e)
  <2>1. after = env
    BY <1>4 DEF IntegrityMain
  <2> QED
    BY <1>3, <1>4, <2>1 DEF RepairSoundFor
<1>5. CASE ~\E e \in Checked(env) : Panics(e)
  <2>1. corrupted = {e \in Checked(env) : extract_from_key(e.db, e.key) \notin ids \cup {NoId}}
    BY <1>1, <1>2, <1>5 DEF check_integrity, Checked
  <2>2. after = env \ corrupted
    BY <1>5 DEF IntegrityMain, remove_corrupted_entries
  <2> HIDE DEF corrupted, after
  <2>3. \A e \in env \ after : e.db # "events" /\ e.key.id \notin ids
    <3>1. ASSUME NEW e \in corrupted PROVE e.db # "events" /\ e.key.id \notin ids
      BY <2>1, Extracted DEF Checked
    <3> QED
      BY <2>2, <3>1
  <2>4. ASSUME NEW e \in dump_database_entries(after) PROVE parse_key(e) \in ids
    <3>1. e \in after /\ e.db # "events" /\ parse_key(e) # NoId
      BY DEF dump_database_entries
    <3>2. e \in Checked(env) /\ e \notin corrupted /\ e.key.id # NoId
      BY <2>2, <3>1 DEF Checked, Environment
    <3>3. parse_key(e) = e.key.id /\ extract_from_key(e.db, e.key) = e.key.id
      BY <3>1, <3>2, Extracted DEF Checked
    <3> QED
      BY <2>1, <3>2, <3>3
  <2>5. check_integrity(after, registry) = {}
    <3>1. get_all_event_ids(after) = get_all_event_ids(env)
      BY <2>1, <2>2 DEF get_all_event_ids, Checked
    <3>2. Checked(after) = Checked(env) \ corrupted
      BY <2>2 DEF Checked
    <3> QED
      BY <3>1, <3>2 DEF check_integrity, corrupted
  <2>6. ASSUME NEW e \in after, e.db \in Indexes, e.key.len = KeyAt(e.db, pad) + 32,
               Padding(e.db, pad) = Padding(e.db, 3)
        PROVE  e.key.id \in ids
    <3>1. e \in Checked(env) /\ e \notin corrupted /\ e.key.id # NoId
      BY <2>2, <2>6 DEF Checked, Environment, Indexes
    <3>2. extract_from_key(e.db, e.key) = e.key.id
      BY <2>6, <3>1, Extracted DEF Checked
    <3> QED
      BY <2>1, <3>1, <3>2
  <2> QED
    BY <1>3, <1>5, <2>3, <2>4, <2>5, <2>6 DEF RepairSoundFor, after
<1> QED
  BY <1>4, <1>5
=============================================================================
