------------------------------ MODULE EventStore ------------------------------
(***************************************************************************)
(* How events reach the database and the subscribers                       *)
(* (src/src/subscription_coordinator.rs, src/src/crypto_helper.rs,         *)
(* src/src/database.rs, RelayMiddleware::handle_event).  Three kinds of    *)
(* tasks meet:                                                             *)
(*                                                                         *)
(*  - connection tasks inside handle_event: they execute the commands the  *)
(*    event processor returned, one after the other, with                  *)
(*    SubscriptionCoordinator::save_and_broadcast;                         *)
(*  - the signing processor of CryptoHelper: it takes everything that is   *)
(*    in its channel as one batch, signs it and answers each requester;    *)
(*  - the task of ReplaceableEventsBuffer: it collects the replaceable     *)
(*    events the relay generates, keeps the last per (pubkey, kind,        *)
(*    scope), and signs, saves and distributes them when no event has      *)
(*    arrived for a second, or when the relay is shut down.                *)
(*                                                                         *)
(* The database replaces and rejects events by itself (NIP-01);            *)
(* RelayDatabase::save_event forgets which, and answers Ok.                *)
(***************************************************************************)
EXTENDS Naturals, Sequences, SequencesExt, FiniteSets

CONSTANTS
    Events,         \* records [id, by, key, coord, at, replaceable]
    Tasks,          \* connection tasks
    Plans,          \* command lists an EventProcessor may return
    QueueCapacity,  \* of the buffer's queue (10_000)
    SignCapacity,   \* of the signing channel (10000)
    MaxPlans,       \* bound: EVENT messages handled
    Buffer          \* the buffer's task

Requesters == Tasks \cup {Buffer}
(* StoreCommand; by tells whether an event comes signed or the relay signs *)
(* it.                                                                     *)
Commands == {c \in [op : {"signed", "unsigned", "delete"}, event : Events] :
                c.op = "signed" => c.event.by = "client"}

None == [id |-> 0]      \* no event

ASSUME StoreAssumption ==
    /\ Buffer \notin Tasks /\ IsFiniteSet(Tasks)
    /\ None \notin Events
    /\ Plans \subseteq Seq(Commands)
    /\ QueueCapacity \in Nat \ {0}
    /\ SignCapacity \in Nat \ {0}
    /\ MaxPlans \in Nat
    /\ \A e \in Events : /\ e.id \in Nat
                         /\ e.at \in Nat
                         /\ e.by \in {"client", "relay"}
                         /\ e.replaceable \in BOOLEAN

VARIABLES
    db,         \* events stored
    queue,      \* the buffer's queue
    buffer,     \* events in the buffer, one per key
    flush,      \* the buffer's task: [pc, ripe, final, todo, event]
    signQueue,  \* requesters whose command is in the signing channel
    batch,      \* requesters whose command is being signed
    answer,     \* what the oneshot of each requester holds
    task,       \* connection tasks: [pc, todo]
    cancelled,  \* the relay's cancellation token
    plans,      \* EVENT messages handled so far
    oks,        \* history: events a client was told were saved
    accepted,   \* history: events the buffer's queue has taken, in order
    excused,    \* history: accepted events that could not be signed or
                \* saved, or were still in the queue at shutdown
    deleted,    \* history: events removed by a DeleteEvents command
    saves, announces   \* history: saves and distributions of each event

storeVars == <<db, queue, buffer, flush, signQueue, batch, answer, task,
               cancelled, plans, oks, accepted, excused, deleted, saves,
               announces>>
history   == <<oks, accepted, excused, deleted>>
signVars  == <<signQueue, batch, answer>>
bufVars   == <<queue, buffer, flush>>

(* Types, and no channel holds more than its capacity: a send waits for    *)
(* room (flume::bounded, mpsc::channel).                                   *)
StoreTypeOK ==
    /\ db \subseteq Events
    /\ queue \in Seq(Events) /\ Len(queue) <= QueueCapacity
    /\ buffer \subseteq Events
    /\ flush \in [pc : {"select", "flush", "signing", "saving",
                        "distributing", "done"},
                  ripe : BOOLEAN, final : BOOLEAN, todo : SUBSET Events,
                  event : Events \cup {None}]
    /\ signQueue \in Seq(Requesters) /\ Len(signQueue) <= SignCapacity
    /\ batch \in Seq(Requesters)
    /\ answer \in [Requesters -> {"none", "signed", "failed"}]
    /\ task \in [Tasks -> [pc : {"idle", "next", "signing", "saving", "distributing"},
                           todo : Seq(Commands)]]
    /\ cancelled \in BOOLEAN
    /\ plans \in 0..MaxPlans
    /\ oks \subseteq Events /\ accepted \in Seq(Events)
    /\ excused \subseteq Events /\ deleted \subseteq Events
    /\ saves \in [Events -> Nat] /\ announces \in [Events -> Nat]

Init ==
    /\ db = {} /\ queue = <<>> /\ buffer = {}
    /\ flush = [pc |-> "select", ripe |-> FALSE, final |-> FALSE,
                todo |-> {}, event |-> None]
    /\ signQueue = <<>> /\ batch = <<>>
    /\ answer = [r \in Requesters |-> "none"]
    /\ task = [t \in Tasks |-> [pc |-> "idle", todo |-> <<>>]]
    /\ cancelled = FALSE /\ plans = 0
    /\ oks = {} /\ accepted = <<>> /\ excused = {} /\ deleted = {}
    /\ saves = [e \in Events |-> 0] /\ announces = [e \in Events |-> 0]

-----------------------------------------------------------------------------
(* The database. *)

(* NIP-01: of two versions the later one stands, of two of the same second *)
(* the one with the lower id.                                              *)
Beats(f, e) ==
    /\ f.replaceable /\ e.replaceable /\ f.coord = e.coord
    /\ f.at > e.at \/ (f.at = e.at /\ f.id < e.id)

Stored(D, e) ==
    IF \E f \in D : Beats(f, e) THEN D ELSE {f \in D : ~Beats(e, f)} \cup {e}

(* RelayDatabase::save_event: what the database decides is not reported. *)
save_event(e) == db' = Stored(db, e) /\ saves' = [saves EXCEPT ![e] = @ + 1]

distribute_event(e) == announces' = [announces EXCEPT ![e] = @ + 1]

-----------------------------------------------------------------------------
(* The signing processor. *)

sign_store_command(r) ==
    /\ Len(signQueue) < SignCapacity
    /\ signQueue' = Append(signQueue, r)
    /\ UNCHANGED <<batch, answer>>

CollectBatch ==
    /\ batch = <<>> /\ signQueue # <<>>
    /\ batch' = signQueue /\ signQueue' = <<>>
    /\ UNCHANGED <<db, bufVars, answer, task, cancelled, plans, history, saves,
                   announces>>

(* Mutant: only the first requester of a batch is answered. *)
SignFirst ==
    /\ batch # <<>> /\ batch' = <<>>
    /\ answer' = [answer EXCEPT ![Head(batch)] = "signed"]
    /\ UNCHANGED <<db, bufVars, signQueue, task, cancelled, plans, history,
                   saves, announces>>

SignBatch ==
    /\ batch # <<>> /\ batch' = <<>>
    /\ \E bad \in SUBSET Range(batch) :
          answer' = [r \in Requesters |->
                        IF r \in bad THEN "failed"
                        ELSE IF r \in Range(batch) THEN "signed" ELSE answer[r]]
    /\ UNCHANGED <<db, bufVars, signQueue, task, cancelled, plans, history,
                   saves, announces>>

TakeAnswer(r, what) ==
    /\ answer[r] = what
    /\ answer' = [answer EXCEPT ![r] = "none"]
    /\ UNCHANGED <<signQueue, batch>>

-----------------------------------------------------------------------------
(* Connection tasks: handle_event and save_and_broadcast. *)

Signed(plan) == {i \in DOMAIN plan : plan[i].op = "signed"}

(* The first SaveSignedEvent is taken out with swap_remove and comes first. *)
InOrder(plan) ==
    IF Signed(plan) = {} THEN plan
    ELSE LET i == Min(Signed(plan)) IN
         <<plan[i]>> \o Front([plan EXCEPT ![i] = Last(plan)])

Goto(t, to) == task' = [task EXCEPT ![t].pc = to]
Done(t) == task' = [task EXCEPT ![t].pc = "next", ![t].todo = Tail(@)]
(* An error ends handle_event: the commands left are not executed. *)
Abort(t) == task' = [task EXCEPT ![t].pc = "idle", ![t].todo = <<>>]

HandleEvent(t) ==
    /\ task[t].pc = "idle"
    /\ plans < MaxPlans
    /\ plans' = plans + 1
    /\ \E plan \in Plans :
          task' = [task EXCEPT ![t] = [pc |-> "next", todo |-> InOrder(plan)]]
    /\ UNCHANGED <<db, bufVars, signVars, cancelled, history, saves, announces>>

Command(t) == Head(task[t].todo)

NextCommand(t, op) ==
    /\ task[t].pc = "next" /\ task[t].todo # <<>>
    /\ Command(t).op = op

ReturnOk(t) ==
    /\ task[t].pc = "next" /\ task[t].todo = <<>>
    /\ Goto(t, "idle")
    /\ UNCHANGED <<db, bufVars, signVars, cancelled, plans, history, saves,
                   announces>>

(* Mutant: the queue is not bounded. *)
QueueUnbounded(t) ==
    /\ NextCommand(t, "unsigned") /\ Command(t).event.replaceable
    /\ queue' = Append(queue, Command(t).event)
    /\ accepted' = Append(accepted, Command(t).event)
    /\ Done(t)
    /\ UNCHANGED <<db, buffer, flush, signVars, cancelled, plans, oks, excused,
                   deleted, saves, announces>>

(* Once the buffer's task has ended its receiver is gone and sending fails. *)
QueueReplaceable(t) ==
    /\ NextCommand(t, "unsigned") /\ Command(t).event.replaceable
    /\ \/ /\ flush.pc # "done" /\ Len(queue) < QueueCapacity
          /\ queue' = Append(queue, Command(t).event)
          /\ accepted' = Append(accepted, Command(t).event)
          /\ Done(t)
       \/ /\ flush.pc = "done"
          /\ Abort(t)
          /\ UNCHANGED <<queue, accepted>>
    /\ UNCHANGED <<db, buffer, flush, signVars, cancelled, plans, oks, excused,
                   deleted, saves, announces>>

RequestSignature(t) ==
    /\ NextCommand(t, "unsigned") /\ ~Command(t).event.replaceable
    /\ sign_store_command(t)
    /\ Goto(t, "signing")
    /\ UNCHANGED <<db, bufVars, cancelled, plans, history, saves, announces>>

ReceiveSignature(t) ==
    /\ task[t].pc = "signing"
    /\ \/ TakeAnswer(t, "signed") /\ Goto(t, "saving")
       \/ TakeAnswer(t, "failed") /\ Abort(t)
    /\ UNCHANGED <<db, bufVars, cancelled, plans, history, saves, announces>>

SaveSigned(t) ==
    /\ NextCommand(t, "signed")
    /\ Goto(t, "saving")
    /\ UNCHANGED <<db, bufVars, signVars, cancelled, plans, history, saves,
                   announces>>

(* Mutant: the OK does not depend on the outcome of the save. *)
SaveEarlyOk(t) ==
    LET c == Command(t) IN
    /\ task[t].pc = "saving"
    /\ \/ /\ save_event(c.event)
          /\ IF c.op = "signed"
             THEN oks' = oks \cup {c.event} /\ Goto(t, "distributing")
             ELSE Done(t) /\ UNCHANGED oks
       \/ Abort(t) /\ oks' = oks \cup {c.event} /\ UNCHANGED <<db, saves>>
    /\ UNCHANGED <<bufVars, signVars, cancelled, plans, accepted, excused,
                   deleted, announces>>

(* A client's event is confirmed with OK and distributed; an event the     *)
(* relay has just signed is only saved.                                    *)
Save(t) ==
    LET c == Command(t) IN
    /\ task[t].pc = "saving"
    /\ \/ /\ save_event(c.event)
          /\ IF c.op = "signed"
             THEN oks' = oks \cup {c.event} /\ Goto(t, "distributing")
             ELSE Done(t) /\ UNCHANGED oks
       \/ Abort(t) /\ UNCHANGED <<db, saves, oks>>
    /\ UNCHANGED <<bufVars, signVars, cancelled, plans, accepted, excused,
                   deleted, announces>>

Distribute(t) ==
    /\ task[t].pc = "distributing"
    /\ distribute_event(Command(t).event)
    /\ Done(t)
    /\ UNCHANGED <<db, bufVars, signVars, cancelled, plans, history, saves>>

(* RelayDatabase::delete *)
delete(e) == db' = db \ {e} /\ deleted' = deleted \cup (db \cap {e})

Delete(t) ==
    LET e == Command(t).event IN
    /\ NextCommand(t, "delete")
    /\ \/ Done(t) /\ delete(e)
       \/ Abort(t) /\ UNCHANGED <<db, deleted>>
    /\ UNCHANGED <<bufVars, signVars, cancelled, plans, oks, accepted, excused,
                   saves, announces>>

TaskStep(t) ==
    \/ ReturnOk(t) \/ QueueReplaceable(t) \/ RequestSignature(t)
    \/ ReceiveSignature(t) \/ SaveSigned(t) \/ Save(t) \/ Distribute(t)
    \/ Delete(t)

-----------------------------------------------------------------------------
(* The task of ReplaceableEventsBuffer: the loop over tokio::select!. *)

Insert ==
    LET e == Head(queue) IN
    /\ flush.pc = "select" /\ queue # <<>>
    /\ queue' = Tail(queue)
    /\ buffer' = {f \in buffer : f.key # e.key} \cup {e}
    /\ flush' = [flush EXCEPT !.ripe = FALSE]
    /\ UNCHANGED <<db, signVars, task, cancelled, plans, history, saves,
                   announces>>

(* Mutant: the sleep ends only after a second in which the buffer, too,    *)
(* was empty.                                                              *)
TimerWhenEmpty ==
    /\ flush.pc = "select" /\ queue = <<>> /\ buffer = {} /\ ~flush.ripe
    /\ flush' = [flush EXCEPT !.ripe = TRUE]
    /\ UNCHANGED <<db, queue, buffer, signVars, task, cancelled, plans, history,
                   saves, announces>>

(* The sleep is created anew on each turn of the loop: it ends only after  *)
(* a second in which nothing has arrived.                                  *)
TimerElapses ==
    /\ flush.pc = "select" /\ queue = <<>> /\ ~flush.ripe
    /\ flush' = [flush EXCEPT !.ripe = TRUE]
    /\ UNCHANGED <<db, queue, buffer, signVars, task, cancelled, plans, history,
                   saves, announces>>

(* Mutant: shutdown leaves the loop without the last flush. *)
StartFlushNoFinal ==
    /\ flush.pc = "select"
    /\ \E last \in BOOLEAN :
          /\ IF last THEN cancelled ELSE flush.ripe
          /\ flush' = [flush EXCEPT !.pc = "flush", !.ripe = FALSE, !.final = last,
                                    !.todo = IF last THEN {} ELSE buffer]
    /\ buffer' = {}
    /\ UNCHANGED <<db, queue, signVars, task, cancelled, plans, history, saves,
                   announces>>

StartFlush ==
    /\ flush.pc = "select"
    /\ \E last \in BOOLEAN :
          /\ IF last THEN cancelled ELSE flush.ripe
          /\ flush' = [flush EXCEPT !.pc = "flush", !.ripe = FALSE,
                                    !.final = last, !.todo = buffer]
    /\ buffer' = {}
    /\ UNCHANGED <<db, queue, signVars, task, cancelled, plans, history, saves,
                   announces>>

(* The events drained from the map come in no particular order. *)
SignNext ==
    /\ flush.pc = "flush"
    /\ \E e \in flush.todo :
          flush' = [flush EXCEPT !.pc = "signing", !.event = e,
                                 !.todo = @ \ {e}]
    /\ sign_store_command(Buffer)
    /\ UNCHANGED <<db, queue, buffer, task, cancelled, plans, history, saves,
                   announces>>

GiveUp ==
    /\ flush' = [flush EXCEPT !.pc = "flush", !.event = None]
    /\ excused' = excused \cup {flush.event}

SignDone ==
    /\ flush.pc = "signing"
    /\ \/ /\ TakeAnswer(Buffer, "signed")
          /\ flush' = [flush EXCEPT !.pc = "saving"]
          /\ UNCHANGED excused
       \/ TakeAnswer(Buffer, "failed") /\ GiveUp
    /\ UNCHANGED <<db, queue, buffer, task, cancelled, plans, oks, accepted,
                   deleted, saves, announces>>

(* Mutant: the event is distributed although it could not be saved. *)
SaveFlushedAnyway ==
    /\ flush.pc = "saving"
    /\ save_event(flush.event) \/ UNCHANGED <<db, saves>>
    /\ flush' = [flush EXCEPT !.pc = "distributing"]
    /\ UNCHANGED <<queue, buffer, signVars, task, cancelled, plans, history,
                   announces>>

SaveFlushed ==
    /\ flush.pc = "saving"
    /\ \/ /\ save_event(flush.event)
          /\ flush' = [flush EXCEPT !.pc = "distributing"]
          /\ UNCHANGED excused
       \/ GiveUp /\ UNCHANGED <<db, saves>>
    /\ UNCHANGED <<queue, buffer, signVars, task, cancelled, plans, oks,
                   accepted, deleted, announces>>

DistributeFlushed ==
    /\ flush.pc = "distributing"
    /\ distribute_event(flush.event)
    /\ flush' = [flush EXCEPT !.pc = "flush", !.event = None]
    /\ UNCHANGED <<db, queue, buffer, signVars, task, cancelled, plans, history,
                   saves>>

(* The task ends after the last flush, and its receiver with all it holds. *)
EndFlush ==
    /\ flush.pc = "flush" /\ flush.todo = {}
    /\ IF flush.final
       THEN /\ flush' = [flush EXCEPT !.pc = "done"]
            /\ queue' = <<>> /\ excused' = excused \cup Range(queue)
       ELSE /\ flush' = [flush EXCEPT !.pc = "select"]
            /\ UNCHANGED <<queue, excused>>
    /\ UNCHANGED <<db, buffer, signVars, task, cancelled, plans, oks, accepted,
                   deleted, saves, announces>>

BufferStep ==
    \/ Insert \/ TimerElapses \/ StartFlush \/ SignNext \/ SignDone
    \/ SaveFlushed \/ DistributeFlushed \/ EndFlush

Cancel ==
    /\ ~cancelled /\ cancelled' = TRUE
    /\ UNCHANGED <<db, bufVars, signVars, task, plans, history, saves, announces>>

-----------------------------------------------------------------------------
Next ==
    \/ CollectBatch \/ SignBatch \/ BufferStep \/ Cancel
    \/ \E t \in Tasks : HandleEvent(t) \/ TaskStep(t)

(* Every task is polled again when what it waits for is there. *)
Fairness ==
    /\ WF_storeVars(CollectBatch) /\ WF_storeVars(SignBatch)
    /\ WF_storeVars(BufferStep)
    /\ \A t \in Tasks : WF_storeVars(TaskStep(t))

Spec == Init /\ [][Next]_storeVars /\ Fairness

-----------------------------------------------------------------------------
(* The event stands in the database, or what stands (or stood, until it    *)
(* was deleted) there has replaced it.                                     *)
Stands(e) ==
    \/ e \in db \cup deleted
    \/ \E f \in db \cup deleted : Beats(f, e)

(***************************************************************************)
(* A client that was told OK for its event can rely on it: the event is in *)
(* the database, or was deleted, or a version that wins over it is - while *)
(* other connections and the buffer save and delete at the same time, and  *)
(* saves fail (save_and_broadcast replies from the result of save_event).  *)
(***************************************************************************)
OkMeansStored == \A e \in oks : Stands(e)

(***************************************************************************)
(* The buffer loses nothing but what it says: an event its queue has taken *)
(* is still under way, or stands in the database, or was followed by an    *)
(* event of the same (pubkey, kind, scope), or could not be signed or      *)
(* saved, or was still in the queue when the relay was shut down.  The     *)
(* flush at shutdown saves everything the buffer itself holds.             *)
(***************************************************************************)
NothingLost ==
    \A i \in DOMAIN accepted :
        LET e == accepted[i] IN
        \/ e \in Range(queue) \cup buffer \cup flush.todo \cup {flush.event}
        \/ e \in excused \/ Stands(e)
        \/ \E j \in i + 1 .. Len(accepted) : accepted[j].key = e.key

(* Events that subscribers are told about: not the ones the relay signs    *)
(* and saves without buffering them.                                       *)
Broadcast == {e \in Events : e.by = "client" \/ e.replaceable}

P == INSTANCE Publication WITH Announced <- Broadcast

(***************************************************************************)
(* The store implements Publication: whatever path an event takes, it is   *)
(* distributed only after a save that succeeded, once for each, and every  *)
(* saved event that is to be broadcast is.                                 *)
(***************************************************************************)
ImplementsPublication == P!Spec

(***************************************************************************)
(* handle_event always returns: no connection waits for ever for a         *)
(* signature or for room in the buffer's queue.                            *)
(***************************************************************************)
HandleEventReturns == \A t \in Tasks : task[t].pc # "idle" ~> task[t].pc = "idle"

(***************************************************************************)
(* What is put into the buffer is flushed, because the events stop coming  *)
(* for a second at some time.  (A relay that generates them without such a *)
(* pause never flushes: TimerElapses is never enabled for long enough.)    *)
(***************************************************************************)
BufferFlushed == buffer # {} ~> buffer = {}
=============================================================================
