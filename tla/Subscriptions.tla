---------------------------- MODULE Subscriptions ----------------------------
(***************************************************************************)
(* Live subscriptions and their snapshots: subscribe(), the broadcast of   *)
(* insert_event_json_owned() (db/mod.rs), the subscription table           *)
(* (db/subscription.rs), and the dispatcher and worker threads that answer *)
(* the snapshots in batches (db/snapshot_batch.rs).                        *)
(*                                                                         *)
(* A subscription's channel is bounded and nobody waits for it: whoever    *)
(* finds it full, or its receiver gone, removes the subscription from the  *)
(* table.  A channel is abstracted to its length and to the set of items   *)
(* ever put into it.  The filter is one that every event matches, without  *)
(* a limit; what one snapshot query reads is StoreReaders.                 *)
(***************************************************************************)
EXTENDS Integers, Sequences, FiniteSets

CONSTANTS
  Events,
  Subs,       \* the subscriptions that may be made
  Eose,       \* the item that ends a snapshot
  NWorkers,   \* snapshot_workers
  Capacity    \* subscription_capacity

ASSUME ConstantsAssumption ==
  /\ Eose \notin Events
  /\ NWorkers \in Nat \ {0} /\ Capacity \in Nat \ {0}

Workers == 1..NWorkers

VARIABLES
  db,        \* "open" or "closed" (its drop has sent Shutdown)
  stored,    \* events in the storage
  insert,    \* each event's insert: "new", "stored", "sending", and "announced" or
             \* "unannounced" when it has returned
  targets,   \* the senders an insert has collected and not yet tried
  entries,   \* SubscriptionInner.entries
  life,      \* "new", "registered" (not yet enqueued), "live" or "dropped"
  backlog,   \* items in the channel
  sent,      \* items ever put into the channel
  asOf,      \* the events that were stored when the subscription was made
  inbox,     \* the dispatcher's channel
  pending, ready, idle,  \* run_dispatcher's queues and its idle_workers
  dispatcher,            \* "running", "joining" or "gone"
  worker,    \* "waiting", "given" a batch, "querying", "reporting" or "gone"
  batch,     \* the batch a worker has been given
  active,    \* process_batch's active requests
  promised,  \* what the worker's query must find
  emitted    \* what it has emitted

table == <<entries, life, asOf>>
channels == <<backlog, sent>>
inserts == <<stored, insert, targets>>
queues == <<pending, ready, idle, dispatcher>>
pool == <<worker, batch, active, promised, emitted>>
vars == <<db, inserts, table, channels, inbox, queues, pool>>

-----------------------------------------------------------------------------
Elements(s) == {s[i] : i \in DOMAIN s}

EnqueueMsg(s)   == [type |-> "enqueue", sub |-> s]
CompletedMsg(w) == [type |-> "completed", worker |-> w]
ShutdownMsg     == [type |-> "shutdown"]

\* Fault: the channel has no bound.
CanSendAlways(s) == life[s] \in {"registered", "live"}

\* Sender::try_send fails on a full channel and on one without a receiver.
CanSend(s) == life[s] \in {"registered", "live"} /\ backlog[s] < Capacity

\* Fault: a failed send does not end the subscription.
TrySendQuietly(to, item) ==
  LET reached == {s \in to : CanSend(s)} IN
  /\ sent' = [s \in Subs |-> sent[s] \cup IF s \in reached THEN {item} ELSE {}]
  /\ backlog' = [s \in Subs |-> backlog[s] + IF s \in reached THEN 1 ELSE 0]
  /\ UNCHANGED entries

\* Every sender in the code: try_send, and unregister what it fails for.
TrySend(to, item) ==
  LET reached == {s \in to : CanSend(s)} IN
  /\ sent' = [s \in Subs |-> sent[s] \cup IF s \in reached THEN {item} ELSE {}]
  /\ backlog' = [s \in Subs |-> backlog[s] + IF s \in reached THEN 1 ELSE 0]
  /\ entries' = entries \ (to \ reached)

Init ==
  /\ db = "open" /\ stored = {}
  /\ insert = [e \in Events |-> "new"] /\ targets = [e \in Events |-> {}]
  /\ entries = {} /\ life = [s \in Subs |-> "new"] /\ asOf = [s \in Subs |-> {}]
  /\ backlog = [s \in Subs |-> 0] /\ sent = [s \in Subs |-> {}]
  /\ inbox = <<>> /\ pending = <<>> /\ ready = <<>>
  /\ idle = [i \in Workers |-> NWorkers + 1 - i] /\ dispatcher = "running"
  /\ worker = [w \in Workers |-> "waiting"] /\ batch = [w \in Workers |-> <<>>]
  /\ active = [w \in Workers |-> {}] /\ promised = [w \in Workers |-> {}]
  /\ emitted = [w \in Workers |-> {}]

(***************************************************************************)
(* insert_event_json_owned, one thread per event: append_packet, then      *)
(* broadcast_packet if options.notify_subscribers says so.                 *)
(***************************************************************************)
AppendPacket(e) ==
  /\ db = "open" /\ insert[e] = "new"
  /\ stored' = stored \cup {e}
  /\ insert' = [insert EXCEPT ![e] = "stored"]
  /\ UNCHANGED <<db, targets, table, channels, inbox, queues, pool>>

\* The packet is written, and the rotation that it asks for fails: the insert
\* returns the error, and nobody is told.
AppendFails(e) ==
  /\ db = "open" /\ insert[e] = "new"
  /\ stored' = stored \cup {e}
  /\ insert' = [insert EXCEPT ![e] = "unannounced"]
  /\ UNCHANGED <<db, targets, table, channels, inbox, queues, pool>>

\* notify_subscribers is false: stored without live notification.
FinishSilently(e) ==
  /\ insert[e] = "stored"
  /\ insert' = [insert EXCEPT ![e] = "unannounced"]
  /\ UNCHANGED <<db, stored, targets, table, channels, inbox, queues, pool>>

\* collect_matching_senders, under the lock of the table.
Collect(e) ==
  /\ insert[e] = "stored"
  /\ targets' = [targets EXCEPT ![e] = entries]
  /\ insert' = [insert EXCEPT ![e] = "sending"]
  /\ UNCHANGED <<db, stored, table, channels, inbox, queues, pool>>

Broadcast(e, s) ==
  /\ insert[e] = "sending" /\ s \in targets[e]
  /\ targets' = [targets EXCEPT ![e] = @ \ {s}]
  /\ TrySend({s}, e)
  /\ UNCHANGED <<db, stored, insert, life, asOf, inbox, queues, pool>>

FinishInsert(e) ==
  /\ insert[e] = "sending" /\ targets[e] = {}
  /\ insert' = [insert EXCEPT ![e] = "announced"]
  /\ UNCHANGED <<db, stored, targets, table, channels, inbox, queues, pool>>

(***************************************************************************)
(* subscribe(): register, then enqueue; and the subscriber.                *)
(***************************************************************************)
Register(s) ==
  /\ db = "open" /\ life[s] = "new"
  /\ entries' = entries \cup {s}
  /\ life' = [life EXCEPT ![s] = "registered"]
  /\ asOf' = [asOf EXCEPT ![s] = stored]
  /\ UNCHANGED <<db, inserts, channels, inbox, queues, pool>>

Enqueue(s) ==
  /\ life[s] = "registered"
  /\ life' = [life EXCEPT ![s] = "live"]
  /\ inbox' = Append(inbox, EnqueueMsg(s))
  /\ UNCHANGED <<db, inserts, entries, asOf, channels, queues, pool>>

Receive(s) ==
  /\ life[s] = "live" /\ backlog[s] > 0
  /\ backlog' = [backlog EXCEPT ![s] = @ - 1]
  /\ UNCHANGED <<db, inserts, table, sent, inbox, queues, pool>>

\* Subscription::drop: unregister, and the receiver goes with it.
Drop(s) ==
  /\ life[s] = "live"
  /\ entries' = entries \ {s}
  /\ life' = [life EXCEPT ![s] = "dropped"]
  /\ backlog' = [backlog EXCEPT ![s] = 0]
  /\ UNCHANGED <<db, inserts, asOf, sent, inbox, queues, pool>>

(***************************************************************************)
(* run_dispatcher.                                                         *)
(***************************************************************************)

\* split_pending: as many batches as there are workers, of even sizes, the
\* larger ones first.
Split(requests) ==
  LET n == IF Len(requests) < NWorkers THEN Len(requests) ELSE NWorkers
      first(i) == (i - 1) * (Len(requests) \div n)
                  + (IF i - 1 < Len(requests) % n THEN i - 1 ELSE Len(requests) % n)
  IN [i \in 1..n |-> SubSeq(requests, first(i) + 1, first(i + 1))]

\* dispatch_ready_batches: idle workers are taken from the end of the list.
Handed(batches, workers) ==
  LET n == IF Len(batches) < Len(workers) THEN Len(batches) ELSE Len(workers)
  IN [given |-> [w \in {workers[Len(workers) + 1 - i] : i \in 1..n} |->
                   LET i == CHOOSE i \in 1..n : workers[Len(workers) + 1 - i] = w
                   IN batches[i]],
      left  |-> SubSeq(batches, n + 1, Len(batches)),
      idle  |-> SubSeq(workers, 1, Len(workers) - n)]

Give(given) ==
  /\ worker' = [w \in Workers |-> IF w \in DOMAIN given THEN "given" ELSE worker[w]]
  /\ batch' = [w \in Workers |-> IF w \in DOMAIN given THEN given[w] ELSE batch[w]]

\* Fault: the workers that are handed a batch stay in the list.
DispatchKeepingIdle(requests, workers) ==
  LET new == Handed(Split(requests), workers) IN
  /\ Give(new.given) /\ pending' = <<>> /\ ready' = new.left /\ idle' = workers

\* dispatch_available: the ready batches, then new ones from the pending
\* requests if that leaves a worker idle and no batch.
DispatchAvailable(requests, workers) ==
  LET old == Handed(ready, workers)
      new == Handed(Split(requests), old.idle)
  IN \/ /\ old.idle = <<>> \/ old.left # <<>>
        /\ Give(old.given)
        /\ pending' = requests /\ ready' = old.left /\ idle' = old.idle
     \/ /\ old.idle # <<>> /\ old.left = <<>>
        /\ Give([w \in DOMAIN old.given \cup DOMAIN new.given |->
                   IF w \in DOMAIN old.given THEN old.given[w] ELSE new.given[w]])
        /\ pending' = <<>> /\ ready' = new.left /\ idle' = new.idle

Take(type) == /\ dispatcher = "running" /\ inbox # <<>> /\ Head(inbox).type = type
              /\ inbox' = Tail(inbox)

HandleEnqueue ==
  /\ Take("enqueue")
  /\ DispatchAvailable(Append(pending, Head(inbox).sub), idle)
  /\ UNCHANGED <<db, inserts, table, channels, dispatcher, active, promised, emitted>>

HandleCompleted ==
  /\ Take("completed")
  /\ DispatchAvailable(pending, Append(idle, Head(inbox).worker))
  /\ UNCHANGED <<db, inserts, table, channels, dispatcher, active, promised, emitted>>

\* Fault: only the pending requests are told.
HandleShutdownPendingOnly ==
  /\ Take("shutdown")
  /\ entries' = entries \ Elements(pending)
  /\ pending' = <<>> /\ ready' = <<>> /\ dispatcher' = "joining"
  /\ UNCHANGED <<db, inserts, life, asOf, channels, idle, pool>>

\* What is pending or ready is unregistered; the workers get no more batches.
HandleShutdown ==
  /\ Take("shutdown")
  /\ entries' = entries \ (Elements(pending) \cup UNION {Elements(b) : b \in Elements(ready)})
  /\ pending' = <<>> /\ ready' = <<>> /\ dispatcher' = "joining"
  /\ UNCHANGED <<db, inserts, life, asOf, channels, idle, pool>>

\* Drop of the database: no call is in progress, and the drop of the batcher
\* waits for the dispatcher, which waits for the workers.
Close ==
  /\ db = "open"
  /\ \A e \in Events : insert[e] \in {"new", "announced", "unannounced"}
  /\ \A s \in Subs : life[s] # "registered"
  /\ db' = "closed" /\ inbox' = Append(inbox, ShutdownMsg)
  /\ UNCHANGED <<inserts, table, channels, queues, pool>>

Joined ==
  /\ dispatcher = "joining" /\ \A w \in Workers : worker[w] = "gone"
  /\ dispatcher' = "gone"
  /\ UNCHANGED <<db, inserts, table, channels, inbox, pending, ready, idle, pool>>

(***************************************************************************)
(* run_worker and process_batch.  A batch goes to all its channels in one  *)
(* step: nobody looks at two channels.                                     *)
(***************************************************************************)
Begin(w) ==
  /\ worker[w] = "given"
  /\ LET open == {s \in Subs : s \in Elements(batch[w]) /\ life[s] = "live"} IN
     /\ active' = [active EXCEPT ![w] = open]
     /\ worker' = [worker EXCEPT ![w] = IF open = {} THEN "reporting" ELSE "querying"]
  /\ promised' = [promised EXCEPT ![w] = stored]
  /\ emitted' = [emitted EXCEPT ![w] = {}]
  /\ UNCHANGED <<db, inserts, table, channels, inbox, queues, batch>>

\* Fault: a request whose send failed stays active.
EmitKeepingActive(w, e) ==
  /\ worker[w] = "querying" /\ e \in stored \ emitted[w]
  /\ emitted' = [emitted EXCEPT ![w] = @ \cup {e}]
  /\ TrySend(active[w], e)
  /\ UNCHANGED <<db, inserts, life, asOf, inbox, queues, worker, batch, active, promised>>

\* The query finds what was stored when it began, and may find more.
Emit(w, e) ==
  /\ worker[w] = "querying" /\ e \in stored \ emitted[w]
  /\ emitted' = [emitted EXCEPT ![w] = @ \cup {e}]
  /\ TrySend(active[w], e)
  /\ active' = [active EXCEPT ![w] = {s \in @ : CanSend(s)}]
  /\ UNCHANGED <<db, inserts, life, asOf, inbox, queues, worker, batch, promised>>

\* Fault: every request of the batch gets its EOSE, the failed ones too.
FinishBatchForAll(w) ==
  /\ worker[w] = "querying" /\ promised[w] \subseteq emitted[w]
  /\ worker' = [worker EXCEPT ![w] = "reporting"]
  /\ TrySend(Elements(batch[w]), Eose)
  /\ active' = [active EXCEPT ![w] = {}]
  /\ UNCHANGED <<db, inserts, life, asOf, inbox, queues, batch, promised, emitted>>

FinishBatch(w) ==
  /\ worker[w] = "querying" /\ promised[w] \subseteq emitted[w]
  /\ worker' = [worker EXCEPT ![w] = "reporting"]
  /\ TrySend(active[w], Eose)
  /\ active' = [active EXCEPT ![w] = {}]
  /\ UNCHANGED <<db, inserts, life, asOf, inbox, queues, batch, promised, emitted>>

\* Fault: after a failed query the subscriptions are kept.
FailBatchQuietly(w) ==
  /\ worker[w] = "querying"
  /\ worker' = [worker EXCEPT ![w] = "reporting"]
  /\ active' = [active EXCEPT ![w] = {}]
  /\ UNCHANGED <<db, inserts, table, channels, inbox, queues, batch, promised, emitted>>

\* The query, or the conversion of an event, returns an error.
FailBatch(w) ==
  /\ worker[w] = "querying"
  /\ worker' = [worker EXCEPT ![w] = "reporting"]
  /\ entries' = entries \ Elements(batch[w])
  /\ active' = [active EXCEPT ![w] = {}]
  /\ UNCHANGED <<db, inserts, life, asOf, channels, inbox, queues, batch, promised,
                 emitted>>

Report(w) ==
  /\ worker[w] = "reporting"
  /\ worker' = [worker EXCEPT ![w] = "waiting"]
  /\ batch' = [batch EXCEPT ![w] = <<>>]
  /\ inbox' = Append(inbox, CompletedMsg(w))
  /\ UNCHANGED <<db, inserts, table, channels, queues, active, promised, emitted>>

Exit(w) ==
  /\ worker[w] = "waiting" /\ dispatcher = "joining"
  /\ worker' = [worker EXCEPT ![w] = "gone"]
  /\ UNCHANGED <<db, inserts, table, channels, inbox, queues, batch, active, promised,
                 emitted>>

-----------------------------------------------------------------------------
InsertStep == \E e \in Events : \/ AppendPacket(e) \/ AppendFails(e)
                                \/ Collect(e) \/ FinishInsert(e) \/ FinishSilently(e)
                                \/ \E s \in Subs : Broadcast(e, s)

SubscriberStep == \E s \in Subs : Register(s) \/ Enqueue(s) \/ Receive(s) \/ Drop(s)

DispatcherStep == HandleEnqueue \/ HandleCompleted \/ HandleShutdown \/ Joined

WorkerStep == \E w \in Workers : \/ Begin(w) \/ FinishBatch(w) \/ FailBatch(w)
                                 \/ Report(w) \/ Exit(w)
                                 \/ \E e \in Events : Emit(w, e)

Next == InsertStep \/ SubscriberStep \/ DispatcherStep \/ WorkerStep \/ Close

Spec == Init /\ [][Next]_vars

-----------------------------------------------------------------------------
(***************************************************************************)
(* Properties.                                                             *)
(***************************************************************************)
DeliveryTypeOK ==
  /\ stored \subseteq Events
  /\ insert \in [Events -> {"new", "stored", "sending", "announced", "unannounced"}]
  /\ targets \in [Events -> SUBSET Subs]
  /\ entries \subseteq Subs
  /\ life \in [Subs -> {"new", "registered", "live", "dropped"}]
  /\ asOf \in [Subs -> SUBSET Events]
  /\ backlog \in [Subs -> 0..Capacity]
  /\ sent \in [Subs -> SUBSET (Events \cup {Eose})]
  /\ active \in [Workers -> SUBSET Subs]
  /\ promised \in [Workers -> SUBSET Events] /\ emitted \in [Workers -> SUBSET Events]

Message == {EnqueueMsg(s) : s \in Subs} \cup {CompletedMsg(w) : w \in Workers}
           \cup {ShutdownMsg}

\* Types of the program's variables and of the history variables.
TypeOK ==
  /\ DeliveryTypeOK
  /\ db \in {"open", "closed"} /\ dispatcher \in {"running", "joining", "gone"}
  /\ inbox \in Seq(Message)
  /\ pending \in Seq(Subs) /\ ready \in Seq(Seq(Subs)) /\ idle \in Seq(Workers)
  /\ worker \in [Workers -> {"waiting", "given", "querying", "reporting", "gone"}]
  /\ batch \in [Workers -> Seq(Subs)]

\* EOSE says that the stored events are complete: everything that was in the
\* storage when subscribe() was called has been put into the channel before,
\* although the query runs later, in a batch, on another thread, and shares
\* the channel with live events that may fill it.
SnapshotBeforeEose ==
  \A s \in Subs : Eose \in sent[s] => asOf[s] \subseteq sent[s]

\* A subscription that is in the table after its EOSE has missed no event that
\* was announced: each one whose insert notifies subscribers and has returned Ok
\* came with the snapshot or live, whichever of append, collect, register and
\* query came first.  Nothing is said of an event whose insert was told not to
\* notify, or returned an error after it had stored the event: a subscription
\* gets it from its snapshot, if that is late enough, or not at all.
NoGap ==
  \A s \in entries :
    Eose \in sent[s] => \A e \in Events : insert[e] = "announced" => e \in sent[s]

\* The inductive invariant behind the two: an insert that notifies and has passed
\* the table has served each subscription in it, or has still to, or came before
\* it; an
\* active request has been sent all that its query emitted, and the query must
\* find all that was stored when the subscription was made; EOSE only follows.
InsertInv ==
  /\ \A e \in Events : insert[e] # "new" => e \in stored
  /\ \A s \in Subs : asOf[s] \subseteq stored
  /\ \A s \in entries, e \in Events :
       /\ insert[e] = "sending" => s \in targets[e] \/ e \in sent[s] \cup asOf[s]
       /\ insert[e] = "announced" => e \in sent[s] \cup asOf[s]

SnapshotInv ==
  /\ \A w \in Workers : \A s \in active[w] :
       /\ life[s] \in {"live", "dropped"}
       /\ asOf[s] \subseteq promised[w] /\ emitted[w] \subseteq sent[s]
  /\ \A s \in Subs :
       Eose \in sent[s] => life[s] \in {"live", "dropped"} /\ asOf[s] \subseteq sent[s]

DeliveryInv == DeliveryTypeOK /\ InsertInv /\ SnapshotInv

\* When the drop of the database returns, no subscription is left in the table
\* that is still owed its snapshot.
ShutdownSettles ==
  dispatcher = "gone" => \A s \in entries : Eose \in sent[s]

\* Each worker is in one place: in the idle list, at work with one batch, or
\* in a message to the dispatcher (the debug_assert in
\* handle_dispatcher_message); none is handed a second batch, none gets lost.
Times(x, seq) == Cardinality({i \in DOMAIN seq : seq[i] = x})

WorkersAccounted ==
  \A w \in Workers :
    Times(w, idle) + Times(CompletedMsg(w), inbox)
      + (IF worker[w] \in {"waiting", "gone"} THEN 0 ELSE 1) = 1

\* No subscriber waits for nothing: when no thread of the program has anything
\* left to do, every subscription that is still held has had its EOSE, or its
\* sender is gone from the table and the stream ends - after failed queries,
\* full channels, requests that waited in a batch and a shutdown.
Quiet ==
  /\ \A e \in Events : insert[e] \in {"new", "announced", "unannounced"}
  /\ inbox = <<>> /\ dispatcher \in {"running", "gone"}
  /\ \A w \in Workers : worker[w] \in {"waiting", "gone"}

NobodyForgotten ==
  Quiet => \A s \in entries : life[s] = "live" => Eose \in sent[s]

\* The inductive invariant behind the last three, with DeliveryInv.  Each worker
\* is in one place; a worker is idle only while no request waits; what is still
\* owed to a subscription in the table is in one of the queues or with a worker;
\* and no request comes after the shutdown, which is the last thing asked.
Distinct(seq) == \A i, j \in DOMAIN seq : seq[i] = seq[j] => i = j

Queued(s) == EnqueueMsg(s) \in Elements(inbox) \/ s \in Elements(pending)
             \/ \E b \in Elements(ready) : s \in Elements(b)

Owed(s) == \/ Queued(s)
           \/ \E w \in Workers : \/ worker[w] = "given" /\ s \in Elements(batch[w])
                                 \/ worker[w] = "querying" /\ s \in active[w]

Elsewhere(w) == worker[w] \notin {"waiting", "gone"}

PoolInv ==
  /\ Distinct(idle)
  /\ \A i, j \in DOMAIN inbox : inbox[i].type = "completed" /\ inbox[i] = inbox[j] => i = j
  /\ \A w \in Workers :
       /\ w \in Elements(idle) \/ CompletedMsg(w) \in Elements(inbox) \/ Elsewhere(w)
       /\ w \in Elements(idle) => ~Elsewhere(w) /\ CompletedMsg(w) \notin Elements(inbox)
       /\ CompletedMsg(w) \in Elements(inbox) => ~Elsewhere(w)
       /\ worker[w] = "gone" => dispatcher # "running"
       /\ worker[w] = "querying" => active[w] \subseteq Elements(batch[w])
  /\ idle # <<>> => pending = <<>> /\ ready = <<>>

ClosingInv ==
  /\ db = "open" => dispatcher = "running" /\ ShutdownMsg \notin Elements(inbox)
  /\ db = "closed" => \A s \in Subs : life[s] # "registered"
  /\ \A i, j \in DOMAIN inbox : inbox[i] = ShutdownMsg /\ inbox[j].type # "completed" => j <= i
  /\ dispatcher # "running" =>
       /\ pending = <<>> /\ ready = <<>>
       /\ \A i \in DOMAIN inbox : inbox[i].type = "completed"
  /\ dispatcher = "gone" => \A w \in Workers : worker[w] = "gone"

OwedInv ==
  \A s \in entries : /\ life[s] \in {"registered", "live"}
                     /\ life[s] = "live" => Eose \in sent[s] \/ Owed(s)

QueueInv == TypeOK /\ PoolInv /\ ClosingInv /\ OwedInv
=============================================================================
