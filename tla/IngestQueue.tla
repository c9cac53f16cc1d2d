---------------------------- MODULE IngestQueue ----------------------------
(***************************************************************************)
(* The ingest queue, src/src/qorme/ingest/queue.py.                        *)
(*                                                                         *)
(* Application threads call enqueue, enqueue_after and close on one Queue  *)
(* object.  A background worker thread, started on demand, moves due rows  *)
(* from the priority queue to the queue, drains the queue in batches and   *)
(* hands each batch to the Flusher.                                        *)
(*                                                                         *)
(* One action is one access of a caller or of a worker to the state they   *)
(* share: an operation of queue.Queue, of the lock, of an Event, or of the *)
(* attributes _thread and _stop_event.                                     *)
(***************************************************************************)
EXTENDS Naturals, SequencesExt

CONSTANTS
  Threads,         \* application threads
  Workers,         \* identities of worker threads; a dead one may be started again
  Items,           \* the data of a call; each is handed over once
  QueueMaxSize,    \* config.queue_max_size
  PQueueMaxSize,   \* config.pqueue_max_size
  BatchMinSize,    \* config.batch_min_size
  BatchMaxSize,    \* config.batch_max_size
  Delays,          \* the delays given to enqueue_after
  MaxClock,        \* bound: the clock stops ticking there
  Calls,           \* which of "enqueue", "after", "close" the application makes
  Faults,          \* which of "start", "encode", "join_timeout" may happen
  NoThread, NoWorker, NoItem

ASSUME QueueAssumption ==
  /\ QueueMaxSize \in Nat \ {0}
  /\ PQueueMaxSize \in Nat \ {0}
  /\ BatchMinSize \in Nat \ {0}
  /\ BatchMaxSize \in Nat \ {0}
  /\ Delays \subseteq Nat
  /\ MaxClock \in Nat
  /\ NoThread \notin Threads
  /\ NoWorker \notin Workers
  /\ NoItem \notin Items

VARIABLES
  queue,      \* _queue, the items in FIFO order
  pqueue,     \* _pqueue, a set of items ordered by due
  due,        \* the timestamp an item was put in _pqueue with
  lock,       \* _lock: its holder
  running,    \* _running: the flag of the Event
  stopEvent,  \* _stop_event: no Event, an Event not set, an Event set
  thread,     \* _thread
  clock,      \* time.time()
  pc,         \* where each application thread is
  call,       \* which method it is in
  fresh,      \* items not handed over yet
  wpc,        \* where each worker thread is
  site,       \* which statement of the loop a worker is in
  late,       \* whether wait_for has timed out
  flushAll,   \* the argument of _flush
  now,        \* the local variable of _flush_pqueue
  hand,       \* the entry _flush_pqueue has taken from _pqueue
  payload,    \* the batch _flush has taken from _queue
  accepted,   \* history: items whose call returned, or will return, True
  entered,    \* history: items in the order they were put in _queue
  posted,     \* history: items handed to the HTTP client, in order
  lost,       \* history: accepted items the worker dropped
  signalled   \* history: close has set a stop event

shared    == <<queue, pqueue, due>>
control   == <<lock, running, stopEvent, thread>>
caller    == <<pc, call, fresh>>
worker    == <<wpc, site, late, flushAll, now, hand, payload>>
history   == <<accepted, entered, posted, lost, signalled>>
vars      == <<shared, control, clock, caller, worker, history>>

CallerPc == {"idle", "ensure", "lock", "start", "wait", "blocked", "woken",
             "notify", "closeLock", "closing", "stopping", "join", "closed"}
WorkerPc == {"dead", "new", "stop1", "stop2", "pqGet", "pqPut", "pred",
             "waiting", "drain", "send", "exit"}
-----------------------------------------------------------------------------
(* Helpers.                                                                 *)

Hands     == {hand[w] : w \in Workers} \ {NoItem}
Payloads  == UNION {Range(payload[w]) : w \in Workers}

\* The items the queue is responsible for.
Custody   == Range(queue) \cup pqueue \cup Hands \cup Payloads

\* A worker thread that has been started and has not ended.
Alive(w)  == wpc[w] # "dead"

\* A worker thread between _running.set() and _running.clear().
InLoop(w) == wpc[w] \notin {"dead", "new"}

\* _should_flush
ShouldFlush == Len(queue) >= BatchMinSize

\* Variant for a mutation: callers notify without taking the Condition.
CondNeverHeld == FALSE

CondHeld == \E w \in Workers : site[w] = "wait" /\ wpc[w] \in {"stop1", "stop2"}

\* Condition.notify(): a worker asleep in wait_for evaluates its predicate
\* again.  The notifier holds the Condition, which a worker has held from its
\* evaluation of the predicate to its falling asleep.
Notify ==
  /\ ~CondHeld
  /\ wpc' = [w \in Workers |-> IF wpc[w] = "waiting" THEN "pred" ELSE wpc[w]]

\* _ensure_running returns: enqueue goes on, enqueue_after is finished.
Ensured(t) ==
  IF call[t] = "enqueue"
  THEN /\ pc' = [pc EXCEPT ![t] = "notify"]
       /\ UNCHANGED call
  ELSE /\ pc' = [pc EXCEPT ![t] = "idle"]
       /\ call' = [call EXCEPT ![t] = "none"]
-----------------------------------------------------------------------------
(* enqueue and enqueue_after, up to _ensure_running.                        *)

Enqueue(t, i) ==
  /\ "enqueue" \in Calls /\ pc[t] = "idle" /\ i \in fresh
  /\ Len(queue) < QueueMaxSize
  /\ queue' = Append(queue, i)
  /\ fresh' = fresh \ {i}
  /\ call' = [call EXCEPT ![t] = "enqueue"]
  /\ pc' = [pc EXCEPT ![t] = "ensure"]
  /\ accepted' = accepted \cup {i}
  /\ entered' = Append(entered, i)
  /\ UNCHANGED <<pqueue, due, control, clock, worker, posted, lost, signalled>>

EnqueueAfter(t, i, d) ==
  /\ "after" \in Calls /\ pc[t] = "idle" /\ i \in fresh
  /\ Cardinality(pqueue) < PQueueMaxSize
  /\ pqueue' = pqueue \cup {i}
  /\ due' = [due EXCEPT ![i] = clock + d]
  /\ fresh' = fresh \ {i}
  /\ call' = [call EXCEPT ![t] = "after"]
  /\ pc' = [pc EXCEPT ![t] = "ensure"]
  /\ accepted' = accepted \cup {i}
  /\ UNCHANGED <<queue, control, clock, worker, entered, posted, lost, signalled>>

\* put_nowait raises queue.Full: the data is dropped and the caller told so.
Reject(t, i) ==
  /\ pc[t] = "idle" /\ i \in fresh
  /\ \/ "enqueue" \in Calls /\ Len(queue) >= QueueMaxSize
     \/ "after" \in Calls /\ Cardinality(pqueue) >= PQueueMaxSize
  /\ fresh' = fresh \ {i}
  /\ UNCHANGED <<shared, control, clock, pc, call, worker, history>>
-----------------------------------------------------------------------------
(* _ensure_running.                                                         *)

EnsureRunning(t) ==
  /\ pc[t] = "ensure"
  /\ IF running
     THEN Ensured(t)
     ELSE /\ pc' = [pc EXCEPT ![t] = "lock"]
          /\ UNCHANGED call
  /\ UNCHANGED <<shared, control, clock, fresh, worker, history>>

AcquireLock(t) ==
  /\ pc[t] \in {"lock", "closeLock"}
  /\ lock = NoThread
  /\ lock' = t
  /\ pc' = [pc EXCEPT ![t] = IF @ = "lock" THEN "start" ELSE "closing"]
  /\ UNCHANGED <<shared, running, stopEvent, thread, clock, call, fresh, worker, history>>

\* Variant for a mutation: returning without releasing _lock.
AlreadyRunningKeepsLock(t) ==
  /\ pc[t] = "start" /\ running
  /\ Ensured(t)
  /\ UNCHANGED <<shared, control, clock, fresh, worker, history>>

\* The second look at is_running, under the lock, finds a worker.
AlreadyRunning(t) ==
  /\ pc[t] = "start" /\ running
  /\ lock' = NoThread
  /\ Ensured(t)
  /\ UNCHANGED <<shared, running, stopEvent, thread, clock, fresh, worker, history>>

\* Variant for a mutation: no second look at is_running.
StartWithoutRecheck(t, w) ==
  /\ pc[t] = "start"
  /\ ~Alive(w)
  /\ stopEvent' = "clear"
  /\ thread' = w
  /\ wpc' = [wpc EXCEPT ![w] = "new"]
  /\ pc' = [pc EXCEPT ![t] = "wait"]
  /\ UNCHANGED <<shared, lock, running, clock, call, fresh,
                 site, late, flushAll, now, hand, payload, history>>

StartWorker(t, w) ==
  /\ pc[t] = "start" /\ ~running
  /\ ~Alive(w)
  /\ stopEvent' = "clear"
  /\ thread' = w
  /\ wpc' = [wpc EXCEPT ![w] = "new"]
  /\ pc' = [pc EXCEPT ![t] = "wait"]
  /\ UNCHANGED <<shared, lock, running, clock, call, fresh,
                 site, late, flushAll, now, hand, payload, history>>

\* Thread.start raises RuntimeError.
StartFails(t) ==
  /\ "start" \in Faults /\ pc[t] = "start" /\ ~running
  /\ stopEvent' = "none"
  /\ lock' = NoThread
  /\ Ensured(t)
  /\ UNCHANGED <<shared, running, thread, clock, fresh, worker, history>>

\* _running.wait(): the flag is read once; if it is not set the caller sleeps
\* until the next set(), still holding _lock.
WaitRunning(t) ==
  /\ pc[t] = "wait" /\ ~running
  /\ pc' = [pc EXCEPT ![t] = "blocked"]
  /\ UNCHANGED <<shared, control, clock, call, fresh, worker, history>>

WorkerStarted(t) ==
  /\ \/ pc[t] = "wait" /\ running
     \/ pc[t] = "woken"
  /\ lock' = NoThread
  /\ Ensured(t)
  /\ UNCHANGED <<shared, running, stopEvent, thread, clock, fresh, worker, history>>

\* _maybe_flush.  Only the worker makes the queue shorter, and it evaluates its
\* predicate again when woken: the test and the notification may be one step.
MaybeFlush(t) ==
  /\ pc[t] = "notify"
  /\ IF ShouldFlush THEN Notify ELSE UNCHANGED wpc
  /\ pc' = [pc EXCEPT ![t] = "idle"]
  /\ call' = [call EXCEPT ![t] = "none"]
  /\ UNCHANGED <<shared, control, clock, fresh,
                 site, late, flushAll, now, hand, payload, history>>
-----------------------------------------------------------------------------
(* close.                                                                   *)

BeginClose(t) ==
  /\ "close" \in Calls /\ pc[t] = "idle"
  /\ call' = [call EXCEPT ![t] = "close"]
  /\ pc' = [pc EXCEPT ![t] = IF running THEN "closeLock" ELSE "closed"]
  /\ UNCHANGED <<shared, control, clock, fresh, worker, history>>

\* The second look at is_running, under the lock, finds no worker.
AlreadyStopped(t) ==
  /\ pc[t] = "closing" /\ ~running
  /\ lock' = NoThread
  /\ pc' = [pc EXCEPT ![t] = "closed"]
  /\ UNCHANGED <<shared, running, stopEvent, thread, clock, call, fresh, worker, history>>

\* Variant for a mutation: the worker is woken but not told to stop.
SignalStopWithoutSet(t) ==
  /\ pc[t] = "closing" /\ running
  /\ signalled' = TRUE
  /\ pc' = [pc EXCEPT ![t] = "stopping"]
  /\ UNCHANGED <<shared, control, clock, call, fresh, worker,
                 accepted, entered, posted, lost>>

SignalStop(t) ==
  /\ pc[t] = "closing" /\ running
  /\ stopEvent' = IF stopEvent = "none" THEN "none" ELSE "set"
  /\ signalled' = TRUE
  /\ pc' = [pc EXCEPT ![t] = "stopping"]
  /\ UNCHANGED <<shared, lock, running, thread, clock, call, fresh, worker,
                 accepted, entered, posted, lost>>

WakeWorker(t) ==
  /\ pc[t] = "stopping"
  /\ Notify
  /\ pc' = [pc EXCEPT ![t] = "join"]
  /\ UNCHANGED <<shared, control, clock, call, fresh,
                 site, late, flushAll, now, hand, payload, history>>

\* Variant for a mutation: the stop event is left behind.
JoinKeepsStopEvent(t) ==
  /\ pc[t] = "join"
  /\ thread = NoWorker \/ ~Alive(thread)
  /\ thread' = NoWorker
  /\ lock' = NoThread
  /\ pc' = [pc EXCEPT ![t] = "closed"]
  /\ UNCHANGED <<shared, running, stopEvent, clock, call, fresh, worker, history>>

\* Variant for a mutation: close does not wait for the worker.
JoinWithoutWaiting(t) ==
  /\ pc[t] = "join"
  /\ thread' = NoWorker
  /\ stopEvent' = "none"
  /\ lock' = NoThread
  /\ pc' = [pc EXCEPT ![t] = "closed"]
  /\ UNCHANGED <<shared, running, clock, call, fresh, worker, history>>

\* Thread.join returns, because there is no thread to join, because it has
\* ended, or because join_timeout has elapsed; close then forgets the thread
\* and its stop event.
Join(t) ==
  /\ pc[t] = "join"
  /\ \/ thread = NoWorker
     \/ thread # NoWorker /\ ~Alive(thread)
     \/ "join_timeout" \in Faults
  /\ thread' = NoWorker
  /\ stopEvent' = "none"
  /\ lock' = NoThread
  /\ pc' = [pc EXCEPT ![t] = "closed"]
  /\ UNCHANGED <<shared, running, clock, call, fresh, worker, history>>

EndClose(t) ==
  /\ pc[t] = "closed"
  /\ pc' = [pc EXCEPT ![t] = "idle"]
  /\ call' = [call EXCEPT ![t] = "none"]
  /\ UNCHANGED <<shared, control, clock, fresh, worker, history>>
-----------------------------------------------------------------------------
(* The worker thread: _loop.                                                *)

\* _running.set() wakes the caller that waits for it.
SetRunning(w) ==
  /\ wpc[w] = "new"
  /\ running' = TRUE
  /\ wpc' = [wpc EXCEPT ![w] = "stop1"]
  /\ site' = [site EXCEPT ![w] = "loop"]
  /\ pc' = [t \in Threads |-> IF pc[t] = "blocked" THEN "woken" ELSE pc[t]]
  /\ UNCHANGED <<shared, lock, stopEvent, thread, clock, call, fresh,
                 late, flushAll, now, hand, payload, history>>

\* The loop continues after _should_stop has answered v.  At "loop" it guards
\* the while, at "wait" it is part of the predicate of wait_for, at "flush" it
\* is the argument of _flush.
Answer(w, v) ==
  \/ /\ site[w] = "loop" /\ v
     /\ wpc' = [wpc EXCEPT ![w] = "exit"]
     /\ UNCHANGED <<site, late, flushAll, now>>
  \/ /\ site[w] = "loop" /\ ~v
     /\ wpc' = [wpc EXCEPT ![w] = "pqGet"]
     /\ now' = [now EXCEPT ![w] = clock]
     /\ UNCHANGED <<site, late, flushAll>>
  \/ /\ site[w] = "wait" /\ ~v /\ ~late[w]
     /\ wpc' = [wpc EXCEPT ![w] = "waiting"]
     /\ UNCHANGED <<site, late, flushAll, now>>
  \/ /\ site[w] = "wait" /\ (v \/ late[w])
     /\ wpc' = [wpc EXCEPT ![w] = "stop1"]
     /\ site' = [site EXCEPT ![w] = "flush"]
     /\ UNCHANGED <<late, flushAll, now>>
  \/ /\ site[w] = "flush"
     /\ wpc' = [wpc EXCEPT ![w] = "pqGet"]
     /\ flushAll' = [flushAll EXCEPT ![w] = v]
     /\ now' = [now EXCEPT ![w] = clock]
     /\ UNCHANGED <<site, late>>

\* The head of the while, reached again after a flush.
NextRound(w) ==
  /\ wpc' = [wpc EXCEPT ![w] = "stop1"]
  /\ site' = [site EXCEPT ![w] = "loop"]
  /\ flushAll' = [flushAll EXCEPT ![w] = FALSE]
  /\ late' = [late EXCEPT ![w] = FALSE]

\* An exception: the try around _flush swallows it, elsewhere it ends _loop.
Raise(w) ==
  IF site[w] = "flush"
  THEN NextRound(w)
  ELSE /\ wpc' = [wpc EXCEPT ![w] = "exit"]
       /\ UNCHANGED <<site, flushAll, late>>

\* _should_stop reads self._stop_event twice.
ReadStopEvent(w) ==
  /\ wpc[w] = "stop1"
  /\ IF stopEvent = "none"
     THEN Answer(w, FALSE)
     ELSE /\ wpc' = [wpc EXCEPT ![w] = "stop2"]
          /\ UNCHANGED <<site, late, flushAll, now>>
  /\ UNCHANGED <<shared, control, clock, caller, hand, payload, history>>

ReadStopFlag(w) ==
  /\ wpc[w] = "stop2"
  /\ \/ stopEvent = "none" /\ Raise(w) /\ UNCHANGED now
     \/ stopEvent # "none" /\ Answer(w, stopEvent = "set")
  /\ UNCHANGED <<shared, control, clock, caller, hand, payload, history>>

\* The predicate of wait_for: _should_flush() or _should_stop().
Predicate(w) ==
  /\ wpc[w] = "pred"
  /\ wpc' = [wpc EXCEPT ![w] = "stop1"]
  /\ site' = [site EXCEPT ![w] = IF ShouldFlush THEN "flush" ELSE "wait"]
  /\ UNCHANGED <<shared, control, clock, caller, late, flushAll, now, hand, payload, history>>

\* Variant for a mutation: wait_for without a timeout.
WaitForever(w) == FALSE

\* flush_max_interval has elapsed.
WaitTimeout(w) ==
  /\ wpc[w] = "waiting"
  /\ wpc' = [wpc EXCEPT ![w] = "pred"]
  /\ late' = [late EXCEPT ![w] = TRUE]
  /\ UNCHANGED <<shared, control, clock, caller, site, flushAll, now, hand, payload, history>>

\* The finally of _loop.
ClearRunning(w) ==
  /\ wpc[w] = "exit"
  /\ running' = FALSE
  /\ wpc' = [wpc EXCEPT ![w] = "dead"]
  /\ UNCHANGED <<shared, lock, stopEvent, thread, clock, caller,
                 site, late, flushAll, now, hand, payload, history>>
-----------------------------------------------------------------------------
(* _flush_pqueue, called at the head of the loop and by _flush.             *)

Earliest(i) == i \in pqueue /\ \A j \in pqueue : due[i] <= due[j]

PqGet(w) ==
  /\ wpc[w] = "pqGet"
  /\ \E i \in Items :
       /\ Earliest(i)
       /\ pqueue' = pqueue \ {i}
       /\ hand' = [hand EXCEPT ![w] = i]
  /\ wpc' = [wpc EXCEPT ![w] = "pqPut"]
  /\ UNCHANGED <<queue, due, control, clock, caller,
                 site, late, flushAll, now, payload, history>>

\* _flush_pqueue returns.
PqDone(w) ==
  IF site[w] = "flush"
  THEN /\ wpc' = [wpc EXCEPT ![w] = "drain"]
       /\ UNCHANGED <<site, late>>
  ELSE /\ wpc' = [wpc EXCEPT ![w] = "pred"]
       /\ site' = [site EXCEPT ![w] = "wait"]
       /\ late' = [late EXCEPT ![w] = FALSE]

PqEmpty(w) ==
  /\ wpc[w] = "pqGet" /\ pqueue = {}
  /\ PqDone(w)
  /\ UNCHANGED <<shared, control, clock, caller, flushAll, now, hand, payload, history>>

\* Variant for a mutation: every entry is moved.
MovableBeforeDue(w) == Len(queue) < QueueMaxSize

\* The entry is due, or everything must go, and _queue has room.
Movable(w) ==
  /\ flushAll[w] \/ due[hand[w]] <= now[w]
  /\ Len(queue) < QueueMaxSize

PqMove(w) ==
  /\ wpc[w] = "pqPut" /\ Movable(w)
  /\ queue' = Append(queue, hand[w])
  /\ entered' = Append(entered, hand[w])
  /\ hand' = [hand EXCEPT ![w] = NoItem]
  /\ wpc' = [wpc EXCEPT ![w] = "pqGet"]
  /\ UNCHANGED <<pqueue, due, control, clock, caller, site, late, flushAll, now, payload,
                 accepted, posted, lost, signalled>>

\* Variant for a mutation: the entry is not put back.
PqForget(w) ==
  /\ wpc[w] = "pqPut" /\ ~Movable(w)
  /\ hand' = [hand EXCEPT ![w] = NoItem]
  /\ PqDone(w)
  /\ UNCHANGED <<shared, control, clock, caller, flushAll, now, payload, history>>

\* The entry goes back to _pqueue and _flush_pqueue returns.
PqPutBack(w) ==
  /\ wpc[w] = "pqPut" /\ ~Movable(w)
  /\ Cardinality(pqueue) < PQueueMaxSize
  /\ pqueue' = pqueue \cup {hand[w]}
  /\ hand' = [hand EXCEPT ![w] = NoItem]
  /\ PqDone(w)
  /\ UNCHANGED <<queue, due, control, clock, caller, flushAll, now, payload, history>>

\* A caller has filled _pqueue meanwhile: put_nowait raises queue.Full.
PqOverflow(w) ==
  /\ wpc[w] = "pqPut" /\ ~Movable(w)
  /\ Cardinality(pqueue) >= PQueueMaxSize
  /\ lost' = lost \cup {hand[w]}
  /\ hand' = [hand EXCEPT ![w] = NoItem]
  /\ Raise(w)
  /\ UNCHANGED <<shared, control, clock, caller, now, payload,
                 accepted, entered, posted, signalled>>
-----------------------------------------------------------------------------
(* _flush and Flusher.flush.                                                *)

BatchFull(w) == ~flushAll[w] /\ Len(payload[w]) = BatchMaxSize

\* Variant for a mutation: a LifoQueue.
DrainNewest(w) ==
  /\ wpc[w] = "drain" /\ ~BatchFull(w) /\ queue # <<>>
  /\ payload' = [payload EXCEPT ![w] = Append(@, Last(queue))]
  /\ queue' = Front(queue)
  /\ UNCHANGED <<pqueue, due, control, clock, caller,
                 wpc, site, late, flushAll, now, hand, history>>

Drain(w) ==
  /\ wpc[w] = "drain" /\ ~BatchFull(w) /\ queue # <<>>
  /\ payload' = [payload EXCEPT ![w] = Append(@, Head(queue))]
  /\ queue' = Tail(queue)
  /\ UNCHANGED <<pqueue, due, control, clock, caller,
                 wpc, site, late, flushAll, now, hand, history>>

DrainDone(w) ==
  /\ wpc[w] = "drain" /\ (BatchFull(w) \/ queue = <<>>)
  /\ IF payload[w] = <<>>
     THEN NextRound(w)
     ELSE /\ wpc' = [wpc EXCEPT ![w] = "send"]
          /\ UNCHANGED <<site, flushAll, late>>
  /\ UNCHANGED <<shared, control, clock, caller, now, hand, payload, history>>

\* The payload is encoded, compressed and given to the HTTP client.
Send(w) ==
  /\ wpc[w] = "send"
  /\ posted' = posted \o payload[w]
  /\ payload' = [payload EXCEPT ![w] = <<>>]
  /\ NextRound(w)
  /\ UNCHANGED <<shared, control, clock, caller, now, hand,
                 accepted, entered, lost, signalled>>

\* Encoding or compressing raises; _loop logs it and the batch is gone.
SendFails(w) ==
  /\ "encode" \in Faults /\ wpc[w] = "send"
  /\ lost' = lost \cup Range(payload[w])
  /\ payload' = [payload EXCEPT ![w] = <<>>]
  /\ NextRound(w)
  /\ UNCHANGED <<shared, control, clock, caller, now, hand,
                 accepted, entered, posted, signalled>>
-----------------------------------------------------------------------------
Tick ==
  /\ clock < MaxClock
  /\ clock' = clock + 1
  /\ UNCHANGED <<shared, control, caller, worker, history>>

Init ==
  /\ queue = <<>> /\ pqueue = {} /\ due = [i \in Items |-> 0]
  /\ lock = NoThread /\ running = FALSE /\ stopEvent = "none" /\ thread = NoWorker
  /\ clock = 0
  /\ pc = [t \in Threads |-> "idle"]
  /\ call = [t \in Threads |-> "none"]
  /\ fresh = Items
  /\ wpc = [w \in Workers |-> "dead"]
  /\ site = [w \in Workers |-> "loop"]
  /\ late = [w \in Workers |-> FALSE]
  /\ flushAll = [w \in Workers |-> FALSE]
  /\ now = [w \in Workers |-> 0]
  /\ hand = [w \in Workers |-> NoItem]
  /\ payload = [w \in Workers |-> <<>>]
  /\ accepted = {} /\ entered = <<>> /\ posted = <<>> /\ lost = {}
  /\ signalled = FALSE

\* A caller starts a call.
Begin(t) ==
  \/ \E i \in Items : Enqueue(t, i) \/ Reject(t, i)
  \/ \E i \in Items, d \in Delays : EnqueueAfter(t, i, d)
  \/ BeginClose(t)

\* A caller goes on with the call it is in.
Continue(t) ==
  \/ EnsureRunning(t) \/ AlreadyRunning(t)
  \/ \E w \in Workers : StartWorker(t, w)
  \/ StartFails(t) \/ WaitRunning(t) \/ WorkerStarted(t) \/ MaybeFlush(t)
  \/ AlreadyStopped(t) \/ SignalStop(t) \/ WakeWorker(t) \/ Join(t) \/ EndClose(t)

WorkerStep(w) ==
  \/ SetRunning(w) \/ ReadStopEvent(w) \/ ReadStopFlag(w)
  \/ Predicate(w) \/ WaitTimeout(w) \/ ClearRunning(w)
  \/ PqGet(w) \/ PqEmpty(w) \/ PqMove(w) \/ PqPutBack(w) \/ PqOverflow(w)
  \/ Drain(w) \/ DrainDone(w) \/ Send(w) \/ SendFails(w)

Next ==
  \/ \E t \in Threads : Begin(t) \/ AcquireLock(t) \/ Continue(t)
  \/ \E w \in Workers : WorkerStep(w)
  \/ Tick

Spec == Init /\ [][Next]_vars

\* A thread that can go on does: the interpreter and the operating system
\* schedule every runnable thread, _lock is not held against a caller for ever
\* by others that come and go, the timeout of wait_for elapses, and so does time.
Fairness ==
  /\ \A t \in Threads : WF_vars(AcquireLock(t)) /\ WF_vars(Continue(t))
  /\ \A w \in Workers : WF_vars(WorkerStep(w))
  /\ WF_vars(Tick)

FairSpec == Spec /\ Fairness
-----------------------------------------------------------------------------
(* Properties.                                                              *)

\* The type of every variable, with the bounds of the two queues.
TypeOK ==
  /\ queue \in Seq(Items) /\ Len(queue) <= QueueMaxSize
  /\ pqueue \in SUBSET Items
  /\ due \in [Items -> Nat]
  /\ lock \in Threads \cup {NoThread}
  /\ running \in BOOLEAN
  /\ stopEvent \in {"none", "clear", "set"}
  /\ thread \in Workers \cup {NoWorker}
  /\ clock \in Nat
  /\ pc \in [Threads -> CallerPc]
  /\ call \in [Threads -> {"none", "enqueue", "after", "close"}]
  /\ fresh \in SUBSET Items
  /\ wpc \in [Workers -> WorkerPc]
  /\ site \in [Workers -> {"loop", "wait", "flush"}]
  /\ late \in [Workers -> BOOLEAN]
  /\ flushAll \in [Workers -> BOOLEAN]
  /\ now \in [Workers -> Nat]
  /\ hand \in [Workers -> Items \cup {NoItem}]
  /\ payload \in [Workers -> Seq(Items)]
  /\ accepted \in SUBSET Items
  /\ entered \in Seq(Items)
  /\ posted \in Seq(Items)
  /\ lost \in SUBSET Items
  /\ signalled \in BOOLEAN

\* However enqueue, enqueue_after and close interleave, at most one worker
\* thread exists: _queue has one consumer, and the encoding buffer that the
\* Flusher reuses for every batch is never written by two threads.
SingleWorker == \A v, w \in Workers : Alive(v) /\ Alive(w) => v = w

\* A set stop event belongs to a close that still holds _lock: the worker that
\* a later enqueue starts never finds a stop meant for its predecessor.
StopIsOwned ==
  stopEvent = "set" =>
    \E t \in Threads : lock = t /\ pc[t] \in {"stopping", "join"}

\* When close has joined, no worker is left, whichever of the callers started
\* it: neither the one it signalled nor one started meanwhile.
CloseStopsWorker ==
  [][\A t \in Threads : pc[t] = "join" /\ pc'[t] = "closed"
        => ~running' /\ \A w \in Workers : ~Alive(w)']_vars

\* A worker does not sleep through what it waits for: it is awake once close
\* has notified it, and once the queue has reached batch_min_size, unless the
\* caller that made it so is still on its way to _maybe_flush.
NoLostWakeup ==
  \A w \in Workers : wpc[w] = "waiting" =>
    /\ \A t \in Threads : ~(pc[t] = "join" /\ stopEvent = "set")
    /\ ShouldFlush => \E t \in Threads : pc[t] # "idle" /\ call[t] = "enqueue"

\* The batch a worker has taken from the queue and not handed over yet.
InFlight ==
  IF \E w \in Workers : payload[w] # <<>>
  THEN payload[CHOOSE w \in Workers : payload[w] # <<>>]
  ELSE <<>>

\* The items that entered _queue, as far as they were not dropped.
InLine == posted \o InFlight \o queue

\* The items of s come in the order they have in line, none of them twice.
InOrder(s, line) ==
  \A i, j \in DOMAIN s, m, n \in DOMAIN line :
    i < j /\ line[m] = s[i] /\ line[n] = s[j] => m < n

\* Items reach the HTTP client in the order they entered _queue, none of them
\* twice, across batches, workers and closes; what is missing was dropped when
\* a batch could not be encoded.
OrderPreserved == Range(InLine) = Range(entered) \ lost /\ InOrder(InLine, entered)

\* Every item accepted with True is in exactly one place: waiting, in the hands
\* of a worker, posted, or dropped by an error the code reports.
Places == <<Range(queue), pqueue, Hands, Payloads, Range(posted), lost>>
Accounted ==
  /\ accepted = UNION Range(Places)
  /\ \A m, n \in 1..6 : m # n => Places[m] \cap Places[n] = {}

\* Callers, workers, locks and time outs only ever do what Delivery allows: a row
\* is handed over once, in the order of the line, not before it is due, and in
\* batches that exceed batch_max_size only when a close empties the queue.
Promise ==
  INSTANCE Delivery WITH
    Rows <- Items, offered <- fresh, delayed <- pqueue \cup Hands, dueAt <- due,
    time <- clock, line <- InFlight \o queue, out <- posted, dropped <- lost,
    closing <- signalled
ImplementsDelivery == Promise!Spec

\* Every call of enqueue, enqueue_after and close returns.
CallReturns == \A t \in Threads : pc[t] # "idle" ~> pc[t] = "idle"

\* Every accepted item is posted, or dropped by a failure to encode its batch,
\* however few items follow it, as long as no close stops the worker.
EventuallySettled ==
  \A i \in Items :
    i \in accepted /\ due[i] <= MaxClock ~> i \in Range(posted) \cup lost \/ signalled

\* With a single caller: when close returns, every accepted item has been posted.
CloseFlushes ==
  \A t \in Threads : pc[t] = "closed" => accepted \subseteq Range(posted)

\* A close that has begun to stop the worker stops it, and is_running with it.
CloseEndsRun ==
  \A t \in Threads : pc[t] = "stopping" ~> ~running
=============================================================================
