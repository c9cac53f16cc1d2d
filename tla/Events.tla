------------------------------- MODULE Events -------------------------------
(***************************************************************************)
(* Events.fire (src/src/qorme/events.py) in the threads of the             *)
(* application, while TrackingManager registers and unregisters handlers,  *)
(* and the handlers of the Ingest domain with its lazily created queue     *)
(* (src/src/qorme/ingest/ingest.py).                                       *)
(*                                                                         *)
(* One event type stands for all; a domain has one handler.  A queue is    *)
(* what IngestQueue models: enqueue starts its worker when none runs and   *)
(* close ends it, the queue can be used again.                             *)
(***************************************************************************)
EXTENDS TrackingManager

CONSTANTS
  Apps,       \* threads of the application
  MaxQueues   \* bound: queues created

Queues == 1..MaxQueues

ASSUME EventsAssumption == MaxQueues \in Nat

VARIABLES
  fire,     \* where a thread of the application is in Events.fire
  queue,    \* Ingest._queue of a manager's domain, 0 for None
  made,     \* the queues created for a manager
  running,  \* the queues with a worker
  late      \* history: a queue was closed while a handler was running

vars == <<trackingVars, fire, queue, made, running, late>>
-----------------------------------------------------------------------------
NotFiring == [pc |-> "idle", mgr |-> 0, size |-> 0, seen |-> {}, queue |-> 0]

HandlerEnds(a) ==
  fire' = [fire EXCEPT ![a].pc = "next", ![a].seen = @ \cup {Ingest}, ![a].queue = 0]

\* A wrapper of the manager's domains fires; the iterator over the set of
\* handlers remembers the size of the set.
FireBegin(a) ==
  /\ fire[a].pc = "idle"
  /\ \E m \in Managers :
       /\ \E x \in Members : \E d \in Domains : LayersOf(m, d, x) # {}
       /\ fire' = [fire EXCEPT ![a] = [NotFiring EXCEPT !.pc = "next", !.mgr = m,
                                         !.size = Cardinality(registered[m])]]
  /\ UNCHANGED <<trackingVars, queue, made, running, late>>

\* The iterator yields the next handler; only that of Ingest has an effect, and
\* begins with a look at Ingest._queue.
FireNext(a) ==
  /\ fire[a].pc = "next"
  /\ Cardinality(registered[fire[a].mgr]) = fire[a].size
  /\ \E d \in registered[fire[a].mgr] \ fire[a].seen :
       fire' = IF d = Ingest
               THEN [fire EXCEPT ![a].pc = IF queue[fire[a].mgr] = 0 THEN "create" ELSE "read"]
               ELSE [fire EXCEPT ![a].seen = @ \cup {d}]
  /\ UNCHANGED <<trackingVars, queue, made, running, late>>

FireEnds(a) ==
  /\ fire[a].pc = "next"
  /\ Cardinality(registered[fire[a].mgr]) = fire[a].size
  /\ registered[fire[a].mgr] \subseteq fire[a].seen
  /\ fire' = [fire EXCEPT ![a] = NotFiring]
  /\ UNCHANGED <<trackingVars, queue, made, running, late>>

\* RuntimeError, set changed size during iteration: the remaining handlers are
\* not run, and the error reaches the caller of the wrapped member.
FireRaises(a) ==
  /\ fire[a].pc = "next"
  /\ Cardinality(registered[fire[a].mgr]) # fire[a].size
  /\ fire' = [fire EXCEPT ![a] = NotFiring]
  /\ UNCHANGED <<trackingVars, queue, made, running, late>>
-----------------------------------------------------------------------------
(* A handler of Ingest: the queue property, then enqueue.                   *)

Created == UNION {made[m] : m \in Managers}

CreateQueue(a) ==
  /\ fire[a].pc = "create"
  /\ \E q \in Queues \ Created :
       /\ \A p \in Queues \ Created : q <= p
       /\ made' = [made EXCEPT ![fire[a].mgr] = @ \cup {q}]
       /\ queue' = [queue EXCEPT ![fire[a].mgr] = q]
  /\ fire' = [fire EXCEPT ![a].pc = "read"]
  /\ UNCHANGED <<trackingVars, running, late>>

\* return self._queue reads the attribute again: None has no enqueue, which fire
\* logs as an error of the handler.
ReadQueue(a) ==
  /\ fire[a].pc = "read"
  /\ IF queue[fire[a].mgr] = 0
     THEN HandlerEnds(a)
     ELSE fire' = [fire EXCEPT ![a].pc = "enqueue", ![a].queue = queue[fire[a].mgr]]
  /\ UNCHANGED <<trackingVars, queue, made, running, late>>

Enqueue(a) ==
  /\ fire[a].pc = "enqueue"
  /\ running' = running \cup {fire[a].queue}
  /\ HandlerEnds(a)
  /\ UNCHANGED <<trackingVars, queue, made, late>>
-----------------------------------------------------------------------------
(* The finally block of Ingest.disable.                                     *)

Inside(m) == \E a \in Apps : fire[a].mgr = m /\ fire[a].pc \in {"create", "read", "enqueue"}

\* Variant for a mutation: the attribute is reset before it is read.
CloseQueueUnread(t) ==
  /\ call[t].pc = "close"
  /\ queue' = [queue EXCEPT ![Mgr(t)] = 0]
  /\ late' = (late \/ Inside(Mgr(t)))
  /\ Goto(t, "unset")
  /\ UNCHANGED <<managerVars, domainVars, fire, made, running>>

\* q := self._queue, and close if there is one.
CloseQueue(t) ==
  /\ call[t].pc = "close"
  /\ running' = running \ {queue[Mgr(t)]}
  /\ late' = (late \/ Inside(Mgr(t)))
  /\ IF queue[Mgr(t)] = 0 THEN NextDomain(t) ELSE Goto(t, "unset")
  /\ UNCHANGED <<managerVars, domainVars, fire, queue, made>>

UnsetQueue(t) ==
  /\ call[t].pc = "unset"
  /\ queue' = [queue EXCEPT ![Mgr(t)] = 0]
  /\ NextDomain(t)
  /\ UNCHANGED <<managerVars, domainVars, fire, made, running, late>>
-----------------------------------------------------------------------------
Init ==
  /\ TrackingInit
  /\ fire = [a \in Apps |-> NotFiring]
  /\ queue = [m \in Managers |-> 0]
  /\ made = [m \in Managers |-> {}]
  /\ running = {}
  /\ late = FALSE

ManageStep(t) == Manage(t) /\ UNCHANGED <<fire, queue, made, running, late>>

Fire(a) ==
  \/ FireBegin(a) \/ FireNext(a) \/ FireEnds(a) \/ FireRaises(a)
  \/ CreateQueue(a) \/ ReadQueue(a) \/ Enqueue(a)

Next ==
  \/ \E t \in Threads : ManageStep(t) \/ CloseQueue(t) \/ UnsetQueue(t)
  \/ \E a \in Apps : Fire(a)

Spec == Init /\ [][Next]_vars
-----------------------------------------------------------------------------
\* The variables have their types; a handler and a domain only hold queues that
\* were made for their manager.
TypeOK ==
  /\ instance \in 0..MaxInstalls /\ created \in 0..MaxInstalls
  /\ lock \in Threads \cup {NoThread}
  /\ enabled \in [Managers -> SUBSET Domains]
  /\ registered \in [Managers -> SUBSET Domains]
  /\ records \in [Managers -> [Domains -> [Members -> {"none", "owned", "kept"}]]]
  /\ \A x \in Members : Chain(x) \in Seq(Layers)
  /\ \A t \in Threads :
       /\ call[t].mode \in {"none", "install", "uninstall"}
       /\ call[t].pc \in {"idle", "lock", "next", "wrap", "apply", "register",
                          "clear", "restore", "close", "unset"}
       /\ Mgr(t) \in 0..MaxInstalls
  /\ \A a \in Apps :
       /\ fire[a].pc \in {"idle", "next", "create", "read", "enqueue"}
       /\ fire[a].seen \subseteq Domains
       /\ fire[a].pc = "enqueue" => fire[a].queue \in made[fire[a].mgr]
  /\ queue \in [Managers -> 0..MaxQueues]
  /\ \A m \in Managers : queue[m] \in made[m] \cup {0}
  /\ running \subseteq Created
  /\ late \in BOOLEAN /\ overlapped \in BOOLEAN

\* Ingest is disabled for good, and no handler of it is running.
Calm(m) == m <= created /\ Ingest \notin enabled[m] /\ ~Inside(m) /\ ~Installing(m)

\* Once Ingest is disabled, or has failed to start, and the handlers that were
\* running have returned, no event reaches a handler again, whatever wrappers
\* are still in place (ingest.py:55, domain.py:115).
DisabledStaysQuiet == [][\A m \in Managers : Calm(m) => Calm(m)']_vars

\* When all is uninstalled no queue has a worker, unless a handler was running
\* when the queue was closed or two handlers created a queue each
\* (ingest.py:27-39).
QueueEndsWithDomain ==
  (Quiet /\ ~late /\ \A m \in Managers : Cardinality(made[m]) <= 1) => running = {}
=============================================================================
