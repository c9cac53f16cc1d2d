------------------------------ MODULE MLStore ------------------------------
(***************************************************************************)
(* The connection of the ML store: src/src/qorme/ml/store.py (MLStore) and  *)
(* the event stream of src/src/qorme/client/client.py (Client._sse) that    *)
(* drives it through callbacks.                                            *)
(*                                                                         *)
(* Application threads call connected and close.  The stream is a task of  *)
(* the event loop; a cancellation reaches it at its next await.  The       *)
(* server is external: it has numbered events and, when it is given the    *)
(* id of the last one seen, goes on after it.                              *)
(***************************************************************************)
EXTENDS Naturals, SequencesExt

CONSTANTS
  Threads,      \* application threads
  Tasks,        \* identities of stream tasks, each used once
  MaxRetries,   \* config.sse.max_retries
  MaxEvents,    \* bound: the number of events the server has
  Calls,        \* which of "connected", "close" the application makes
  Faults,       \* which of "submit", "transport", "bad_event" may happen
  NoTask

ASSUME StoreAssumption ==
  /\ MaxRetries \in Nat \ {0}
  /\ MaxEvents \in Nat
  /\ NoTask \notin Tasks

VARIABLES
  state,       \* the dict _state refers to: the store's own or a shared one
  claimed,     \* the dicts that have a "connecting" key
  sseTask,     \* _sse_task
  lastEventId, \* _last_event_id
  pc,          \* where each application thread is
  mine,        \* the task a thread has submitted and not stored yet
  tpc,         \* where each stream task is
  retries,     \* num_retries
  pos,         \* the last event the server has sent on the task's connection
  why,         \* why the stream of a task has ended
  cancelled,   \* tasks whose future has been cancelled
  applied      \* history: the events handed to update_models, in order

store  == <<state, claimed, sseTask, lastEventId, applied>>
caller == <<pc, mine>>
task   == <<tpc, retries, pos, why, cancelled>>
vars   == <<store, caller, task>>

States == {"own", "connected", "disconnected", "dead"}
TaskPc == {"unused", "scheduled", "attempt", "connect", "stream", "unwind", "backoff", "done"}

Running(k) == tpc[k] \notin {"unused", "done"}

Goto(t, p) == pc' = [pc EXCEPT ![t] = p]
Move(k, p) == tpc' = [tpc EXCEPT ![k] = p]
-----------------------------------------------------------------------------
(* connected.  _state is read three times: by connected, by the test of     *)
(* _mark_connecting and by its setdefault.                                  *)

CallConnected(t) ==
  /\ "connected" \in Calls /\ pc[t] = "idle"
  /\ IF state = "connected" THEN UNCHANGED pc ELSE Goto(t, "check")
  /\ UNCHANGED <<store, mine, task>>

\* Only the store's own dict, as long as nobody claimed it, is empty.
CheckState(t) ==
  /\ pc[t] = "check"
  /\ Goto(t, IF state = "own" /\ "own" \notin claimed THEN "claim" ELSE "idle")
  /\ UNCHANGED <<store, mine, task>>

Claim(t) ==
  /\ pc[t] = "claim"
  /\ claimed' = claimed \cup {state}
  /\ Goto(t, IF state \in claimed THEN "idle" ELSE "submit")
  /\ UNCHANGED <<state, sseTask, lastEventId, applied, mine, task>>

\* Client.sse hands the coroutine to the event loop.
Submit(t, k) ==
  /\ pc[t] = "submit" /\ tpc[k] = "unused"
  /\ Move(k, "scheduled")
  /\ mine' = [mine EXCEPT ![t] = k]
  /\ Goto(t, "store")
  /\ UNCHANGED <<store, retries, pos, why, cancelled>>

\* The event loop cannot be started.
SubmitFails(t) ==
  /\ "submit" \in Faults /\ pc[t] = "submit"
  /\ Goto(t, "idle")
  /\ UNCHANGED <<store, mine, task>>

StoreTask(t) ==
  /\ pc[t] = "store"
  /\ sseTask' = mine[t]
  /\ mine' = [mine EXCEPT ![t] = NoTask]
  /\ Goto(t, "idle")
  /\ UNCHANGED <<state, claimed, lastEventId, applied, task>>
-----------------------------------------------------------------------------
(* close.                                                                   *)

\* _mark_dead, called by close and by on_sse_exit.
MarkDead ==
  /\ state' = "dead"
  /\ sseTask' = IF state = "dead" THEN sseTask ELSE NoTask

\* Variant for a mutation: the task is not cancelled.
CloseWithoutCancel(t) ==
  /\ "close" \in Calls /\ pc[t] = "idle"
  /\ Goto(t, "closing")
  /\ UNCHANGED <<store, mine, task>>

Close(t) ==
  /\ "close" \in Calls /\ pc[t] = "idle"
  /\ cancelled' = IF sseTask = NoTask THEN cancelled ELSE cancelled \cup {sseTask}
  /\ Goto(t, "closing")
  /\ UNCHANGED <<store, mine, tpc, retries, pos, why>>

CloseMarks(t) ==
  /\ pc[t] = "closing"
  /\ MarkDead
  /\ Goto(t, "closed")
  /\ UNCHANGED <<claimed, lastEventId, applied, mine, task>>

CloseReturns(t) ==
  /\ pc[t] = "closed"
  /\ Goto(t, "idle")
  /\ UNCHANGED <<store, mine, task>>
-----------------------------------------------------------------------------
(* Client._sse.                                                             *)

\* The finally of _sse calls on_sse_exit.
Exit(k) ==
  /\ MarkDead
  /\ Move(k, "done")
  /\ UNCHANGED <<claimed, lastEventId, applied, retries, pos, why>>

TaskStarts(k) ==
  /\ tpc[k] = "scheduled" /\ k \notin cancelled
  /\ Move(k, "attempt")
  /\ UNCHANGED <<store, caller, retries, pos, why, cancelled>>

\* Variant for a mutation: the header is set once, before the loop.
AttemptFromStart(k) ==
  /\ tpc[k] = "attempt"
  /\ IF retries[k] < MaxRetries
     THEN /\ pos' = [pos EXCEPT ![k] = 0]
          /\ Move(k, "connect")
          /\ UNCHANGED <<store, retries, why>>
     ELSE Exit(k)
  /\ UNCHANGED <<caller, cancelled>>

\* The head of the while; the Last-Event-ID header is read on every attempt.
Attempt(k) ==
  /\ tpc[k] = "attempt"
  /\ IF retries[k] < MaxRetries
     THEN /\ pos' = [pos EXCEPT ![k] = lastEventId]
          /\ Move(k, "connect")
          /\ UNCHANGED <<store, retries, why>>
     ELSE Exit(k)
  /\ UNCHANGED <<caller, cancelled>>

\* aconnect_sse succeeds: on_sse_connect.
Connects(k) ==
  /\ tpc[k] = "connect"
  /\ state' = "connected"
  /\ Move(k, "stream")
  /\ UNCHANGED <<claimed, sseTask, lastEventId, applied, caller, retries, pos, why, cancelled>>

\* on_event: the models are updated, then the id is remembered.
Event(k) ==
  /\ tpc[k] = "stream" /\ pos[k] < MaxEvents
  /\ pos' = [pos EXCEPT ![k] = @ + 1]
  /\ applied' = Append(applied, pos[k] + 1)
  /\ lastEventId' = pos[k] + 1
  /\ UNCHANGED <<state, claimed, sseTask, caller, tpc, retries, why, cancelled>>

\* Variant for a mutation: on_sse_disconnect is only called on errors.
StreamEndsSilently(k, reason) ==
  /\ tpc[k] = "stream"
  /\ reason = "clean" \/ reason \in Faults
  /\ IF reason = "clean" THEN UNCHANGED state ELSE state' = "disconnected"
  /\ why' = [why EXCEPT ![k] = reason]
  /\ Move(k, "unwind")
  /\ UNCHANGED <<claimed, sseTask, lastEventId, applied, caller, retries, pos, cancelled>>

\* The stream ends, breaks, or on_event raises: on_sse_disconnect, then the
\* response is closed.
StreamEnds(k, reason) ==
  /\ tpc[k] = "stream"
  /\ reason = "clean" \/ reason \in Faults
  /\ state' = "disconnected"
  /\ why' = [why EXCEPT ![k] = reason]
  /\ Move(k, "unwind")
  /\ UNCHANGED <<claimed, sseTask, lastEventId, applied, caller, retries, pos, cancelled>>

\* except TransportError: the first error is retried at once, a later one after
\* a pause.
Retry(k) ==
  /\ IF retries[k] = 0
     THEN /\ retries' = [retries EXCEPT ![k] = 1]
          /\ Move(k, "attempt")
     ELSE /\ Move(k, "backoff")
          /\ UNCHANGED retries
  /\ UNCHANGED <<store, pos, why>>

ConnectFails(k) ==
  /\ "transport" \in Faults /\ tpc[k] = "connect"
  /\ Retry(k)
  /\ UNCHANGED <<caller, cancelled>>

Unwind(k) ==
  /\ tpc[k] = "unwind"
  /\ \/ /\ why[k] = "clean"
        /\ retries' = [retries EXCEPT ![k] = 0]
        /\ Move(k, "attempt")
        /\ UNCHANGED <<store, pos, why>>
     \/ why[k] = "transport" /\ Retry(k)
     \/ why[k] \in {"bad_event", "cancel"} /\ Exit(k)
  /\ UNCHANGED <<caller, cancelled>>

\* Variant for a mutation: the retry is not counted.
BackoffUncounted(k) ==
  /\ tpc[k] = "backoff"
  /\ Move(k, "attempt")
  /\ UNCHANGED <<store, caller, retries, pos, why, cancelled>>

Backoff(k) ==
  /\ tpc[k] = "backoff"
  /\ retries' = [retries EXCEPT ![k] = @ + 1]
  /\ Move(k, "attempt")
  /\ UNCHANGED <<store, caller, pos, why, cancelled>>

\* CancelledError is raised where the task awaits.  A task that never ran ends
\* without running its finally.
Cancel(k) ==
  /\ k \in cancelled
  /\ \/ /\ tpc[k] = "scheduled"
        /\ Move(k, "done")
        /\ UNCHANGED <<store, retries, pos, why>>
     \/ tpc[k] \in {"connect", "backoff", "unwind"} /\ Exit(k)
     \/ /\ tpc[k] = "stream"
        /\ state' = "disconnected"
        /\ why' = [why EXCEPT ![k] = "cancel"]
        /\ Move(k, "unwind")
        /\ UNCHANGED <<claimed, sseTask, lastEventId, applied, retries, pos>>
  /\ UNCHANGED <<caller, cancelled>>
-----------------------------------------------------------------------------
Init ==
  /\ state = "own" /\ claimed = {} /\ sseTask = NoTask /\ lastEventId = 0
  /\ pc = [t \in Threads |-> "idle"]
  /\ mine = [t \in Threads |-> NoTask]
  /\ tpc = [k \in Tasks |-> "unused"]
  /\ retries = [k \in Tasks |-> 0]
  /\ pos = [k \in Tasks |-> 0]
  /\ why = [k \in Tasks |-> "clean"]
  /\ cancelled = {}
  /\ applied = <<>>

Continue(t) ==
  \/ CheckState(t) \/ Claim(t) \/ SubmitFails(t) \/ StoreTask(t)
  \/ \E k \in Tasks : Submit(t, k)
  \/ CloseMarks(t) \/ CloseReturns(t)

TaskStep(k) ==
  \/ TaskStarts(k) \/ Attempt(k) \/ Connects(k) \/ ConnectFails(k)
  \/ Event(k) \/ \E r \in {"clean", "transport", "bad_event"} : StreamEnds(k, r)
  \/ Unwind(k) \/ Backoff(k)

Next ==
  \/ \E t \in Threads : CallConnected(t) \/ Close(t) \/ Continue(t)
  \/ \E k \in Tasks : TaskStep(k) \/ Cancel(k)

Spec == Init /\ [][Next]_vars

\* Threads are scheduled and the event loop runs its tasks: connects end one way
\* or the other and pauses elapse.  Whether a stream sends anything or ever ends
\* is up to the server.  The loop raises a cancellation at the task's next await,
\* so that a task that awaits again and again cannot escape it.
Fairness ==
  /\ \A t \in Threads : WF_vars(Continue(t))
  /\ \A k \in Tasks :
       /\ WF_vars(tpc[k] # "stream" /\ TaskStep(k))
       /\ SF_vars(Cancel(k))

FairSpec == Spec /\ Fairness
-----------------------------------------------------------------------------
(* Properties.                                                              *)

\* The type of every variable; a task never counts more than max_retries.
TypeOK ==
  /\ state \in States
  /\ claimed \subseteq States
  /\ sseTask \in Tasks \cup {NoTask}
  /\ lastEventId \in 0..MaxEvents
  /\ pc \in [Threads -> {"idle", "check", "claim", "submit", "store", "closing", "closed"}]
  /\ mine \in [Threads -> Tasks \cup {NoTask}]
  /\ tpc \in [Tasks -> TaskPc]
  /\ retries \in [Tasks -> 0..MaxRetries]
  /\ pos \in [Tasks -> 0..MaxEvents]
  /\ why \in [Tasks -> {"clean", "transport", "bad_event", "cancel"}]
  /\ cancelled \subseteq Tasks
  /\ applied \in Seq(1..MaxEvents)

\* However many connections break and resume, every event is applied once and
\* in order: the id remembered is that of the last event applied.
ResumesWhereItLeft == applied = [n \in 1..lastEventId |-> n]

\* The store says connected only while a stream is open: the optimizers do not
\* take the models of a broken connection for current ones.
ConnectedMeansOpen == state = "connected" => \E k \in Tasks : tpc[k] = "stream"

\* A store that says disconnected is never left so: some stream is on its way to
\* connect again or to declare the store dead, however many callers and streams
\* there are (store.py:83-101).
DisconnectedIsMended ==
  state = "disconnected" =>
    \E k \in Tasks : tpc[k] \in {"unwind", "attempt", "connect", "backoff"}

\* A broken connection is repaired or the store declared dead.
RepairedOrDead == state = "disconnected" ~> state \in {"connected", "dead"}

\* Once close has returned, the store ends up dead for good and no stream runs.
CloseIsFinal ==
  \A t \in Threads :
    pc[t] = "closed" ~> [](state = "dead" /\ \A k \in Tasks : ~Running(k))

\* Only one thread starts the stream.
SingleStream == \A j, k \in Tasks : Running(j) /\ Running(k) => j = k

\* The store leaves the dead state only through a stream that was running when
\* close cancelled it, and never by a new connection (store.py:87-101 and 151-155).
DeadOnlyLeftUnwinding ==
  [][state = "dead" /\ state' # "dead" => \E k \in cancelled : Running(k)]_vars
=============================================================================
