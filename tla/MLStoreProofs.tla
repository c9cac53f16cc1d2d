--------------------------- MODULE MLStoreProofs ---------------------------
(***************************************************************************)
(* Theorems about the two parts of the ML store.                           *)
(*                                                                         *)
(* MLStore, for every number of threads, tasks, retries and events: what a *)
(* single caller is promised is stated with OneCaller, since with two the  *)
(* run ml_double_start refutes it.                                         *)
(*                                                                         *)
(* CategoryModels, for any number of samples, configurations and updates:  *)
(* what a stream repeats leaves no trace, and no copy is replaced by an    *)
(* older one.                                                              *)
(***************************************************************************)
EXTENDS MLStore, CategoryModels, WellFoundedInduction, TLAPS

\* A task that has begun an attempt had a retry left.
RetryLeft ==
  \A k \in Tasks :
    tpc[k] \in {"connect", "stream", "unwind", "backoff"} => retries[k] < MaxRetries

TypeInv == TypeOK /\ RetryLeft

\* The initial state is typed.
LEMMA TypeInvInit == Init => TypeInv
<1> SUFFICES ASSUME Init PROVE TypeInv
  OBVIOUS
<1>1. applied \in Seq(1..MaxEvents)
  BY DEF Init
<1> QED
  BY <1>1, StoreAssumption DEF Init, TypeInv, TypeOK, RetryLeft, States, TaskPc

\* A step of an application thread preserves the types.
LEMMA TypeInvCaller ==
  ASSUME TypeInv, NEW t \in Threads, CallConnected(t) \/ Close(t) \/ Continue(t)
  PROVE  TypeInv'
<1> USE StoreAssumption DEF TypeInv, TypeOK, RetryLeft, States, TaskPc,
        store, caller, task, Goto, Move
<1>1. CASE CallConnected(t)
  BY <1>1 DEF CallConnected
<1>2. CASE Close(t)
  BY <1>2 DEF Close
<1>3. CASE CheckState(t)
  BY <1>3 DEF CheckState
<1>4. CASE Claim(t)
  BY <1>4 DEF Claim
<1>5. CASE SubmitFails(t)
  BY <1>5 DEF SubmitFails
<1>6. CASE StoreTask(t)
  BY <1>6 DEF StoreTask
<1>7. ASSUME NEW k \in Tasks, Submit(t, k) PROVE TypeInv'
  BY <1>7 DEF Submit
<1>8. CASE CloseMarks(t)
  BY <1>8 DEF CloseMarks, MarkDead
<1>9. CASE CloseReturns(t)
  BY <1>9 DEF CloseReturns
<1> QED
  BY <1>1, <1>2, <1>3, <1>4, <1>5, <1>6, <1>7, <1>8, <1>9 DEF Continue

\* A step of a stream task preserves the types.
LEMMA TypeInvTask ==
  ASSUME TypeInv, NEW k \in Tasks, TaskStep(k) \/ Cancel(k)
  PROVE  TypeInv'
<1> USE StoreAssumption DEF TypeInv, TypeOK, RetryLeft, States, TaskPc,
        store, caller, task, Move
<1>0. 0 \in 0..MaxRetries /\ 1 \in 0..MaxRetries
  OBVIOUS
<1>1. CASE TaskStarts(k)
  BY <1>1 DEF TaskStarts
<1>2. CASE Attempt(k)
  <2>1. CASE Exit(k) /\ UNCHANGED <<caller, cancelled>>
    BY <2>1 DEF Exit, MarkDead
  <2>2. CASE /\ retries[k] < MaxRetries /\ UNCHANGED <<store, caller, retries, why, cancelled>>
             /\ pos' = [pos EXCEPT ![k] = lastEventId] /\ Move(k, "connect")
    BY <2>2
  <2> QED
    BY <1>2, <2>1, <2>2, Zenon DEF Attempt
<1>3. CASE Connects(k)
  BY <1>3 DEF Connects
<1>4. CASE ConnectFails(k)
  <2>1. CASE retries[k] = 0
    <3>1. retries' \in [Tasks -> 0..MaxRetries] /\ tpc' \in [Tasks -> TaskPc]
      BY <1>0, <1>4, <2>1 DEF ConnectFails, Retry
    <3>2. RetryLeft'
      BY <1>4, <2>1 DEF ConnectFails, Retry
    <3> QED
      BY <1>4, <2>1, <3>1, <3>2 DEF ConnectFails, Retry
  <2>2. CASE retries[k] # 0
    BY <1>4, <2>2 DEF ConnectFails, Retry
  <2> QED
    BY <2>1, <2>2
<1>5. CASE Event(k)
  <2>1. pos[k] + 1 \in 1..MaxEvents
    BY <1>5 DEF Event
  <2>2. applied' \in Seq(1..MaxEvents)
    BY <1>5, <2>1 DEF Event
  <2> QED
    BY <1>5, <2>1, <2>2 DEF Event
<1>6. ASSUME NEW r \in {"clean", "transport", "bad_event"}, StreamEnds(k, r) PROVE TypeInv'
  BY <1>6 DEF StreamEnds
<1>7. CASE Unwind(k)
  <2>1. CASE why[k] = "clean"
    <3>0. retries' = [retries EXCEPT ![k] = 0] /\ tpc' = [tpc EXCEPT ![k] = "attempt"]
      BY <1>7, <2>1 DEF Unwind
    <3>1. retries' \in [Tasks -> 0..MaxRetries] /\ tpc' \in [Tasks -> TaskPc]
      BY <1>0, <3>0
    <3>2. RetryLeft'
      BY <1>7, <2>1 DEF Unwind
    <3> QED
      BY <1>7, <2>1, <3>1, <3>2 DEF Unwind
  <2>2. CASE why[k] = "transport" /\ retries[k] = 0
    <3>1. retries' \in [Tasks -> 0..MaxRetries] /\ tpc' \in [Tasks -> TaskPc]
      BY <1>0, <1>7, <2>2 DEF Unwind, Retry
    <3>2. RetryLeft'
      BY <1>7, <2>2 DEF Unwind, Retry
    <3> QED
      BY <1>7, <2>2, <3>1, <3>2 DEF Unwind, Retry
  <2>3. CASE why[k] = "transport" /\ retries[k] # 0
    BY <1>7, <2>3 DEF Unwind, Retry
  <2>4. CASE why[k] \in {"bad_event", "cancel"}
    BY <1>7, <2>4 DEF Unwind, Exit, MarkDead
  <2> QED
    BY <2>1, <2>2, <2>3, <2>4
<1>8. CASE Backoff(k)
  BY <1>8 DEF Backoff
<1>9. CASE Cancel(k)
  BY <1>9, ZenonT(30) DEF Cancel, Exit, MarkDead
<1> QED
  BY <1>1, <1>2, <1>3, <1>4, <1>5, <1>6, <1>7, <1>8, <1>9 DEF TaskStep

\* A stuttering step preserves TypeInv.
LEMMA TypeInvStutter == ASSUME TypeInv, UNCHANGED vars PROVE TypeInv'
  BY DEF vars, store, caller, task, TypeInv, TypeOK, RetryLeft

\* TypeInv is inductive.
LEMMA TypeInvNext == TypeInv /\ [Next]_vars => TypeInv'
  BY TypeInvCaller, TypeInvTask, TypeInvStutter DEF Next

\* Every variable keeps its type; in particular a task never counts more retries
\* than max_retries, nor remembers an event the server does not have.
THEOREM Typed == Spec => []TypeOK
<1>1. TypeInv => TypeOK
  BY DEF TypeInv
<1> QED
  BY <1>1, TypeInvInit, TypeInvNext, PTL DEF Spec
-----------------------------------------------------------------------------
(* The store says connected only while a stream is open.                    *)

\* Only Connects makes the store connected, and whatever ends a stream makes it
\* disconnected.
LEMMA ConnectedNext ==
  ASSUME TypeOK, ConnectedMeansOpen, [Next]_vars
  PROVE  ConnectedMeansOpen'
<1> USE DEF TypeOK, ConnectedMeansOpen, States, TaskPc, store, caller, task, Move
<1>1. ASSUME NEW t \in Threads, CallConnected(t) \/ Close(t) \/ Continue(t)
      PROVE  ConnectedMeansOpen'
  <2>1. CASE CallConnected(t) \/ Close(t)
    BY <2>1 DEF CallConnected, Close
  <2>2. CASE CheckState(t) \/ Claim(t) \/ SubmitFails(t) \/ StoreTask(t)
    BY <2>2 DEF CheckState, Claim, SubmitFails, StoreTask
  <2>3. ASSUME NEW k \in Tasks, Submit(t, k) PROVE ConnectedMeansOpen'
    BY <2>3 DEF Submit
  <2>4. CASE CloseMarks(t) \/ CloseReturns(t)
    BY <2>4 DEF CloseMarks, CloseReturns, MarkDead
  <2> QED
    BY <1>1, <2>1, <2>2, <2>3, <2>4 DEF Continue
<1>2. ASSUME NEW k \in Tasks, TaskStep(k) \/ Cancel(k)
      PROVE  ConnectedMeansOpen'
  <2>1. CASE TaskStarts(k) \/ Backoff(k)
    BY <2>1 DEF TaskStarts, Backoff
  <2>2. CASE Attempt(k)
    BY <2>2 DEF Attempt, Exit, MarkDead
  <2>3. CASE Connects(k)
    BY <2>3 DEF Connects
  <2>4. CASE ConnectFails(k)
    BY <2>4 DEF ConnectFails, Retry
  <2>5. CASE Event(k)
    BY <2>5 DEF Event
  <2>6. ASSUME NEW r \in {"clean", "transport", "bad_event"}, StreamEnds(k, r)
        PROVE  ConnectedMeansOpen'
    BY <2>6 DEF StreamEnds
  <2>7. CASE Unwind(k)
    BY <2>7 DEF Unwind, Retry, Exit, MarkDead
  <2>8. CASE Cancel(k)
    BY <2>8 DEF Cancel, Exit, MarkDead
  <2> QED
    BY <1>2, <2>1, <2>2, <2>3, <2>4, <2>5, <2>6, <2>7, <2>8 DEF TaskStep
<1>3. CASE UNCHANGED vars
  BY <1>3 DEF vars
<1> QED
  BY <1>1, <1>2, <1>3 DEF Next

\* Whatever the callers, the server and the connections do, the optimizers find
\* the store connected only while a stream is open.
THEOREM ConnectedIsOpen == Spec => []ConnectedMeansOpen
<1>1. Init => ConnectedMeansOpen
  BY DEF Init, ConnectedMeansOpen
<1>2. TypeOK /\ ConnectedMeansOpen /\ [Next]_vars => ConnectedMeansOpen'
  BY ConnectedNext
<1> QED
  BY <1>1, <1>2, Typed, PTL DEF Spec

\* A stream that makes the store disconnected goes on until it has connected or ended,
\* and either of these takes the store out of that state.
LEMMA MendedNext ==
  ASSUME TypeOK, DisconnectedIsMended, [Next]_vars
  PROVE  DisconnectedIsMended'
<1> DEFINE Mending(k) == tpc[k] \in {"unwind", "attempt", "connect", "backoff"}
<1>0. tpc \in [Tasks -> TaskPc] /\ retries \in [Tasks -> 0..MaxRetries]
  BY DEF TypeOK
<1>1. ASSUME state' = state, \A k \in Tasks : Mending(k) => Mending(k)'
      PROVE  DisconnectedIsMended'
  BY <1>1 DEF DisconnectedIsMended
<1>2. ASSUME NEW k, Exit(k) PROVE DisconnectedIsMended'
  BY <1>2 DEF Exit, MarkDead, DisconnectedIsMended
<1>3. ASSUME NEW k \in Tasks, Mending(k), Retry(k) PROVE DisconnectedIsMended'
  BY <1>0, <1>1, <1>3 DEF Retry, Move, store
<1>4. ASSUME NEW t \in Threads, CallConnected(t) \/ Close(t) \/ Continue(t)
      PROVE  DisconnectedIsMended'
  <2>1. CASE CallConnected(t) \/ Close(t) \/ CheckState(t) \/ Claim(t) \/ SubmitFails(t)
             \/ StoreTask(t) \/ CloseReturns(t)
    BY <1>1, <2>1 DEF CallConnected, Close, CheckState, Claim, SubmitFails, StoreTask, CloseReturns,
                      store, task
  <2>2. ASSUME NEW k \in Tasks, Submit(t, k) PROVE DisconnectedIsMended'
    BY <1>0, <1>1, <2>2 DEF Submit, Move, store
  <2>3. CASE CloseMarks(t)
    BY <2>3 DEF CloseMarks, MarkDead, DisconnectedIsMended
  <2> QED
    BY <1>4, <2>1, <2>2, <2>3 DEF Continue
<1>5. ASSUME NEW k \in Tasks, TaskStep(k) \/ Cancel(k) PROVE DisconnectedIsMended'
  <2>1. CASE TaskStarts(k) \/ Backoff(k)
    BY <1>0, <1>1, <2>1 DEF TaskStarts, Backoff, Move, store
  <2>2. CASE Attempt(k)
    BY <1>0, <1>1, <1>2, <2>2 DEF Attempt, Move, store
  <2>3. CASE Connects(k)
    BY <2>3 DEF Connects, DisconnectedIsMended
  <2>4. CASE ConnectFails(k)
    BY <1>3, <2>4 DEF ConnectFails
  <2>5. CASE Event(k)
    BY <1>1, <2>5 DEF Event
  <2>6. ASSUME tpc[k] = "stream", tpc' = [tpc EXCEPT ![k] = "unwind"] PROVE DisconnectedIsMended'
    BY <1>0, <2>6 DEF DisconnectedIsMended
  <2>7. ASSUME NEW r \in {"clean", "transport", "bad_event"}, StreamEnds(k, r)
        PROVE  DisconnectedIsMended'
    BY <2>6, <2>7 DEF StreamEnds, Move
  <2>8. CASE Unwind(k)
    BY <1>0, <1>1, <1>2, <1>3, <2>8 DEF Unwind, Move, store
  <2>9. CASE Cancel(k)
    BY <1>0, <1>1, <1>2, <2>6, <2>9 DEF Cancel, Move, store
  <2> QED
    BY <1>5, <2>1, <2>2, <2>3, <2>4, <2>5, <2>7, <2>8, <2>9 DEF TaskStep
<1>6. CASE UNCHANGED vars
  BY <1>1, <1>6 DEF vars, store, task
<1> QED
  BY <1>4, <1>5, <1>6 DEF Next

\* _mark_disconnected, _mark_connected and _mark_dead: for any number of callers and streams a
\* store is not left disconnected without a stream that will connect or declare it dead.
THEOREM Mended == Spec => []DisconnectedIsMended
<1>1. Init => DisconnectedIsMended
  BY DEF Init, DisconnectedIsMended
<1>2. TypeOK /\ DisconnectedIsMended /\ [Next]_vars => DisconnectedIsMended'
  BY MendedNext
<1> QED
  BY <1>1, <1>2, Typed, PTL DEF Spec
-----------------------------------------------------------------------------
(* One caller: there is one stream, which resumes where it left.            *)

OneCaller == \A s, t \in Threads : s = t

Unused == \A k \in Tasks : tpc[k] = "unused"

\* Only the store's own dict is ever claimed, and before that no task is used.
ClaimOK == claimed \subseteq {"own"} /\ (claimed = {} => Unused)

\* From the check to the submission the caller knows that there is no stream;
\* once it is in close, the stream that runs has been cancelled.
CallerOK ==
  \A t \in Threads :
    /\ pc[t] = "claim" => claimed = {}
    /\ pc[t] = "submit" => claimed # {}
    /\ pc[t] \in {"claim", "submit"} => state = "own" /\ Unused
    /\ pc[t] = "closing" => \A k \in Tasks : Running(k) => k \in cancelled

OneTask == \A j, k \in Tasks : tpc[j] # "unused" /\ tpc[k] # "unused" => j = k

\* A stream nobody has cancelled is known: to the store, or to the caller that
\* is about to store it.
KnownOK ==
  \A t \in Threads : \A k \in Tasks :
    Running(k) /\ k \notin cancelled => IF pc[t] = "store" THEN mine[t] = k ELSE sseTask = k

DeadOK == state = "dead" => \A k \in Tasks : Running(k) => k \in cancelled

StreamInv == ClaimOK /\ CallerOK /\ OneTask /\ KnownOK /\ DeadOK

\* At the start nothing is claimed and no task has been created.
LEMMA StreamInvInit == Init => StreamInv
  BY DEF Init, StreamInv, ClaimOK, Unused, CallerOK, OneTask, KnownOK, DeadOK, Running

\* The steps of the only caller.
LEMMA StreamInvCaller ==
  ASSUME OneCaller, TypeOK, StreamInv,
         NEW t \in Threads, CallConnected(t) \/ Close(t) \/ Continue(t)
  PROVE  StreamInv'
<1> USE StoreAssumption DEF OneCaller, StreamInv, ClaimOK, Unused, CallerOK, OneTask, KnownOK,
        DeadOK, Running, TypeOK, States, TaskPc, store, caller, task, Goto, Move
<1>1. CASE CallConnected(t)
  BY <1>1 DEF CallConnected
<1>2. CASE Close(t)
  <2>1. \A k \in Tasks : Running(k) => k \in cancelled'
    BY <1>2 DEF Close
  <2> QED
    BY <1>2, <2>1 DEF Close
<1>3. CASE CheckState(t)
  <2>1. CallerOK'
    BY <1>3 DEF CheckState
  <2> QED
    BY <1>3, <2>1 DEF CheckState
<1>4. CASE Claim(t)
  BY <1>4 DEF Claim
<1>5. CASE SubmitFails(t)
  BY <1>5 DEF SubmitFails
<1>6. CASE StoreTask(t)
  BY <1>6 DEF StoreTask
<1>7. ASSUME NEW k \in Tasks, Submit(t, k) PROVE StreamInv'
  <2>1. Unused /\ state = "own" /\ claimed # {}
    BY <1>7 DEF Submit
  <2>2. tpc' = [tpc EXCEPT ![k] = "scheduled"] /\ pc' = [pc EXCEPT ![t] = "store"]
    BY <1>7 DEF Submit
  <2>3. \A j \in Tasks : tpc'[j] # "unused" => j = k
    BY <2>1, <2>2
  <2>4. OneTask' /\ ClaimOK' /\ DeadOK'
    BY <1>7, <2>1, <2>3 DEF Submit
  <2>5. \A s \in Threads : pc'[s] = "store"
    BY <2>2
  <2>6. CallerOK'
    BY <2>5
  <2>7. KnownOK'
    BY <1>7, <2>2, <2>3 DEF Submit
  <2> QED
    BY <2>4, <2>6, <2>7
<1>8. CASE CloseMarks(t)
  BY <1>8 DEF CloseMarks, MarkDead
<1>9. CASE CloseReturns(t)
  BY <1>9 DEF CloseReturns
<1> QED
  BY <1>1, <1>2, <1>3, <1>4, <1>5, <1>6, <1>7, <1>8, <1>9 DEF Continue

\* What the steps of a stream have in common: it was running, and as long as it
\* is it neither makes the store dead nor makes it forget the task.
TaskShape(k) ==
  /\ Running(k)
  /\ \E p \in TaskPc \ {"unused"} : tpc' = [tpc EXCEPT ![k] = p]
  /\ UNCHANGED <<claimed, pc, mine, cancelled>>
  /\ Running(k)' => sseTask' = sseTask
  /\ Running(k)' => (state' = "dead" => state = "dead")

\* Every step of a task has that shape.
LEMMA TaskStepShape ==
  ASSUME TypeOK, NEW k \in Tasks, TaskStep(k) \/ Cancel(k)
  PROVE  TaskShape(k)
<1> USE DEF TaskShape, Running, TypeOK, TaskPc, store, caller, task, Move
<1>1. CASE TaskStarts(k) \/ Backoff(k)
  BY <1>1 DEF TaskStarts, Backoff
<1>2. CASE Attempt(k)
  BY <1>2 DEF Attempt, Exit, MarkDead
<1>3. CASE Connects(k)
  BY <1>3 DEF Connects
<1>4. CASE ConnectFails(k)
  BY <1>4 DEF ConnectFails, Retry
<1>5. CASE Event(k)
  <2>1. tpc' = [tpc EXCEPT ![k] = "stream"]
    BY <1>5 DEF Event
  <2> QED
    BY <1>5, <2>1 DEF Event
<1>6. ASSUME NEW r \in {"clean", "transport", "bad_event"}, StreamEnds(k, r) PROVE TaskShape(k)
  BY <1>6 DEF StreamEnds
<1>7. CASE Unwind(k)
  BY <1>7 DEF Unwind, Retry, Exit, MarkDead
<1>8. CASE Cancel(k)
  BY <1>8 DEF Cancel, Exit, MarkDead
<1> QED
  BY <1>1, <1>2, <1>3, <1>4, <1>5, <1>6, <1>7, <1>8 DEF TaskStep

\* The steps of a stream: it is the only one.
LEMMA StreamInvTask ==
  ASSUME TypeOK, StreamInv, NEW k \in Tasks, TaskStep(k) \/ Cancel(k)
  PROVE  StreamInv'
<1>1. TaskShape(k)
  BY TaskStepShape
<1>2. \A j \in Tasks \ {k} : tpc[j] = "unused" /\ tpc'[j] = "unused"
  BY <1>1 DEF TaskShape, StreamInv, OneTask, Running, TypeOK
<1>3. ~Unused /\ ~Unused' /\ claimed # {}
  BY <1>1 DEF TaskShape, StreamInv, ClaimOK, Unused, Running, TypeOK
<1>4. \A j \in Tasks : Running(j)' => j = k /\ Running(k)
  BY <1>1, <1>2 DEF TaskShape, Running
<1>5. ClaimOK' /\ OneTask'
  BY <1>1, <1>2, <1>3 DEF TaskShape, StreamInv, ClaimOK, OneTask
<1>6. CallerOK'
  BY <1>1, <1>3, <1>4 DEF TaskShape, StreamInv, CallerOK
<1>7. KnownOK'
  BY <1>1, <1>4 DEF TaskShape, StreamInv, KnownOK
<1>8. DeadOK'
  BY <1>1, <1>4 DEF TaskShape, StreamInv, DeadOK
<1> QED
  BY <1>5, <1>6, <1>7, <1>8 DEF StreamInv

\* With one caller, StreamInv is inductive.
LEMMA StreamInvNext ==
  ASSUME OneCaller
  PROVE  TypeOK /\ StreamInv /\ [Next]_vars => StreamInv'
<1>1. CASE UNCHANGED vars
  BY <1>1 DEF vars, store, caller, task, StreamInv, ClaimOK, Unused, CallerOK, OneTask, KnownOK,
             DeadOK, Running
<1> QED
  BY <1>1, StreamInvCaller, StreamInvTask DEF Next

\* With one caller, StreamInv holds throughout.
LEMMA StreamInvHolds ==
  ASSUME OneCaller
  PROVE  Spec => []StreamInv
<1>1. TypeOK /\ StreamInv /\ [Next]_vars => StreamInv'
  BY StreamInvNext
<1> QED
  BY <1>1, StreamInvInit, Typed, PTL DEF Spec

\* A single caller never starts a second stream, however often it calls connected,
\* closes, or finds that the submission failed.
THEOREM OneStream ==
  ASSUME OneCaller
  PROVE  Spec => []SingleStream
<1>1. StreamInv => SingleStream
  BY DEF StreamInv, OneTask, SingleStream, Running
<1> QED
  BY <1>1, StreamInvHolds, PTL

\* A single caller that has closed the store finds it dead for good: only the
\* stream it has cancelled itself may take it out of the dead state on its way out.
THEOREM DeadIsLeftUnwinding ==
  ASSUME OneCaller
  PROVE  Spec => DeadOnlyLeftUnwinding
<1>1. ASSUME TypeOK, StreamInv, Next, state = "dead", state' # "dead"
      PROVE  \E k \in cancelled : Running(k)
  <2>1. ASSUME NEW t \in Threads, CallConnected(t) \/ Close(t) \/ Continue(t) PROVE FALSE
    BY <1>1, <2>1 DEF CallConnected, Close, Continue, CheckState, Claim, SubmitFails, StoreTask,
                      Submit, CloseMarks, CloseReturns, MarkDead, store
  <2>2. ASSUME NEW k \in Tasks, TaskStep(k) \/ Cancel(k) PROVE Running(k)
    BY <1>1, <2>2, TaskStepShape DEF TaskShape
  <2> QED
    BY <1>1, <2>1, <2>2 DEF Next, StreamInv, DeadOK
<1>2. TypeOK /\ StreamInv /\ [Next]_vars
        => [state = "dead" /\ state' # "dead" => \E k \in cancelled : Running(k)]_vars
  BY <1>1
<1> QED
  BY <1>2, StreamInvHolds, Typed, PTL DEF Spec, DeadOnlyLeftUnwinding
-----------------------------------------------------------------------------
\* The id remembered is that of the last event applied, and an open stream, or one
\* that is being connected, goes on after it.
ResumeInv ==
  /\ ResumesWhereItLeft
  /\ \A k \in Tasks : tpc[k] \in {"connect", "stream"} => pos[k] = lastEventId

\* ResumeInv is inductive relative to StreamInv.
LEMMA ResumeInvNext ==
  ASSUME TypeOK, StreamInv, ResumeInv, [Next]_vars
  PROVE  ResumeInv'
<1> USE DEF ResumeInv, ResumesWhereItLeft, TypeOK, TaskPc, store, caller, task, Move
<1>1. ASSUME NEW t \in Threads, CallConnected(t) \/ Close(t) \/ Continue(t)
      PROVE  ResumeInv'
  <2>1. UNCHANGED <<lastEventId, applied, pos>>
    BY <1>1 DEF CallConnected, Close, Continue, CheckState, Claim, SubmitFails, StoreTask,
                Submit, CloseMarks, CloseReturns
  <2>2. \A k \in Tasks : tpc'[k] \in {"connect", "stream"} => tpc'[k] = tpc[k]
    BY <1>1 DEF CallConnected, Close, Continue, CheckState, Claim, SubmitFails, StoreTask,
                Submit, CloseMarks, CloseReturns
  <2> QED
    BY <2>1, <2>2
<1>2. ASSUME NEW k \in Tasks, TaskStep(k) \/ Cancel(k)
      PROVE  ResumeInv'
  <2>1. CASE Event(k)
    <3>1. \A j \in Tasks \ {k} : tpc[j] = "unused"
      BY <2>1 DEF Event, StreamInv, OneTask
    <3>2. pos[k] = lastEventId /\ lastEventId' = lastEventId + 1
      BY <2>1 DEF Event
    <3>3. applied' = [n \in 1..lastEventId' |-> n]
      BY <2>1, <3>2 DEF Event
    <3> QED
      BY <2>1, <3>1, <3>2, <3>3 DEF Event
  <2>2. CASE TaskStarts(k) \/ Backoff(k)
    BY <2>2 DEF TaskStarts, Backoff
  <2>3. CASE Attempt(k)
    BY <2>3 DEF Attempt, Exit
  <2>4. CASE Connects(k)
    BY <2>4 DEF Connects
  <2>5. CASE ConnectFails(k)
    BY <2>5 DEF ConnectFails, Retry
  <2>6. ASSUME NEW r \in {"clean", "transport", "bad_event"}, StreamEnds(k, r) PROVE ResumeInv'
    BY <2>6 DEF StreamEnds
  <2>7. CASE Unwind(k)
    BY <2>7 DEF Unwind, Retry, Exit
  <2>8. CASE Cancel(k)
    BY <2>8 DEF Cancel, Exit
  <2> QED
    BY <1>2, <2>1, <2>2, <2>3, <2>4, <2>5, <2>6, <2>7, <2>8 DEF TaskStep
<1>3. CASE UNCHANGED vars
  BY <1>3 DEF vars
<1> QED
  BY <1>1, <1>2, <1>3 DEF Next

\* With a single caller every event is applied once and in order, through any
\* number of broken connections.
THEOREM Resumes ==
  ASSUME OneCaller
  PROVE  Spec => []ResumesWhereItLeft
<1>1. Init => ResumeInv
  <2>1. ASSUME Init PROVE applied = [n \in 1..lastEventId |-> n]
    BY <2>1 DEF Init
  <2> QED
    BY <2>1 DEF Init, ResumeInv, ResumesWhereItLeft
<1>2. TypeOK /\ StreamInv /\ ResumeInv /\ [Next]_vars => ResumeInv'
  BY ResumeInvNext
<1>3. ResumeInv => ResumesWhereItLeft
  BY DEF ResumeInv
<1> QED
  BY <1>1, <1>2, <1>3, StreamInvHolds, Typed, PTL DEF Spec
-----------------------------------------------------------------------------
(* The merge of model updates.                                              *)

\* The variables have their types, and a model is the one its last update left.
ModelTypes ==
  /\ changes \in [1..LastUpdate -> [Hashes -> Kinds]]
  /\ confs \in [1..LastUpdate -> Confs]
  /\ model \in Models \cup {NoModel}
  /\ handed \in [Streams -> 0..LastUpdate] /\ seen \in 0..LastUpdate

\* What an update says of a sample whose latest change is in update n.
Said(h, n) == [at |-> n, stable |-> changes[n][h] = "stable"]

\* Each sample of a model is what some update up to that of the model says of it, and
\* is stable.
SamplesSaid ==
  model # NoModel =>
    /\ model.conf = confs[model.at]
    /\ \A h \in DOMAIN model.samples :
         /\ \E n \in Change(h, model.at) : model.samples[h] = Said(h, n)
         /\ model.samples[h].stable

ModelInv == ModelTypes /\ SamplesSaid

\* The configuration of update n is that of the update before it.
SameConf(n) == n > 1 /\ confs[n] = confs[n - 1]

\* Before the first update nothing is known.
Known(n) == IF n = 0 THEN <<>> ELSE Reference(n)

\* Update n takes the sample h away.
TakesAway(n, h) ==
  ~SameConf(n) \/ (h \in DOMAIN SampleUpdates(n) /\ ~SampleUpdates(n)[h].stable)

\* The update whose state a model is in: a model that is not kept is in that of the
\* stream's position.
Reached(s) == IF model = NoModel THEN handed[s] ELSE model.at

CatchUpInv(s) ==
  /\ handed[s] <= Reached(s) /\ Reached(s) <= seen
  /\ \A h \in DOMAIN Samples :
       h \in DOMAIN Known(Reached(s)) /\ Samples[h] = Known(Reached(s))[h]
  /\ \A h \in DOMAIN Known(Reached(s)) \ DOMAIN Samples :
       \E n \in (Reached(s) + 1)..seen : TakesAway(n, h)
-----------------------------------------------------------------------------
(* What the operators return.                                               *)

\* A set of numbers has a least one.
LEMMA LeastOf ==
  ASSUME NEW T \in SUBSET Nat, T # {}
  PROVE  \E k \in T : \A j \in T : k <= j
<1> DEFINE R == OpToRel(<, Nat)
<1>1. IsWellFoundedOn(R, Nat)
  BY NatLessThanWellFounded
<1>2. \A x, y \in Nat : y < x => <<y, x>> \in R
  BY DEF OpToRel
<1> HIDE DEF R
<1>3. T \subseteq Nat
  OBVIOUS
<1>4. PICK k \in T : \A j \in T : ~(<<j, k>> \in R)
  BY <1>1, <1>3, WFMin, Zenon
<1>5. \A j \in T : k \in Nat /\ j \in Nat /\ ~(j < k)
  BY <1>2, <1>3, <1>4
<1> QED
  BY <1>5

\* A set of numbers with a bound has a greatest one.
LEMMA MaxOf ==
  ASSUME NEW n \in Nat, NEW T \in SUBSET (0..n), T # {}
  PROVE  Max(T) \in T /\ \A j \in T : j <= Max(T)
<1>0. \A a, b \in Nat : a <= b /\ a # b => a <= b - 1 /\ b - 1 \in Nat /\ ~(b <= b - 1)
  OBVIOUS
<1> DEFINE Bounds == {k \in Nat : \A j \in T : j <= k}
<1>1. n \in Bounds
  OBVIOUS
<1>2. Bounds # {} /\ Bounds \subseteq Nat
  BY <1>1
<1>3. PICK k \in Bounds : \A j \in Bounds : k <= j
  <2> HIDE DEF Bounds
  <2> QED
    BY <1>2, LeastOf
<1>4. k \in Nat /\ \A j \in T : j <= k
  OBVIOUS
<1>6. k \in T
  <2> SUFFICES ASSUME k \notin T PROVE FALSE
    OBVIOUS
  <2>1. \A j \in T : j \in Nat /\ j <= k /\ j # k
    BY <1>4
  <2>2. \A j \in T : j <= k - 1
    BY <1>0, <1>4, <2>1, Zenon
  <2>3. k - 1 \in Nat /\ ~(k <= k - 1)
    BY <1>0, <1>4, <2>1, Zenon
  <2>4. k - 1 \in Bounds
    BY <2>2, <2>3
  <2> QED
    BY <1>3, <2>3, <2>4
<1>7. \A j \in T : k >= j
  BY <1>4
<1> HIDE DEF Bounds
<1>8. Max(T) \in T /\ \A j \in T : Max(T) >= j
  BY <1>6, <1>7 DEF Max
<1> QED
  BY <1>8

\* An update says of a sample what its latest change made of it.
LEMMA SaysLatest ==
  ASSUME ModelTypes, NEW n \in 1..LastUpdate, NEW h
  PROVE  /\ h \in DOMAIN SampleUpdates(n) <=>
              h \in Hashes /\ changes[n][h] # "absent" /\ Change(h, n) # {}
         /\ h \in DOMAIN SampleUpdates(n) =>
              /\ Max(Change(h, n)) \in Change(h, n)
              /\ \A i \in Change(h, n) : i <= Max(Change(h, n))
              /\ SampleUpdates(n)[h] = Said(h, Max(Change(h, n)))
<1>1. Change(h, n) \in SUBSET (0..n) /\ n \in Nat
  BY ModelsAssumption DEF Change
<1>2. Change(h, n) # {} =>
        Max(Change(h, n)) \in Change(h, n) /\ \A i \in Change(h, n) : i <= Max(Change(h, n))
  BY <1>1, MaxOf
<1> QED
  BY <1>2 DEF SampleUpdates, Said

\* A change that one update looks back on, a later one looks back on too.
LEMMA ChangesStay ==
  ASSUME NEW n \in Nat, NEW m \in Nat, n <= m, NEW h
  PROVE  Change(h, n) \subseteq Change(h, m)
  BY DEF Change

\* What is said of a sample is a sample.
LEMMA SaidTyped ==
  ASSUME ModelTypes, NEW n \in 1..LastUpdate, NEW h, NEW i \in Change(h, n)
  PROVE  Said(h, i) \in SampleUpdate /\ Said(h, i).at = i
  BY ModelsAssumption DEF Change, Said, SampleUpdate

\* The samples of an update are samples by their hash.
LEMMA UpdateTyped ==
  ASSUME ModelTypes, NEW n \in 1..LastUpdate
  PROVE  SampleUpdates(n) \in SampleMaps
<1>1. \A h \in DOMAIN SampleUpdates(n) : h \in Hashes /\ SampleUpdates(n)[h] \in SampleUpdate
  BY SaysLatest, SaidTyped
<1>2. SampleUpdates(n) = [h \in DOMAIN SampleUpdates(n) |-> SampleUpdates(n)[h]]
  BY DEF SampleUpdates
<1>3. DOMAIN SampleUpdates(n) \in SUBSET Hashes
  BY <1>1
<1>4. SampleUpdates(n) \in [DOMAIN SampleUpdates(n) -> SampleUpdate]
  BY <1>1, <1>2
<1> QED
  BY <1>3, <1>4 DEF SampleMaps

\* The configuration of an update is that of the one before it, or a new one begins.
LEMMA SinceWhen ==
  ASSUME NEW n \in 1..LastUpdate
  PROVE  /\ Since(n) \in 1..n
         /\ ~SameConf(n) => Since(n) = n
         /\ SameConf(n) => Since(n) = Since(n - 1)
<1> DEFINE Begins(m) == {i \in 1..m : i = 1 \/ confs[i] # confs[i - 1]}
<1>1. n \in Nat /\ 1 \in Begins(n) /\ Begins(n) \in SUBSET (0..n) /\ Begins(n) \subseteq 1..n
  BY ModelsAssumption
<1>2. Since(n) \in Begins(n) /\ \A j \in Begins(n) : j <= Since(n)
  <2>1. Since(n) = Max(Begins(n))
    BY DEF Since
  <2> HIDE DEF Begins
  <2> QED
    BY <1>1, <2>1, MaxOf
<1>3. ~SameConf(n) => Since(n) = n
  <2>1. ~SameConf(n) => n \in Begins(n)
    BY <1>1 DEF SameConf
  <2>2. Since(n) \in 1..n
    BY <1>1, <1>2
  <2> HIDE DEF Begins
  <2> QED
    BY <1>1, <1>2, <2>1, <2>2
<1>4. SameConf(n) => Since(n) = Since(n - 1)
  <2> SUFFICES ASSUME SameConf(n) PROVE Begins(n) = Begins(n - 1)
    BY DEF Since
  <2>1. n > 1 /\ confs[n] = confs[n - 1]
    BY DEF SameConf
  <2>2. \A i \in 1..n : i = n \/ i \in 1..(n - 1)
    BY <1>1
  <2>3. \A i \in 1..(n - 1) : i \in 1..n
    BY <1>1
  <2> QED
    BY <2>1, <2>2, <2>3
<1> QED
  BY <1>1, <1>2, <1>3, <1>4

\* What a model that missed nothing holds after an update is what the update says, and
\* what it held before while the configuration is the same.
LEMMA ReferenceStep ==
  ASSUME ModelTypes, NEW n \in 1..LastUpdate, NEW h
  PROVE  /\ h \in DOMAIN SampleUpdates(n) =>
              /\ h \in DOMAIN Reference(n) <=> SampleUpdates(n)[h].stable
              /\ h \in DOMAIN Reference(n) => Reference(n)[h] = SampleUpdates(n)[h]
         /\ h \notin DOMAIN SampleUpdates(n) =>
              /\ h \in DOMAIN Reference(n) <=> SameConf(n) /\ h \in DOMAIN Reference(n - 1)
              /\ h \in DOMAIN Reference(n) => Reference(n)[h] = Reference(n - 1)[h]
<1>1. /\ n \in Nat /\ Since(n) \in 1..n
      /\ ~SameConf(n) => Since(n) = n
      /\ SameConf(n) => Since(n) = Since(n - 1)
  BY ModelsAssumption, SinceWhen
<1>2. CASE h \in DOMAIN SampleUpdates(n)
  <2>1. n \in Mentions(h, n) /\ Mentions(h, n) \in SUBSET (0..n)
    BY <1>1, <1>2 DEF Mentions
  <2>2. Max(Mentions(h, n)) \in Mentions(h, n) /\ n <= Max(Mentions(h, n))
    BY <1>1, <2>1, MaxOf
  <2>3. Max(Mentions(h, n)) = n
    BY <1>1, <2>1, <2>2
  <2>4. Latest(h, n) = SampleUpdates(n)[h]
    BY <2>3 DEF Latest
  <2>5. h \in Hashes
    BY <1>2, SaysLatest
  <2> QED
    BY <1>2, <2>1, <2>4, <2>5 DEF Reference
<1>3. CASE h \notin DOMAIN SampleUpdates(n) /\ ~SameConf(n)
  <2>1. Mentions(h, n) = {}
    BY <1>1, <1>3 DEF Mentions
  <2> QED
    BY <1>3, <2>1 DEF Reference
<1>4. CASE h \notin DOMAIN SampleUpdates(n) /\ SameConf(n)
  <2>1. Mentions(h, n) = Mentions(h, n - 1)
    <3>1. \A i \in Since(n)..n : i = n \/ i \in Since(n)..(n - 1)
      BY <1>1
    <3>2. \A i \in Since(n)..(n - 1) : i \in Since(n)..n
      BY <1>1
    <3> QED
      BY <1>1, <1>4, <3>1, <3>2 DEF Mentions
  <2>2. Latest(h, n) = Latest(h, n - 1)
    BY <2>1 DEF Latest
  <2> QED
    BY <1>4, <2>1, <2>2 DEF Reference
<1> QED
  BY <1>2, <1>3, <1>4

\* The same from before the first update on.
LEMMA KnownStep ==
  ASSUME ModelTypes, NEW n \in 1..LastUpdate, NEW h
  PROVE  /\ h \in DOMAIN SampleUpdates(n) =>
              /\ h \in DOMAIN Known(n) <=> SampleUpdates(n)[h].stable
              /\ h \in DOMAIN Known(n) => Known(n)[h] = SampleUpdates(n)[h]
         /\ h \notin DOMAIN SampleUpdates(n) =>
              /\ h \in DOMAIN Known(n) <=> SameConf(n) /\ h \in DOMAIN Known(n - 1)
              /\ h \in DOMAIN Known(n) => Known(n)[h] = Known(n - 1)[h]
<1>1. n # 0 /\ Known(n) = Reference(n)
  BY DEF Known
<1>2. SameConf(n) => Known(n - 1) = Reference(n - 1)
  BY ModelsAssumption DEF SameConf, Known
<1> QED
  BY <1>1, <1>2, ReferenceStep
-----------------------------------------------------------------------------
(* What an update does to a model.                                          *)

\* The samples that an update is merged into.
Base(n) == IF model # NoModel /\ model.conf = confs[n] THEN model.samples ELSE <<>>

Skips(n) == model # NoModel /\ model.at >= n

\* A sample that no update has mentioned.
LEMMA NoSamples == \A h : h \notin DOMAIN <<>>
  OBVIOUS

\* The samples of a model are what is kept of its base, and what is accepted.
LEMMA MergedAt ==
  ASSUME NEW base, NEW samples, NEW h
  PROVE  LET keeps == /\ h \in DOMAIN base
                      /\ h \in DOMAIN samples => base[h].at >= samples[h].at
         IN /\ h \in DOMAIN Merged(base, samples) <=>
                 keeps \/ (h \in DOMAIN samples /\ samples[h].stable)
            /\ h \in DOMAIN Merged(base, samples) =>
                 Merged(base, samples)[h] = IF keeps THEN base[h] ELSE samples[h]
  BY DEF Merged

\* An update that is not skipped leaves what it says, and of the samples that it says
\* nothing of, those of the model for the same configuration.
LEMMA Applied ==
  ASSUME ModelInv, NEW n \in 1..LastUpdate, ~Skips(n)
  PROVE  \E samples \in SampleMaps :
           /\ Updated(Update(n)) = Kept(Update(n), samples)
           /\ \A h :
                /\ h \in DOMAIN SampleUpdates(n) =>
                     /\ h \in DOMAIN samples <=> SampleUpdates(n)[h].stable
                     /\ h \in DOMAIN samples => samples[h] = SampleUpdates(n)[h]
                /\ h \notin DOMAIN SampleUpdates(n) =>
                     /\ h \in DOMAIN samples <=> h \in DOMAIN Base(n)
                     /\ h \in DOMAIN samples => samples[h] = Base(n)[h]
<1> DEFINE says == SampleUpdates(n)
           samples == IF model = NoModel THEN StableOnly(says) ELSE Merged(Base(n), says)
<1>1. /\ n \in Nat /\ says \in SampleMaps /\ ModelTypes
      /\ Update(n).samples = says /\ Update(n).at = n /\ Update(n).conf = confs[n]
  BY ModelsAssumption, UpdateTyped DEF ModelInv, Update
<1>2. Updated(Update(n)) = Kept(Update(n), samples)
  BY <1>1 DEF Updated, Skips, Base
<1>3. ASSUME NEW h \in DOMAIN Base(n)
      PROVE  /\ Base(n)[h] \in SampleUpdate /\ Base(n)[h].stable /\ h \in Hashes
             /\ h \in DOMAIN says /\ Base(n)[h].at >= says[h].at => Base(n)[h] = says[h]
  <2>1. model # NoModel /\ h \in DOMAIN model.samples /\ Base(n)[h] = model.samples[h]
    BY <1>3, NoSamples DEF Base
  <2>2. model \in Models /\ model.samples \in SampleMaps /\ model.at \in 1..LastUpdate
    BY <1>1, <2>1 DEF ModelTypes, Models
  <2>3. model.samples[h] \in SampleUpdate /\ h \in Hashes
    BY <2>1, <2>2 DEF SampleMaps
  <2>4. model.samples[h].stable
    BY <2>1 DEF ModelInv, SamplesSaid
  <2>5. PICK i \in Change(h, model.at) : model.samples[h] = Said(h, i)
    BY <2>1 DEF ModelInv, SamplesSaid
  <2>6. i \in Change(h, n)
    <3>1. model.at \in Nat /\ model.at <= n
      BY <1>1, <2>1, <2>2, ModelsAssumption DEF Skips
    <3> QED
      BY <1>1, <2>5, <3>1, ChangesStay
  <2>7. ASSUME h \in DOMAIN says, Base(n)[h].at >= says[h].at PROVE Base(n)[h] = says[h]
    <3> DEFINE k == Max(Change(h, n))
    <3>1. k \in Change(h, n) /\ i <= k /\ says[h] = Said(h, k)
      BY <1>1, <2>6, <2>7, SaysLatest
    <3>2. Said(h, k).at = k /\ Said(h, i).at = i
      BY <1>1, <2>6, <3>1, SaidTyped
    <3>3. k \in Nat /\ i \in Nat
      BY <2>6, <3>1, ModelsAssumption DEF Change
    <3> HIDE DEF k
    <3>4. i = k
      BY <2>1, <2>5, <2>7, <3>1, <3>2, <3>3
    <3> QED
      BY <2>1, <2>5, <3>1, <3>4
  <2> QED
    BY <2>1, <2>3, <2>4, <2>7
<1>4. ASSUME NEW h
      PROVE  /\ h \in DOMAIN says =>
                  /\ h \in DOMAIN samples <=> says[h].stable
                  /\ h \in DOMAIN samples => samples[h] = says[h]
             /\ h \notin DOMAIN says =>
                  /\ h \in DOMAIN samples <=> h \in DOMAIN Base(n)
                  /\ h \in DOMAIN samples => samples[h] = Base(n)[h]
  <2>1. CASE model = NoModel
    <3>1. h \notin DOMAIN Base(n)
      BY <2>1, NoSamples DEF Base
    <3>2. h \in DOMAIN StableOnly(says) <=> h \in DOMAIN says /\ says[h].stable
      BY DEF StableOnly, Restrict
    <3>3. h \in DOMAIN StableOnly(says) => StableOnly(says)[h] = says[h]
      BY DEF StableOnly, Restrict
    <3> QED
      BY <2>1, <3>1, <3>2, <3>3
  <2>2. CASE model # NoModel
    <3> DEFINE b == Base(n)
               keeps == h \in DOMAIN b /\ (h \in DOMAIN says => b[h].at >= says[h].at)
    <3>1. /\ h \in DOMAIN samples <=> keeps \/ (h \in DOMAIN says /\ says[h].stable)
          /\ h \in DOMAIN samples => samples[h] = IF keeps THEN b[h] ELSE says[h]
      BY <2>2, MergedAt
    <3>2. h \in DOMAIN b => b[h].stable
      BY <1>3
    <3>3. keeps /\ h \in DOMAIN says => b[h] = says[h]
      BY <1>3
    <3>4. (keeps => h \in DOMAIN b) /\ (h \notin DOMAIN says /\ h \in DOMAIN b => keeps)
      OBVIOUS
    <3> HIDE DEF samples, says, b, keeps
    <3>5. CASE h \in DOMAIN says
      BY <3>1, <3>2, <3>3, <3>4, <3>5
    <3>6. CASE h \notin DOMAIN says
      BY <3>1, <3>4, <3>6 DEF b
    <3> QED
      BY <3>5, <3>6
  <2> QED
    BY <2>1, <2>2
<1>5. samples \in SampleMaps
  <2>1. ASSUME NEW h \in DOMAIN samples PROVE h \in Hashes /\ samples[h] \in SampleUpdate
    <3>1. h \in DOMAIN says => h \in Hashes /\ says[h] \in SampleUpdate
      BY <1>1 DEF SampleMaps
    <3> HIDE DEF samples, says
    <3> QED
      BY <1>3, <1>4, <2>1, <3>1
  <2>2. samples = [h \in DOMAIN samples |-> samples[h]]
    BY DEF StableOnly, Restrict, Merged
  <2> HIDE DEF samples
  <2>3. samples \in [DOMAIN samples -> SampleUpdate] /\ DOMAIN samples \in SUBSET Hashes
    BY <2>1, <2>2
  <2> QED
    BY <2>3 DEF SampleMaps
<1> HIDE DEF samples
<1> QED
  BY <1>2, <1>4, <1>5

\* A model is kept with the samples it has, if any.
LEMMA KeptTyped ==
  ASSUME ModelTypes, NEW n \in 1..LastUpdate, NEW samples \in SampleMaps
  PROVE  LET kept == Kept(Update(n), samples)
         IN /\ DOMAIN samples = {} => kept = NoModel
            /\ DOMAIN samples # {} =>
                 /\ kept \in Models /\ kept # NoModel
                 /\ kept.at = n /\ kept.conf = confs[n] /\ kept.samples = samples
<1>1. confs[n] \in Confs
  BY DEF ModelTypes
<1> QED
  BY <1>1, ModelsAssumption DEF Kept, Update, Models
-----------------------------------------------------------------------------
(* The samples of a model, with any number of streams.                      *)

\* There is no model at first.
LEMMA ModelInvInit == ModelsInit => ModelInv
  BY ModelsAssumption DEF ModelsInit, ModelInv, ModelTypes, SamplesSaid

\* A position, and the number of the latest update, stay in their range.
LEMMA DeliverTypes ==
  ASSUME ModelTypes, NEW s \in Streams, Deliver(s)
  PROVE  /\ handed[s] + 1 \in 1..LastUpdate /\ handed' = [handed EXCEPT ![s] = handed[s] + 1]
         /\ handed' \in [Streams -> 0..LastUpdate] /\ seen' \in 0..LastUpdate
         /\ seen <= seen' /\ handed[s] + 1 <= seen'
         /\ seen' = seen \/ seen' = handed[s] + 1
         /\ changes' = changes /\ confs' = confs
         /\ model' = Updated(Update(handed[s] + 1))
<1>1. /\ handed \in [Streams -> 0..LastUpdate] /\ seen \in 0..LastUpdate /\ LastUpdate \in Nat
      /\ handed[s] < LastUpdate
  BY ModelsAssumption DEF ModelTypes, Deliver
<1>2. handed[s] + 1 \in 1..LastUpdate
  BY <1>1
<1>3. /\ Max({seen, handed[s] + 1}) \in {seen, handed[s] + 1}
      /\ \A j \in {seen, handed[s] + 1} : j <= Max({seen, handed[s] + 1})
  <2>1. {seen, handed[s] + 1} \in SUBSET (0..LastUpdate) /\ {seen, handed[s] + 1} # {}
    BY <1>1, <1>2
  <2> QED
    BY <1>1, <2>1, MaxOf
<1> QED
  BY <1>1, <1>2, <1>3 DEF Deliver

\* An update leaves a model typed, made of what updates said, and no older.
LEMMA DeliverModel ==
  ASSUME ModelInv, NEW s \in Streams, Deliver(s)
  PROVE  /\ ModelInv'
         /\ model # NoModel /\ model' # NoModel =>
              /\ model'.at >= model.at
              /\ \A h \in DOMAIN model.samples \cap DOMAIN model'.samples :
                   model'.samples[h].at >= model.samples[h].at
<1> DEFINE n == handed[s] + 1
<1>1. /\ n \in 1..LastUpdate /\ n \in Nat /\ ModelTypes /\ SamplesSaid
      /\ handed' \in [Streams -> 0..LastUpdate] /\ seen' \in 0..LastUpdate
      /\ changes' = changes /\ confs' = confs
      /\ model' = Updated(Update(n))
  BY DeliverTypes, ModelsAssumption DEF ModelInv
<1> HIDE DEF n
<1>2. /\ \A h, m : Change(h, m)' = Change(h, m)
      /\ \A h, m : Said(h, m)' = Said(h, m)
  BY <1>1 DEF Change, Said
<1>3. ASSUME model # NoModel
      PROVE  /\ model.at \in 1..LastUpdate /\ model.at \in Nat
             /\ \A h \in DOMAIN model.samples : model.samples[h].at \in Nat
  <2>1. model \in Models
    BY <1>1, <1>3 DEF ModelTypes
  <2>2. model.at \in 1..LastUpdate /\ model.samples \in SampleMaps
    BY <2>1 DEF Models
  <2>3. \A h \in DOMAIN model.samples : model.samples[h] \in SampleUpdate
    BY <2>2 DEF SampleMaps
  <2> QED
    BY <2>2, <2>3, ModelsAssumption DEF SampleUpdate
<1>4. CASE Skips(n)
  <2>1. model' = model /\ model # NoModel
    BY <1>1, <1>4 DEF Skips, Updated, Update
  <2>2. ModelTypes'
    BY <1>1, <2>1 DEF ModelTypes
  <2>3. SamplesSaid'
    BY <1>1, <1>2, <2>1 DEF SamplesSaid
  <2> QED
    BY <1>3, <2>1, <2>2, <2>3 DEF ModelInv
<1>5. CASE ~Skips(n)
  <2>1. PICK samples \in SampleMaps :
           /\ Updated(Update(n)) = Kept(Update(n), samples)
           /\ \A h :
                /\ h \in DOMAIN SampleUpdates(n) =>
                     /\ h \in DOMAIN samples <=> SampleUpdates(n)[h].stable
                     /\ h \in DOMAIN samples => samples[h] = SampleUpdates(n)[h]
                /\ h \notin DOMAIN SampleUpdates(n) =>
                     /\ h \in DOMAIN samples <=> h \in DOMAIN Base(n)
                     /\ h \in DOMAIN samples => samples[h] = Base(n)[h]
    BY <1>1, <1>5, Applied
  <2>2. /\ model' \in Models \cup {NoModel}
        /\ model' # NoModel =>
             model'.at = n /\ model'.conf = confs[n] /\ model'.samples = samples
    BY <1>1, <2>1, KeptTyped, ZenonT(30)
  <2>3. ModelTypes'
    BY <1>1, <2>2 DEF ModelTypes
  <2>4. ASSUME NEW h \in DOMAIN model.samples, model # NoModel
        PROVE  /\ model.samples[h].stable
               /\ \E i \in Change(h, n) : model.samples[h] = Said(h, i)
    <3>1. PICK i \in Change(h, model.at) : model.samples[h] = Said(h, i)
      BY <1>1, <2>4 DEF SamplesSaid
    <3>2. model.at <= n
      BY <1>1, <1>3, <1>5, <2>4 DEF Skips
    <3>3. i \in Change(h, n)
      BY <1>1, <1>3, <2>4, <3>1, <3>2, ChangesStay
    <3> QED
      BY <1>1, <2>4, <3>1, <3>3 DEF SamplesSaid
  <2>5. ASSUME NEW h \in DOMAIN samples
        PROVE  samples[h].stable /\ \E i \in Change(h, n) : samples[h] = Said(h, i)
    <3>1. CASE h \in DOMAIN SampleUpdates(n)
      BY <1>1, <2>1, <2>5, <3>1, SaysLatest
    <3>2. CASE h \notin DOMAIN SampleUpdates(n)
      <4>1. h \in DOMAIN Base(n) /\ samples[h] = Base(n)[h]
        BY <2>1, <2>5, <3>2
      <4>2. model # NoModel /\ Base(n) = model.samples
        BY <4>1, NoSamples DEF Base
      <4> QED
        BY <2>4, <4>1, <4>2
    <3> QED
      BY <3>1, <3>2
  <2>6. SamplesSaid'
    BY <1>1, <1>2, <2>2, <2>5 DEF SamplesSaid
  <2>7. ASSUME model # NoModel, model' # NoModel,
               NEW h \in DOMAIN model.samples \cap DOMAIN model'.samples
        PROVE  model'.samples[h].at >= model.samples[h].at
    <3>1. h \in DOMAIN samples /\ model'.samples[h] = samples[h]
      BY <2>2, <2>7
    <3>2. CASE h \in DOMAIN SampleUpdates(n)
      <4> DEFINE k == Max(Change(h, n))
      <4>1. k \in Change(h, n) /\ samples[h] = Said(h, k) /\ \A i \in Change(h, n) : i <= k
        BY <1>1, <2>1, <3>1, <3>2, SaysLatest
      <4> HIDE DEF k
      <4>2. PICK i \in Change(h, n) : model.samples[h] = Said(h, i)
        BY <2>4, <2>7
      <4>3. Said(h, k).at = k /\ Said(h, i).at = i
        BY <1>1, <4>1, SaidTyped
      <4>4. i <= k /\ k \in Nat /\ i \in Nat
        BY <4>1 DEF Change
      <4> QED
        BY <3>1, <4>1, <4>2, <4>3, <4>4
    <3>3. CASE h \notin DOMAIN SampleUpdates(n)
      <4>1. h \in DOMAIN Base(n) /\ samples[h] = Base(n)[h]
        BY <2>1, <3>1, <3>3
      <4>2. Base(n) = model.samples
        BY <4>1, NoSamples DEF Base
      <4> QED
        BY <1>3, <2>7, <3>1, <4>1, <4>2
    <3> QED
      BY <3>2, <3>3
  <2>8. model # NoModel /\ model' # NoModel => model'.at >= model.at
    BY <1>1, <1>3, <1>5, <2>2 DEF Skips
  <2> QED
    BY <2>3, <2>6, <2>7, <2>8 DEF ModelInv
<1> QED
  BY <1>4, <1>5

\* A resumed stream leaves the model alone.
LEMMA ResumeModel ==
  ASSUME ModelInv, NEW s \in Streams, Resume(s)
  PROVE  ModelInv' /\ model' = model
<1>1. handed' \in [Streams -> 0..LastUpdate]
  <2>1. handed \in [Streams -> 0..LastUpdate] /\ handed[s] \in 0..LastUpdate /\ LastUpdate \in Nat
    BY ModelsAssumption DEF ModelInv, ModelTypes
  <2>2. PICK n \in 0..(handed[s] - 1) : handed' = [handed EXCEPT ![s] = n]
    BY DEF Resume
  <2>3. n \in 0..LastUpdate
    BY <2>1, <2>2
  <2> QED
    BY <2>1, <2>2, <2>3
<1>2. ModelTypes'
  BY <1>1 DEF Resume, ModelInv, ModelTypes
<1>3. SamplesSaid'
  BY DEF Resume, ModelInv, SamplesSaid, Change, Said
<1> QED
  BY <1>2, <1>3 DEF Resume, ModelInv

\* Every step preserves the invariant of the model.
LEMMA ModelInvNext == ModelInv /\ [ModelsNext]_modelVars => ModelInv'
<1> SUFFICES ASSUME ModelInv, [ModelsNext]_modelVars PROVE ModelInv'
  OBVIOUS
<1>1. CASE UNCHANGED modelVars
  BY <1>1 DEF modelVars, ModelInv, ModelTypes, SamplesSaid, Change, Said
<1> QED
  BY <1>1, DeliverModel, ResumeModel DEF ModelsNext

\* update_models: whatever streams repeat, and however many there are, no reader sees a
\* model or a sample replaced by an older copy of it.
THEOREM ModelsOnlyAdvance == ModelsSpec => NeverOlder
<1>1. ModelInv /\ [ModelsNext]_modelVars =>
        [model # NoModel /\ model' # NoModel =>
           /\ model'.at >= model.at
           /\ \A h \in DOMAIN model.samples \cap DOMAIN model'.samples :
                model'.samples[h].at >= model.samples[h].at]_modelVars
  <2> SUFFICES ASSUME ModelInv, ModelsNext, model # NoModel, model' # NoModel
               PROVE  /\ model'.at >= model.at
                      /\ \A h \in DOMAIN model.samples \cap DOMAIN model'.samples :
                           model'.samples[h].at >= model.samples[h].at
    OBVIOUS
  <2>1. PICK s \in Streams : Deliver(s) \/ Resume(s)
    BY DEF ModelsNext
  <2>2. CASE Deliver(s)
    BY <2>2, DeliverModel
  <2>3. CASE Resume(s)
    <3>1. model' = model
      BY <2>3, ResumeModel
    <3>2. model.at \in Nat /\ model.samples \in SampleMaps
      BY ModelsAssumption DEF ModelInv, ModelTypes, Models
    <3>3. \A h \in DOMAIN model.samples : model.samples[h].at \in Nat
      BY <3>2, ModelsAssumption DEF SampleMaps, SampleUpdate
    <3> QED
      BY <3>1, <3>2, <3>3
  <2> QED
    BY <2>1, <2>2, <2>3
<1> QED
  BY <1>1, ModelInvInit, ModelInvNext, PTL DEF ModelsSpec, NeverOlder
-----------------------------------------------------------------------------
(* A single stream, that repeats what it has handed over.                   *)

\* What is known after an update is a matter of the history of the updates.
LEMMA KnownStays ==
  ASSUME changes' = changes, confs' = confs
  PROVE  /\ \A m : Known(m)' = Known(m)
         /\ \A m, h : TakesAway(m, h)' = TakesAway(m, h)
  BY DEF Known, Reference, Mentions, Latest, Since, SampleUpdates, Change, TakesAway, SameConf

\* No update has been handed over.
LEMMA StreamInit == ModelsInit => \A s \in Streams : CatchUpInv(s)
<1> SUFFICES ASSUME ModelsInit, NEW s \in Streams PROVE CatchUpInv(s)
  OBVIOUS
<1>1. Reached(s) = 0 /\ Samples = <<>> /\ seen = 0 /\ handed[s] = 0
  BY DEF ModelsInit, Reached, Samples
<1>2. Known(0) = <<>>
  BY DEF Known
<1> QED
  BY <1>1, <1>2, NoSamples DEF CatchUpInv

\* A stream hands over an update.
LEMMA StreamDeliver ==
  ASSUME ModelInv, NEW s \in Streams, CatchUpInv(s), Deliver(s)
  PROVE  CatchUpInv(s)'
<1> DEFINE n == handed[s] + 1
           e == Reached(s)
<1>1. /\ n \in 1..LastUpdate /\ n \in Nat /\ ModelTypes /\ SamplesSaid /\ ModelTypes'
      /\ handed'[s] = n /\ seen' \in Nat /\ seen \in Nat /\ handed[s] \in Nat
      /\ seen <= seen' /\ n <= seen' /\ (seen' = seen \/ seen' = n)
      /\ changes' = changes /\ confs' = confs
      /\ model' = Updated(Update(n))
  BY DeliverTypes, DeliverModel, ModelsAssumption DEF ModelInv, ModelTypes
<1>2. model # NoModel => model.at \in Nat /\ model.conf = confs[model.at]
  BY <1>1, ModelsAssumption DEF ModelTypes, Models, SamplesSaid
<1>3. /\ handed[s] <= e /\ e <= seen
      /\ \A h \in DOMAIN Samples : h \in DOMAIN Known(e) /\ Samples[h] = Known(e)[h]
      /\ \A h \in DOMAIN Known(e) \ DOMAIN Samples : \E m \in (e + 1)..seen : TakesAway(m, h)
  BY DEF CatchUpInv
<1>4. /\ \A m : Known(m)' = Known(m)
      /\ \A m, h : TakesAway(m, h)' = TakesAway(m, h)
  BY <1>1, KnownStays
<1>5. ASSUME /\ n <= Reached(s)' /\ Reached(s)' <= seen'
             /\ \A h \in DOMAIN Samples' :
                  h \in DOMAIN Known(Reached(s)') /\ Samples'[h] = Known(Reached(s)')[h]
             /\ \A h \in DOMAIN Known(Reached(s)') \ DOMAIN Samples' :
                  \E m \in (Reached(s)' + 1)..seen' : TakesAway(m, h)
      PROVE  CatchUpInv(s)'
  BY <1>1, <1>4, <1>5 DEF CatchUpInv
<1>6. CASE Skips(n)
  <2>1. model' = model /\ model # NoModel /\ model.at >= n
    BY <1>1, <1>6 DEF Skips, Updated, Update
  <2>2. e = model.at /\ Reached(s)' = e /\ Samples' = Samples
    BY <2>1 DEF Reached, Samples
  <2>3. seen' = seen
    BY <1>1, <1>2, <1>3, <2>1, <2>2
  <2> QED
    BY <1>3, <1>5, <2>1, <2>2, <2>3
<1>7. CASE ~Skips(n)
  <2>1. PICK samples \in SampleMaps :
           /\ Updated(Update(n)) = Kept(Update(n), samples)
           /\ \A h :
                /\ h \in DOMAIN SampleUpdates(n) =>
                     /\ h \in DOMAIN samples <=> SampleUpdates(n)[h].stable
                     /\ h \in DOMAIN samples => samples[h] = SampleUpdates(n)[h]
                /\ h \notin DOMAIN SampleUpdates(n) =>
                     /\ h \in DOMAIN samples <=> h \in DOMAIN Base(n)
                     /\ h \in DOMAIN samples => samples[h] = Base(n)[h]
    BY <1>1, <1>7, Applied
  <2>2. e = n - 1 /\ (model # NoModel => model.at = n - 1)
    BY <1>1, <1>2, <1>3, <1>7 DEF Skips, Reached
  <2>3. Reached(s)' = n
    BY <1>1, <2>1, KeptTyped, ZenonT(30) DEF Reached
  <2>4. /\ \A h : h \in DOMAIN Samples' <=> h \in DOMAIN samples
        /\ \A h \in DOMAIN samples : Samples'[h] = samples[h]
    <3>1. /\ DOMAIN samples = {} => model' = NoModel
          /\ DOMAIN samples # {} => model' # NoModel /\ model'.samples = samples
      BY <1>1, <2>1, KeptTyped
    <3>2. CASE DOMAIN samples = {}
      BY <3>1, <3>2, NoSamples DEF Samples
    <3>3. CASE DOMAIN samples # {}
      <4>1. Samples' = samples
        BY <3>1, <3>3 DEF Samples
      <4> QED
        BY <4>1
    <3> QED
      BY <3>2, <3>3
  <2>5. ASSUME NEW h
        PROVE  /\ h \in DOMAIN Base(n) <=> SameConf(n) /\ h \in DOMAIN Samples
               /\ h \in DOMAIN Base(n) => Base(n)[h] = Samples[h]
    <3>1. CASE model = NoModel
      BY <3>1, NoSamples DEF Base, Samples
    <3>2. CASE model # NoModel
      <4>1. model.at = n - 1 /\ model.conf = confs[n - 1] /\ model.at \in 1..LastUpdate
        BY <1>1, <1>2, <2>2, <3>2 DEF ModelTypes, Models
      <4>2. n > 1
        BY <1>1, <4>1, ModelsAssumption
      <4> QED
        BY <3>2, <4>1, <4>2, NoSamples DEF Base, Samples, SameConf
    <3> QED
      BY <3>1, <3>2
  <2>6. ASSUME NEW h
        PROVE  /\ h \in DOMAIN samples =>
                    h \in DOMAIN Known(n) /\ samples[h] = Known(n)[h]
               /\ h \in DOMAIN Known(n) /\ h \notin DOMAIN samples =>
                    \E m \in (n + 1)..seen' : TakesAway(m, h)
    <3>1. CASE h \in DOMAIN SampleUpdates(n)
      BY <1>1, <2>1, <3>1, KnownStep
    <3>2. CASE h \notin DOMAIN SampleUpdates(n)
      <4>1. /\ h \in DOMAIN Known(n) <=> SameConf(n) /\ h \in DOMAIN Known(n - 1)
            /\ h \in DOMAIN Known(n) => Known(n)[h] = Known(n - 1)[h]
        BY <1>1, <3>2, KnownStep
      <4>2. /\ h \in DOMAIN samples <=> SameConf(n) /\ h \in DOMAIN Samples
            /\ h \in DOMAIN samples => samples[h] = Samples[h]
        BY <2>1, <2>5, <3>2
      <4>3. h \in DOMAIN Samples =>
              h \in DOMAIN Known(n - 1) /\ Samples[h] = Known(n - 1)[h]
        BY <1>3, <2>2
      <4>4. ASSUME h \in DOMAIN Known(n), h \notin DOMAIN samples
            PROVE  \E m \in (n + 1)..seen' : TakesAway(m, h)
        <5>1. SameConf(n) /\ h \in DOMAIN Known(e) \ DOMAIN Samples
          BY <2>2, <4>1, <4>2, <4>4
        <5>2. PICK m \in (e + 1)..seen : TakesAway(m, h)
          BY <1>3, <5>1
        <5>3. m # n
          BY <3>2, <5>1, <5>2 DEF TakesAway
        <5>4. m \in (n + 1)..seen'
          BY <1>1, <2>2, <5>2, <5>3
        <5> QED
          BY <5>2, <5>4
      <4> QED
        BY <4>1, <4>2, <4>3, <4>4
    <3> QED
      BY <3>1, <3>2
  <2>7. /\ n <= Reached(s)' /\ Reached(s)' <= seen'
        /\ \A h \in DOMAIN Samples' :
             h \in DOMAIN Known(Reached(s)') /\ Samples'[h] = Known(Reached(s)')[h]
        /\ \A h \in DOMAIN Known(Reached(s)') \ DOMAIN Samples' :
             \E m \in (Reached(s)' + 1)..seen' : TakesAway(m, h)
    BY <1>1, <2>3, <2>4, <2>6
  <2> QED
    BY <1>5, <2>7
<1> QED
  BY <1>6, <1>7

\* A resumed stream goes back to where some of what it has handed over comes again.
LEMMA StreamResume ==
  ASSUME ModelInv, NEW s \in Streams, CatchUpInv(s), Resume(s)
  PROVE  CatchUpInv(s)'
<1> DEFINE p == handed[s]
<1>1. /\ ModelTypes /\ p \in Nat /\ p <= LastUpdate /\ seen \in Nat /\ LastUpdate \in Nat
      /\ changes' = changes /\ confs' = confs /\ model' = model /\ seen' = seen
  BY ModelsAssumption DEF ModelInv, ModelTypes, Resume
<1>2. PICK n \in 0..(p - 1) : handed'[s] = n
  BY DEF ModelInv, ModelTypes, Resume
<1>3. /\ \A m : Known(m)' = Known(m)
      /\ \A m, h : TakesAway(m, h)' = TakesAway(m, h)
  BY <1>1, KnownStays
<1>4. Samples' = Samples
  BY <1>1 DEF Samples
<1>5. CASE model # NoModel
  <2>1. Reached(s)' = Reached(s) /\ Reached(s) = model.at /\ model.at \in Nat
    BY <1>1, <1>5, ModelsAssumption DEF Reached, ModelTypes, Models
  <2>2. n <= Reached(s)
    BY <1>1, <1>2, <2>1 DEF CatchUpInv
  <2> QED
    BY <1>1, <1>2, <1>3, <1>4, <2>1, <2>2 DEF CatchUpInv
<1>6. CASE model = NoModel
  <2>1. Reached(s) = p /\ Reached(s)' = n /\ \A h : h \notin DOMAIN Samples
    BY <1>1, <1>2, <1>6, NoSamples DEF Reached, Samples
  <2>2. p <= seen /\ \A h \in DOMAIN Known(p) : \E m \in (p + 1)..seen : TakesAway(m, h)
    BY <2>1 DEF CatchUpInv
  <2>3. ASSUME NEW h \in DOMAIN Known(n)
        PROVE  \E m \in (n + 1)..seen : TakesAway(m, h)
    <3>1. CASE h \in DOMAIN Known(p)
      <4>1. PICK m \in (p + 1)..seen : TakesAway(m, h)
        BY <2>2, <3>1
      <4>2. m \in (n + 1)..seen
        BY <1>1, <1>2, <4>1
      <4> QED
        BY <4>1, <4>2
    <3>2. CASE h \notin DOMAIN Known(p)
      <4> DEFINE T == {i \in n..p : h \in DOMAIN Known(i)}
      <4>1. n \in T /\ T \in SUBSET (0..p)
        BY <1>1, <1>2, <2>3
      <4>2. PICK k \in T : \A j \in T : j <= k
        <5> HIDE DEF T
        <5> QED
          BY <1>1, <4>1, MaxOf
      <4>3. k \in n..p /\ h \in DOMAIN Known(k) /\ k # p
        BY <3>2
      <4>4. k + 1 \in (n + 1)..p /\ k + 1 \in 1..LastUpdate /\ (k + 1) - 1 = k /\ ~(k + 1 <= k)
        BY <1>1, <1>2, <4>3
      <4>5. k + 1 \notin T
        <5> HIDE DEF T
        <5> QED
          BY <4>2, <4>4
      <4>6. k + 1 \in n..p
        BY <1>1, <1>2, <4>3
      <4>7. h \notin DOMAIN Known(k + 1)
        BY <4>5, <4>6
      <4>8. TakesAway(k + 1, h)
        <5>1. CASE h \in DOMAIN SampleUpdates(k + 1)
          BY <1>1, <4>4, <4>7, <5>1, KnownStep DEF TakesAway
        <5>2. CASE h \notin DOMAIN SampleUpdates(k + 1)
          BY <1>1, <4>3, <4>4, <4>7, <5>2, KnownStep DEF TakesAway
        <5> QED
          BY <5>1, <5>2
      <4>9. k + 1 \in (n + 1)..seen
        BY <1>1, <1>2, <2>2, <4>4
      <4> QED
        BY <4>8, <4>9
    <3> QED
      BY <3>1, <3>2
  <2>4. n <= seen
    BY <1>1, <1>2, <2>2
  <2> QED
    BY <1>1, <1>2, <1>3, <1>4, <2>1, <2>3, <2>4 DEF CatchUpInv
<1> QED
  BY <1>5, <1>6

\* update_models: with one stream, whatever it repeats, the samples of a model that has
\* caught up are those of one that has seen every update once and in order.
THEOREM CaughtUp ==
  ASSUME \A s, t \in Streams : s = t
  PROVE  ModelsSpec => []MatchesServer
<1> DEFINE Inv == ModelInv /\ \A s \in Streams : CatchUpInv(s)
<1>1. ModelsInit => Inv
  BY ModelInvInit, StreamInit
<1>2. Inv /\ [ModelsNext]_modelVars => Inv'
  <2> SUFFICES ASSUME Inv, [ModelsNext]_modelVars PROVE Inv'
    OBVIOUS
  <2>1. ModelInv'
    BY ModelInvNext
  <2>2. ASSUME NEW s \in Streams PROVE CatchUpInv(s)'
    <3>1. CASE UNCHANGED modelVars
      <4>1. /\ changes' = changes /\ confs' = confs /\ seen' = seen /\ handed' = handed
            /\ Samples' = Samples /\ Reached(s)' = Reached(s)
        BY <3>1 DEF modelVars, Samples, Reached
      <4>2. /\ \A m : Known(m)' = Known(m)
            /\ \A m, h : TakesAway(m, h)' = TakesAway(m, h)
        BY <4>1, KnownStays
      <4> QED
        BY <4>1, <4>2 DEF CatchUpInv
    <3>2. CASE ModelsNext
      <4>1. Deliver(s) \/ Resume(s)
        BY <3>2 DEF ModelsNext
      <4> QED
        BY <4>1, StreamDeliver, StreamResume
    <3> QED
      BY <3>1, <3>2
  <2> QED
    BY <2>1, <2>2
<1>3. Inv => MatchesServer
  <2> SUFFICES ASSUME Inv, NEW s \in Streams, handed[s] = seen, seen > 0
               PROVE  Samples = Reference(seen)
    BY DEF MatchesServer
  <2>1. ModelTypes /\ seen \in Nat /\ CatchUpInv(s)
    BY ModelsAssumption DEF ModelInv, ModelTypes
  <2>2. Reached(s) \in Nat
    BY <2>1, ModelsAssumption DEF ModelTypes, Models, Reached
  <2>3. Reached(s) = seen /\ Known(seen) = Reference(seen)
    BY <2>1, <2>2 DEF CatchUpInv, Known
  <2>4. \A h \in DOMAIN Reference(seen) : h \in DOMAIN Samples
    BY <2>1, <2>3 DEF CatchUpInv
  <2>5. \A h \in DOMAIN Samples : h \in DOMAIN Reference(seen) /\ Samples[h] = Reference(seen)[h]
    BY <2>1, <2>3 DEF CatchUpInv
  <2>6. Samples = [h \in DOMAIN Samples |-> Samples[h]]
    BY <2>1 DEF Samples, ModelTypes, Models, SampleMaps
  <2>7. Reference(seen) = [h \in DOMAIN Reference(seen) |-> Reference(seen)[h]]
    BY DEF Reference
  <2> QED
    BY <2>4, <2>5, <2>6, <2>7
<1> QED
  BY <1>1, <1>2, <1>3, PTL DEF ModelsSpec
=============================================================================
