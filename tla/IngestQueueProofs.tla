------------------------- MODULE IngestQueueProofs -------------------------
(***************************************************************************)
(* Theorems about IngestQueue, for every value of its constants: types,    *)
(* the lock and its worker, wakeups, and what becomes of the rows.         *)
(***************************************************************************)
EXTENDS IngestQueue, SequenceTheorems, TLAPS
-----------------------------------------------------------------------------
(* Sequences: the entries of a queue join at its end and leave at its head. *)

\* Appending to the second of two sequences appends to their concatenation.
LEMMA AppendToLine ==
  ASSUME NEW S, NEW s \in Seq(S), NEW t \in Seq(S), NEW i \in S
  PROVE  s \o Append(t, i) = Append(s \o t, i)
  OBVIOUS

\* Moving the head of one sequence to the end of the one before it leaves their
\* concatenation as it is.
LEMMA MoveToBatch ==
  ASSUME NEW S, NEW s \in Seq(S), NEW t \in Seq(S), t # <<>>
  PROVE  Append(s, Head(t)) \o Tail(t) = s \o t
  OBVIOUS

\* A concatenation can be taken apart again.
LEMMA SplitLine ==
  ASSUME NEW S, NEW s \in Seq(S), NEW t \in Seq(S)
  PROVE  /\ SubSeq(s \o t, 1, Len(s)) = s
         /\ SubSeq(s \o t, Len(s) + 1, Len(s \o t)) = t
<1>1. Len(s \o t) = Len(s) + Len(t) /\ Len(s) \in Nat /\ Len(t) \in Nat
  OBVIOUS
<1>2. SubSeq(s \o t, 1, Len(s)) = s
  OBVIOUS
<1>3. SubSeq(s \o t, Len(s) + 1, Len(s) + Len(t)) = t
  OBVIOUS
<1> QED
  BY <1>1, <1>2, <1>3

\* put adds one entry to those of a queue.
LEMMA RangeAppend ==
  ASSUME NEW S, NEW s \in Seq(S), NEW i \in S
  PROVE  Range(Append(s, i)) = Range(s) \cup {i}
<1>1. DOMAIN s = 1..Len(s) /\ DOMAIN Append(s, i) = 1..(Len(s) + 1) /\ Len(s) \in Nat
  OBVIOUS
<1>2. \A n \in 1..(Len(s) + 1) : Append(s, i)[n] = IF n <= Len(s) THEN s[n] ELSE i
  OBVIOUS
<1> QED
  BY <1>1, <1>2 DEF Range

\* put of an entry that is not in a queue leaves none in it twice.
LEMMA InjectiveAppend ==
  ASSUME NEW S, NEW s \in Seq(S), NEW i \in S, i \notin Range(s), IsInjective(s)
  PROVE  IsInjective(Append(s, i))
<1>1. DOMAIN s = 1..Len(s) /\ DOMAIN Append(s, i) = 1..(Len(s) + 1) /\ Len(s) \in Nat
  OBVIOUS
<1>2. \A n \in 1..(Len(s) + 1) : Append(s, i)[n] = IF n <= Len(s) THEN s[n] ELSE i
  OBVIOUS
<1>3. \A n \in 1..Len(s) : s[n] # i
  BY <1>1 DEF Range
<1>4. \A n \in 1..(Len(s) + 1) : n = Len(s) + 1 \/ n \in 1..Len(s)
  BY <1>1
<1> QED
  BY <1>1, <1>2, <1>3, <1>4 DEF IsInjective

\* get removes one entry, and all of it when the queue holds none twice.
LEMMA TailOfInjective ==
  ASSUME NEW S, NEW s \in Seq(S), s # <<>>, IsInjective(s)
  PROVE  /\ Head(s) \in S /\ Tail(s) \in Seq(S)
         /\ Range(Tail(s)) = Range(s) \ {Head(s)} /\ Head(s) \in Range(s)
         /\ IsInjective(Tail(s))
<1>1. /\ Len(s) \in Nat \ {0} /\ DOMAIN s = 1..Len(s) /\ DOMAIN Tail(s) = 1..(Len(s) - 1)
      /\ Head(s) = s[1] /\ Head(s) \in S /\ Tail(s) \in Seq(S)
  OBVIOUS
<1>2. \A n \in 1..(Len(s) - 1) : Tail(s)[n] = s[n + 1]
  OBVIOUS
<1>3. ASSUME NEW x \in Range(Tail(s)) PROVE x \in Range(s) \ {Head(s)}
  <2>1. PICK n \in 1..(Len(s) - 1) : x = Tail(s)[n]
    BY <1>1, <1>3 DEF Range
  <2>2. n + 1 \in 1..Len(s) /\ 1 \in 1..Len(s) /\ n + 1 # 1 /\ x = s[n + 1]
    BY <1>1, <1>2, <2>1
  <2> QED
    BY <1>1, <2>2 DEF Range, IsInjective
<1>4. ASSUME NEW x \in Range(s) \ {Head(s)} PROVE x \in Range(Tail(s))
  <2>1. PICK n \in 1..Len(s) : x = s[n]
    BY <1>1, <1>4 DEF Range
  <2>2. n # 1
    BY <1>1, <1>4, <2>1
  <2>3. n - 1 \in 1..(Len(s) - 1) /\ (n - 1) + 1 = n
    BY <1>1, <2>1, <2>2
  <2>4. x = Tail(s)[n - 1]
    BY <1>2, <2>1, <2>3
  <2> QED
    BY <1>1, <2>3, <2>4 DEF Range
<1>5. Head(s) \in Range(s)
  BY <1>1 DEF Range
<1>6. ASSUME NEW m \in DOMAIN Tail(s), NEW n \in DOMAIN Tail(s), Tail(s)[m] = Tail(s)[n]
      PROVE  m = n
  <2>1. m + 1 \in DOMAIN s /\ n + 1 \in DOMAIN s
    BY <1>1, <1>6
  <2>2. s[m + 1] = s[n + 1]
    BY <1>1, <1>2, <1>6
  <2>3. m + 1 = n + 1
    BY <2>1, <2>2 DEF IsInjective
  <2> QED
    BY <1>1, <2>3
<1> QED
  BY <1>1, <1>3, <1>4, <1>5, <1>6 DEF IsInjective
-----------------------------------------------------------------------------
\* A worker about to put an entry somewhere holds one.
HandOK == \A w \in Workers : wpc[w] = "pqPut" => hand[w] \in Items

TypeInv == TypeOK /\ HandOK

\* The initial state is typed.
LEMMA TypeInvInit == Init => TypeInv
<1> SUFFICES ASSUME Init PROVE TypeInv
  OBVIOUS
<1>1. queue \in Seq(Items) /\ Len(queue) <= QueueMaxSize
  BY QueueAssumption DEF Init
<1>2. entered \in Seq(Items) /\ posted \in Seq(Items)
  BY DEF Init
<1>3. payload \in [Workers -> Seq(Items)]
  BY DEF Init
<1> QED
  BY <1>1, <1>2, <1>3 DEF Init, TypeInv, TypeOK, HandOK, CallerPc, WorkerPc

\* A step of a caller preserves the types.
LEMMA TypeInvCaller ==
  ASSUME TypeInv, NEW t \in Threads, Begin(t) \/ AcquireLock(t) \/ Continue(t)
  PROVE  TypeInv'
<1> USE QueueAssumption DEF TypeInv, TypeOK, HandOK, CallerPc, WorkerPc,
        shared, control, caller, worker, history
<1>1. ASSUME NEW i \in Items, Enqueue(t, i) PROVE TypeInv'
  <2>1. queue' \in Seq(Items) /\ Len(queue') <= QueueMaxSize /\ entered' \in Seq(Items)
    BY <1>1 DEF Enqueue
  <2> QED
    BY <1>1, <2>1 DEF Enqueue
<1>2. ASSUME NEW i \in Items, NEW d \in Delays, EnqueueAfter(t, i, d) PROVE TypeInv'
  BY <1>2 DEF EnqueueAfter
<1>3. ASSUME NEW i \in Items, Reject(t, i) PROVE TypeInv'
  BY <1>3 DEF Reject
<1>4. CASE EnsureRunning(t)
  BY <1>4 DEF EnsureRunning, Ensured
<1>5. CASE AcquireLock(t)
  BY <1>5 DEF AcquireLock
<1>6. CASE AlreadyRunning(t)
  BY <1>6 DEF AlreadyRunning, Ensured
<1>7. ASSUME NEW w \in Workers, StartWorker(t, w) PROVE TypeInv'
  BY <1>7 DEF StartWorker
<1>8. CASE StartFails(t)
  BY <1>8 DEF StartFails, Ensured
<1>9. CASE WaitRunning(t)
  BY <1>9 DEF WaitRunning
<1>10. CASE WorkerStarted(t)
  BY <1>10 DEF WorkerStarted, Ensured
<1>11. CASE MaybeFlush(t)
  BY <1>11 DEF MaybeFlush, Notify
<1>12. CASE BeginClose(t)
  BY <1>12 DEF BeginClose
<1>13. CASE AlreadyStopped(t)
  BY <1>13 DEF AlreadyStopped
<1>14. CASE SignalStop(t)
  BY <1>14 DEF SignalStop
<1>15. CASE WakeWorker(t)
  BY <1>15 DEF WakeWorker, Notify
<1>16. CASE Join(t)
  BY <1>16 DEF Join
<1>17. CASE EndClose(t)
  BY <1>17 DEF EndClose
<1> QED
  BY <1>1, <1>2, <1>3, <1>4, <1>5, <1>6, <1>7, <1>8, <1>9, <1>10, <1>11,
     <1>12, <1>13, <1>14, <1>15, <1>16, <1>17 DEF Begin, Continue

\* What the answer of _should_stop may change, whichever way the loop goes on.
LEMMA AnswerTypes ==
  ASSUME TypeInv, NEW w \in Workers, NEW v \in BOOLEAN, Answer(w, v)
  PROVE  /\ \E p \in WorkerPc \ {"pqPut"} : wpc' = [wpc EXCEPT ![w] = p]
         /\ site' \in [Workers -> {"loop", "wait", "flush"}]
         /\ late' = late
         /\ flushAll' \in [Workers -> BOOLEAN]
         /\ now' \in [Workers -> Nat]
<1>1. \E p \in WorkerPc \ {"pqPut"} : wpc' = [wpc EXCEPT ![w] = p]
  <2>1. \/ wpc' = [wpc EXCEPT ![w] = "exit"]
        \/ wpc' = [wpc EXCEPT ![w] = "pqGet"]
        \/ wpc' = [wpc EXCEPT ![w] = "waiting"]
        \/ wpc' = [wpc EXCEPT ![w] = "stop1"]
    BY DEF Answer
  <2> QED
    BY <2>1, Zenon DEF WorkerPc
<1>2. site' \in [Workers -> {"loop", "wait", "flush"}] /\ late' = late
  BY DEF Answer, TypeInv, TypeOK
<1>3. flushAll' \in [Workers -> BOOLEAN]
  <2>1. flushAll' = flushAll \/ flushAll' = [flushAll EXCEPT ![w] = v]
    BY DEF Answer
  <2> QED
    BY <2>1, Zenon DEF TypeInv, TypeOK
<1>4. now' \in [Workers -> Nat]
  BY DEF Answer, TypeInv, TypeOK
<1> QED
  BY <1>1, <1>2, <1>3, <1>4

\* A worker that moves on, anywhere but to pqPut, preserves the types if it
\* preserves those of its local variables, of the queues and of the history.
LEMMA LocalTypes ==
  ASSUME TypeInv, NEW w \in Workers,
         \E p \in WorkerPc \ {"pqPut"} : wpc' = [wpc EXCEPT ![w] = p],
         site' \in [Workers -> {"loop", "wait", "flush"}],
         late' \in [Workers -> BOOLEAN],
         flushAll' \in [Workers -> BOOLEAN],
         now' \in [Workers -> Nat],
         hand' = hand \/ hand' = [hand EXCEPT ![w] = NoItem],
         payload' \in [Workers -> Seq(Items)],
         queue' \in Seq(Items), Len(queue') <= QueueMaxSize,
         pqueue' \in SUBSET Items,
         posted' \in Seq(Items),
         lost' \in SUBSET Items,
         UNCHANGED <<due, control, clock, caller, accepted, entered, signalled>>
  PROVE  TypeInv'
<1>1. wpc' \in [Workers -> WorkerPc]
  BY DEF TypeInv, TypeOK
<1>2. hand' \in [Workers -> Items \cup {NoItem}]
  BY DEF TypeInv, TypeOK
<1>3. HandOK'
  BY DEF TypeInv, TypeOK, HandOK
<1> QED
  BY <1>1, <1>2, <1>3 DEF TypeInv, TypeOK, control, caller

\* The answer preserves the types.
LEMMA AnswerKeepsTypes ==
  ASSUME TypeInv, NEW w \in Workers, NEW v \in BOOLEAN, Answer(w, v),
         UNCHANGED <<shared, control, clock, caller, hand, payload, history>>
  PROVE  TypeInv'
<1>1. late \in [Workers -> BOOLEAN]
  BY DEF TypeInv, TypeOK
<1>2. /\ payload \in [Workers -> Seq(Items)] /\ queue \in Seq(Items)
      /\ Len(queue) <= QueueMaxSize /\ pqueue \in SUBSET Items
      /\ posted \in Seq(Items) /\ lost \in SUBSET Items
  BY DEF TypeInv, TypeOK
<1> QED
  BY <1>1, <1>2, AnswerTypes, LocalTypes DEF shared, history

\* Raising an exception preserves the types of what it changes.
LEMMA RaiseTypes ==
  ASSUME TypeInv, NEW w \in Workers, Raise(w) \/ NextRound(w)
  PROVE  /\ \E p \in WorkerPc \ {"pqPut"} : wpc' = [wpc EXCEPT ![w] = p]
         /\ site' \in [Workers -> {"loop", "wait", "flush"}]
         /\ late' \in [Workers -> BOOLEAN]
         /\ flushAll' \in [Workers -> BOOLEAN]
<1>1. wpc' = [wpc EXCEPT ![w] = "stop1"] \/ wpc' = [wpc EXCEPT ![w] = "exit"]
  BY DEF Raise, NextRound
<1>2. \E p \in WorkerPc \ {"pqPut"} : wpc' = [wpc EXCEPT ![w] = p]
  BY <1>1, Zenon DEF WorkerPc
<1>3. site' \in [Workers -> {"loop", "wait", "flush"}]
  BY DEF Raise, NextRound, TypeInv, TypeOK
<1>4. late' \in [Workers -> BOOLEAN] /\ flushAll' \in [Workers -> BOOLEAN]
  BY DEF Raise, NextRound, TypeInv, TypeOK
<1> QED
  BY <1>2, <1>3, <1>4

\* So does the return of _flush_pqueue.
LEMMA PqDoneTypes ==
  ASSUME TypeInv, NEW w \in Workers, PqDone(w)
  PROVE  /\ \E p \in WorkerPc \ {"pqPut"} : wpc' = [wpc EXCEPT ![w] = p]
         /\ site' \in [Workers -> {"loop", "wait", "flush"}]
         /\ late' \in [Workers -> BOOLEAN]
<1>1. wpc' = [wpc EXCEPT ![w] = "drain"] \/ wpc' = [wpc EXCEPT ![w] = "pred"]
  BY DEF PqDone
<1>2. \E p \in WorkerPc \ {"pqPut"} : wpc' = [wpc EXCEPT ![w] = p]
  BY <1>1, Zenon DEF WorkerPc
<1>3. site' \in [Workers -> {"loop", "wait", "flush"}] /\ late' \in [Workers -> BOOLEAN]
  BY DEF PqDone, TypeInv, TypeOK
<1> QED
  BY <1>2, <1>3

\* A step of a worker preserves the types.
LEMMA TypeInvWorker ==
  ASSUME TypeInv, NEW w \in Workers, WorkerStep(w)
  PROVE  TypeInv'
<1> USE QueueAssumption DEF TypeInv, TypeOK, HandOK, CallerPc, WorkerPc,
        shared, control, caller, worker, history
<1>1. CASE SetRunning(w)
  BY <1>1 DEF SetRunning
<1>2. CASE ReadStopEvent(w)
  <2>1. CASE stopEvent = "none"
    <3>1. Answer(w, FALSE) /\ UNCHANGED <<shared, control, clock, caller, hand, payload, history>>
      BY <1>2, <2>1 DEF ReadStopEvent
    <3> QED
      BY <3>1, AnswerKeepsTypes
  <2>2. CASE stopEvent # "none"
    BY <1>2, <2>2 DEF ReadStopEvent
  <2> QED
    BY <2>1, <2>2
<1>3. CASE ReadStopFlag(w)
  <2>0. UNCHANGED <<shared, control, clock, caller, hand, payload, history>>
    BY <1>3 DEF ReadStopFlag
  <2>1. CASE Raise(w) /\ UNCHANGED now
    BY <2>0, <2>1, RaiseTypes, LocalTypes
  <2>2. CASE Answer(w, stopEvent = "set")
    BY <2>0, <2>2, AnswerKeepsTypes
  <2> QED
    BY <1>3, <2>1, <2>2 DEF ReadStopFlag
<1>4. CASE Predicate(w)
  BY <1>4 DEF Predicate
<1>5. CASE WaitTimeout(w)
  BY <1>5 DEF WaitTimeout
<1>6. CASE ClearRunning(w)
  BY <1>6 DEF ClearRunning
<1>7. CASE PqGet(w)
  BY <1>7 DEF PqGet
<1>8. CASE PqEmpty(w)
  BY <1>8, PqDoneTypes, LocalTypes DEF PqEmpty
<1>9. CASE PqMove(w)
  BY <1>9 DEF PqMove, Movable
<1>10. CASE PqPutBack(w)
  <2>1. hand[w] \in Items /\ pqueue' \in SUBSET Items
    BY <1>10 DEF PqPutBack
  <2> QED
    BY <1>10, <2>1, PqDoneTypes, LocalTypes DEF PqPutBack
<1>11. CASE PqOverflow(w)
  <2>1. lost' \in SUBSET Items
    BY <1>11 DEF PqOverflow
  <2> QED
    BY <1>11, <2>1, RaiseTypes, LocalTypes DEF PqOverflow
<1>12. CASE Drain(w)
  <2>1. Head(queue) \in Items /\ queue' \in Seq(Items) /\ Len(queue') <= QueueMaxSize
    BY <1>12 DEF Drain
  <2>2. payload' \in [Workers -> Seq(Items)]
    BY <1>12, <2>1 DEF Drain
  <2> QED
    BY <1>12, <2>1, <2>2 DEF Drain
<1>13. CASE DrainDone(w)
  <2>1. CASE payload[w] = <<>>
    BY <1>13, <2>1, RaiseTypes, LocalTypes DEF DrainDone
  <2>2. CASE payload[w] # <<>>
    BY <1>13, <2>2 DEF DrainDone
  <2> QED
    BY <2>1, <2>2
<1>14. CASE Send(w)
  <2>1. posted' \in Seq(Items) /\ payload' \in [Workers -> Seq(Items)]
    BY <1>14 DEF Send
  <2> QED
    BY <1>14, <2>1, RaiseTypes, LocalTypes DEF Send
<1>15. CASE SendFails(w)
  <2>1. lost' \in SUBSET Items /\ payload' \in [Workers -> Seq(Items)]
    BY <1>15 DEF SendFails, Range
  <2> QED
    BY <1>15, <2>1, RaiseTypes, LocalTypes DEF SendFails
<1> QED
  BY <1>1, <1>2, <1>3, <1>4, <1>5, <1>6, <1>7, <1>8, <1>9, <1>10, <1>11,
     <1>12, <1>13, <1>14, <1>15 DEF WorkerStep

\* Every step preserves the types.
LEMMA TypeInvStep == TypeInv /\ [Next]_vars => TypeInv'
<1> SUFFICES ASSUME TypeInv, [Next]_vars PROVE TypeInv'
  OBVIOUS
<1>1. CASE Tick
  BY <1>1 DEF Tick, TypeInv, TypeOK, HandOK, shared, control, caller, worker, history
<1>2. CASE UNCHANGED vars
  BY <1>2 DEF vars, TypeInv, TypeOK, HandOK, shared, control, caller, worker, history
<1> QED
  BY <1>1, <1>2, TypeInvCaller, TypeInvWorker DEF Next

\* Every variable keeps its type, and _queue its bound, in every reachable state.
THEOREM Typed == Spec => []TypeOK
<1>1. TypeInv => TypeOK
  BY DEF TypeInv
<1> QED
  BY <1>1, TypeInvInit, TypeInvStep, PTL DEF Spec
-----------------------------------------------------------------------------
(* The lock, the worker and its stop event.                                 *)

\* The program points between taking and releasing _lock.
Holding == {"start", "wait", "blocked", "woken", "closing", "stopping", "join"}

\* _lock is held exactly by the caller that is at one of them.
LockOK == \A t \in Threads : pc[t] \in Holding <=> lock = t

\* _running is set exactly while a worker is in its loop.
RunOK == running <=> \E w \in Workers : InLoop(w)

\* The caller that started a worker holds _lock until the worker is running.
NewOK ==
  \A w \in Workers : wpc[w] = "new" =>
    ~running /\ \E t \in Threads : pc[t] \in {"wait", "blocked"}

\* As long as no join times out, close knows the worker it has to join.
ThreadOK ==
  "join_timeout" \notin Faults => \A w \in Workers : Alive(w) => thread = w

ControlInv ==
  TypeInv /\ LockOK /\ RunOK /\ NewOK /\ SingleWorker /\ StopIsOwned /\ ThreadOK

\* NoLostWakeup, strengthened to the steps that lead to the sleep: a worker that
\* holds the Condition has seen the queue too short.
SleepOK ==
  \A w \in Workers :
    /\ wpc[w] = "waiting" \/ (site[w] = "wait" /\ wpc[w] \in {"stop1", "stop2"})
    /\ ShouldFlush
    => \E t \in Threads : pc[t] # "idle" /\ call[t] = "enqueue"

\* The program points of close.
CallOK ==
  \A t \in Threads :
    pc[t] \in {"closeLock", "closing", "stopping", "join", "closed"} => call[t] = "close"

WakeInv == ControlInv /\ CallOK /\ SleepOK /\ NoLostWakeup

\* Nothing is running and nobody holds _lock initially.
LEMMA ControlInvInit == Init => ControlInv
<1> SUFFICES ASSUME Init PROVE ControlInv
  OBVIOUS
<1>1. TypeInv
  BY TypeInvInit
<1>2. LockOK
  BY QueueAssumption DEF Init, LockOK, Holding
<1>3. RunOK /\ NewOK /\ SingleWorker /\ StopIsOwned /\ ThreadOK
  BY DEF Init, RunOK, NewOK, SingleWorker, StopIsOwned, ThreadOK, InLoop, Alive
<1> QED
  BY <1>1, <1>2, <1>3 DEF ControlInv

\* The steps of a worker other than its first and its last only move it about
\* in its loop.
LEMMA LoopSteps ==
  ASSUME TypeInv, NEW w \in Workers, WorkerStep(w), ~SetRunning(w), ~ClearRunning(w)
  PROVE  /\ UNCHANGED <<lock, running, stopEvent, thread, pc, call>>
         /\ InLoop(w)
         /\ \E p \in WorkerPc \ {"dead", "new"} : wpc' = [wpc EXCEPT ![w] = p]
<1> USE DEF TypeInv, TypeOK, InLoop, WorkerPc, shared, control, caller, history
<1>1. CASE ReadStopEvent(w)
  BY <1>1 DEF ReadStopEvent, Answer
<1>2. CASE ReadStopFlag(w)
  BY <1>2 DEF ReadStopFlag, Answer, Raise, NextRound
<1>3. CASE Predicate(w)
  BY <1>3 DEF Predicate
<1>4. CASE WaitTimeout(w)
  BY <1>4 DEF WaitTimeout
<1>5. CASE PqGet(w)
  BY <1>5 DEF PqGet
<1>6. CASE PqEmpty(w)
  BY <1>6 DEF PqEmpty, PqDone
<1>7. CASE PqMove(w)
  BY <1>7 DEF PqMove
<1>8. CASE PqPutBack(w)
  BY <1>8 DEF PqPutBack, PqDone
<1>9. CASE PqOverflow(w)
  BY <1>9 DEF PqOverflow, Raise, NextRound
<1>10. CASE Drain(w)
  BY <1>10 DEF Drain
<1>11. CASE DrainDone(w)
  BY <1>11 DEF DrainDone, NextRound
<1>12. CASE Send(w)
  BY <1>12 DEF Send, NextRound
<1>13. CASE SendFails(w)
  BY <1>13 DEF SendFails, NextRound
<1> QED
  BY <1>1, <1>2, <1>3, <1>4, <1>5, <1>6, <1>7, <1>8, <1>9, <1>10, <1>11,
     <1>12, <1>13 DEF WorkerStep

\* A step of a caller preserves the control invariant.
LEMMA ControlInvCaller ==
  ASSUME ControlInv, TypeInv', NEW t \in Threads, Begin(t) \/ AcquireLock(t) \/ Continue(t)
  PROVE  ControlInv'
<1> USE QueueAssumption DEF ControlInv, LockOK, RunOK, NewOK, SingleWorker, StopIsOwned,
        ThreadOK, Holding, InLoop, Alive
<1>0. pc \in [Threads -> CallerPc] /\ wpc \in [Workers -> WorkerPc]
  BY DEF TypeInv, TypeOK
<1> USE DEF CallerPc, WorkerPc, shared, control, caller, worker
<1>1. ASSUME NEW i \in Items, Enqueue(t, i) PROVE ControlInv'
  BY <1>0, <1>1 DEF Enqueue
<1>2. ASSUME NEW i \in Items, NEW d \in Delays, EnqueueAfter(t, i, d) PROVE ControlInv'
  BY <1>0, <1>2 DEF EnqueueAfter
<1>3. ASSUME NEW i \in Items, Reject(t, i) PROVE ControlInv'
  BY <1>0, <1>3 DEF Reject
<1>4. CASE EnsureRunning(t)
  BY <1>0, <1>4 DEF EnsureRunning, Ensured
<1>5. CASE AcquireLock(t)
  BY <1>0, <1>5 DEF AcquireLock
<1>6. CASE AlreadyRunning(t)
  BY <1>0, <1>6 DEF AlreadyRunning, Ensured
<1>7. ASSUME NEW w \in Workers, StartWorker(t, w) PROVE ControlInv'
  BY <1>0, <1>7 DEF StartWorker
<1>8. CASE StartFails(t)
  BY <1>0, <1>8 DEF StartFails, Ensured
<1>9. CASE WaitRunning(t)
  BY <1>0, <1>9 DEF WaitRunning
<1>10. CASE WorkerStarted(t)
  BY <1>0, <1>10 DEF WorkerStarted, Ensured
<1>11. CASE MaybeFlush(t)
  BY <1>0, <1>11 DEF MaybeFlush, Notify
<1>12. CASE BeginClose(t)
  BY <1>0, <1>12 DEF BeginClose
<1>13. CASE AlreadyStopped(t)
  BY <1>0, <1>13 DEF AlreadyStopped
<1>14. CASE SignalStop(t)
  BY <1>0, <1>14 DEF SignalStop
<1>15. CASE WakeWorker(t)
  BY <1>0, <1>15 DEF WakeWorker, Notify
<1>16. CASE Join(t)
  BY <1>0, <1>16 DEF Join
<1>17. CASE EndClose(t)
  BY <1>0, <1>17 DEF EndClose
<1> QED
  BY <1>1, <1>2, <1>3, <1>4, <1>5, <1>6, <1>7, <1>8, <1>9, <1>10, <1>11,
     <1>12, <1>13, <1>14, <1>15, <1>16, <1>17 DEF Begin, Continue

\* A step of a worker preserves the control invariant.
LEMMA ControlInvWorker ==
  ASSUME ControlInv, TypeInv', NEW w \in Workers, WorkerStep(w)
  PROVE  ControlInv'
<1> USE DEF ControlInv, LockOK, RunOK, NewOK, SingleWorker, StopIsOwned,
        ThreadOK, Holding, InLoop, Alive, WorkerPc
<1>0. pc \in [Threads -> CallerPc] /\ wpc \in [Workers -> WorkerPc]
  BY DEF TypeInv, TypeOK
<1>1. CASE SetRunning(w)
  BY <1>0, <1>1 DEF SetRunning
<1>2. CASE ClearRunning(w)
  BY <1>0, <1>2 DEF ClearRunning, caller
<1>3. CASE ~SetRunning(w) /\ ~ClearRunning(w)
  <2>1. /\ UNCHANGED <<lock, running, stopEvent, thread, pc, call>>
        /\ InLoop(w)
        /\ \E p \in WorkerPc \ {"dead", "new"} : wpc' = [wpc EXCEPT ![w] = p]
    BY <1>3, LoopSteps
  <2> QED
    BY <1>0, <2>1
<1> QED
  BY <1>1, <1>2, <1>3

\* The control invariant holds in every reachable state.
LEMMA ControlInvariant == Spec => []ControlInv
<1>1. ControlInv /\ [Next]_vars => ControlInv'
  <2> SUFFICES ASSUME ControlInv, [Next]_vars PROVE ControlInv'
    OBVIOUS
  <2>1. TypeInv'
    BY TypeInvStep DEF ControlInv
  <2>2. ASSUME UNCHANGED <<lock, running, stopEvent, thread, pc, wpc>> PROVE ControlInv'
    BY <2>1, <2>2 DEF ControlInv, LockOK, RunOK, NewOK, SingleWorker, StopIsOwned,
      ThreadOK, InLoop, Alive
  <2>3. CASE Tick
    BY <2>2, <2>3 DEF Tick, control, caller, worker
  <2>4. CASE UNCHANGED vars
    BY <2>2, <2>4 DEF vars, control, caller, worker
  <2> QED
    BY <2>1, <2>3, <2>4, ControlInvCaller, ControlInvWorker DEF Next
<1> QED
  BY <1>1, ControlInvInit, PTL DEF Spec

\* However the callers interleave, at most one worker thread exists.
THEOREM OneWorker == Spec => []SingleWorker
<1>1. ControlInv => SingleWorker
  BY DEF ControlInv
<1> QED
  BY <1>1, ControlInvariant, PTL

\* No stop event is left set for a later worker to find.
THEOREM StopEventOwned == Spec => []StopIsOwned
<1>1. ControlInv => StopIsOwned
  BY DEF ControlInv
<1> QED
  BY <1>1, ControlInvariant, PTL

\* As long as join does not time out, no worker is left when close has joined.
THEOREM CloseLeavesNoWorker ==
  ASSUME "join_timeout" \notin Faults
  PROVE  Spec => CloseStopsWorker
<1> DEFINE Stops == \A t \in Threads : pc[t] = "join" /\ pc'[t] = "closed"
                      => ~running' /\ \A w \in Workers : ~Alive(w)'
<1>1. ControlInv /\ ControlInv' /\ [Next]_vars => [Stops]_vars
  <2> SUFFICES ASSUME ControlInv, ControlInv', Next, NEW t \in Threads,
                      pc[t] = "join", pc'[t] = "closed"
               PROVE  ~running' /\ \A w \in Workers : ~Alive(w)'
    OBVIOUS
  <2>0. pc \in [Threads -> CallerPc]
    BY DEF ControlInv, TypeInv, TypeOK
  <2>1. Join(t)
    <3>1. \A w \in Workers : WorkerStep(w) => pc'[t] # "closed"
      BY <2>0, LoopSteps DEF SetRunning, ClearRunning, caller, ControlInv
    <3>2. ~Tick
      BY DEF Tick, caller
    <3>3. \A u \in Threads : Begin(u) \/ AcquireLock(u) \/ Continue(u) => u = t /\ Join(t)
      BY <2>0 DEF Begin, Continue, Enqueue, EnqueueAfter, Reject, BeginClose, EnsureRunning,
        Ensured, AcquireLock, AlreadyRunning, StartWorker, StartFails, WaitRunning,
        WorkerStarted, MaybeFlush, AlreadyStopped, SignalStop, WakeWorker, EndClose, Join,
        CallerPc
    <3> QED
      BY <3>1, <3>2, <3>3 DEF Next
  <2>2. \A w \in Workers : ~Alive(w)
    BY <2>1, QueueAssumption DEF Join, ControlInv, ThreadOK, Alive
  <2>3. wpc' = wpc
    BY <2>1 DEF Join, worker
  <2>4. \A w \in Workers : ~Alive(w)'
    BY <2>2, <2>3 DEF Alive
  <2> QED
    BY <2>4 DEF ControlInv, RunOK, InLoop, Alive
<1> QED
  BY <1>1, ControlInvariant, PTL DEF Spec, CloseStopsWorker
-----------------------------------------------------------------------------
(* Wakeups.                                                                 *)

\* Initially nobody sleeps.
LEMMA WakeInvInit == Init => WakeInv
  BY ControlInvInit DEF Init, WakeInv, CallOK, SleepOK, NoLostWakeup

\* A step of a caller preserves the invariant.
LEMMA WakeInvCaller ==
  ASSUME WakeInv, ControlInv', NEW t \in Threads, Begin(t) \/ AcquireLock(t) \/ Continue(t)
  PROVE  WakeInv'
<1> USE DEF WakeInv, CallOK, SleepOK, NoLostWakeup, ShouldFlush
<1>0. /\ pc \in [Threads -> CallerPc] /\ wpc \in [Workers -> WorkerPc]
      /\ call \in [Threads -> {"none", "enqueue", "after", "close"}]
      /\ LockOK
  BY DEF ControlInv, TypeInv, TypeOK
<1> USE <1>0 DEF CallerPc, WorkerPc, shared, control, caller, worker
<1>1. ASSUME NEW i \in Items, Enqueue(t, i) PROVE WakeInv'
  BY <1>1 DEF Enqueue
<1>2. ASSUME NEW i \in Items, NEW d \in Delays, EnqueueAfter(t, i, d) PROVE WakeInv'
  BY <1>2 DEF EnqueueAfter
<1>3. ASSUME NEW i \in Items, Reject(t, i) PROVE WakeInv'
  BY <1>3 DEF Reject
<1>4. CASE EnsureRunning(t)
  BY <1>4 DEF EnsureRunning, Ensured
<1>5. CASE AcquireLock(t)
  BY <1>5 DEF AcquireLock
<1>6. CASE AlreadyRunning(t)
  BY <1>6 DEF AlreadyRunning, Ensured
<1>7. ASSUME NEW w \in Workers, StartWorker(t, w) PROVE WakeInv'
  BY <1>7 DEF StartWorker
<1>8. CASE StartFails(t)
  BY <1>8 DEF StartFails, Ensured
<1>9. CASE WaitRunning(t)
  BY <1>9 DEF WaitRunning
<1>10. CASE WorkerStarted(t)
  BY <1>10 DEF WorkerStarted, Ensured
<1>11. CASE MaybeFlush(t)
  BY <1>11 DEF MaybeFlush, Notify, CondHeld
<1>12. CASE BeginClose(t)
  BY <1>12 DEF BeginClose
<1>13. CASE AlreadyStopped(t)
  BY <1>13 DEF AlreadyStopped
<1>14. CASE SignalStop(t)
  BY <1>14 DEF SignalStop, LockOK, Holding
<1>15. CASE WakeWorker(t)
  BY <1>15 DEF WakeWorker, Notify, CondHeld
<1>16. CASE Join(t)
  BY <1>16 DEF Join
<1>17. CASE EndClose(t)
  BY <1>17 DEF EndClose
<1> QED
  BY <1>1, <1>2, <1>3, <1>4, <1>5, <1>6, <1>7, <1>8, <1>9, <1>10, <1>11,
     <1>12, <1>13, <1>14, <1>15, <1>16, <1>17 DEF Begin, Continue

\* A step of a worker preserves the invariant: a worker goes to sleep only when it
\* has seen neither a long enough queue nor a set stop event.
LEMMA WakeInvWorker ==
  ASSUME WakeInv, ControlInv', NEW w \in Workers, WorkerStep(w)
  PROVE  WakeInv'
<1>0. /\ pc \in [Threads -> CallerPc] /\ wpc \in [Workers -> WorkerPc]
      /\ site \in [Workers -> {"loop", "wait", "flush"}]
      /\ stopEvent \in {"none", "clear", "set"}
      /\ TypeInv
  BY DEF WakeInv, ControlInv, TypeInv, TypeOK
<1>1. \A v \in Workers : v # w => wpc[v] = "dead"
  <2>1. Alive(w)
    BY LoopSteps, <1>0 DEF SetRunning, ClearRunning, InLoop, Alive
  <2> QED
    BY <2>1 DEF WakeInv, ControlInv, SingleWorker, Alive
<1> DEFINE Sleepy == wpc[w] = "waiting" \/ (site[w] = "wait" /\ wpc[w] \in {"stop1", "stop2"})
<1>2. ASSUME UNCHANGED call,
             pc' = pc \/ \A t \in Threads : pc[t] # "idle" => pc'[t] # "idle",
             \A t \in Threads : pc'[t] = pc[t] \/ pc'[t] = "woken",
             \A v \in Workers : v # w => wpc'[v] = wpc[v],
             Sleepy' => \/ ~ShouldFlush'
                        \/ Sleepy /\ (ShouldFlush' => ShouldFlush),
             wpc'[w] = "waiting" => \/ wpc[w] = "waiting" /\ stopEvent' = stopEvent
                                    \/ stopEvent' # "set"
      PROVE  WakeInv'
  <2>1. CallOK'
    BY <1>2 DEF WakeInv, CallOK
  <2>2. SleepOK'
    BY <1>1, <1>2 DEF WakeInv, SleepOK
  <2>3. NoLostWakeup'
    BY <1>1, <1>2, <2>2 DEF WakeInv, NoLostWakeup, SleepOK
  <2> QED
    BY <2>1, <2>2, <2>3 DEF WakeInv
<1>3. CASE SetRunning(w)
  BY <1>0, <1>2, <1>3 DEF SetRunning, CallerPc
<1>4. CASE ClearRunning(w)
  BY <1>0, <1>2, <1>4 DEF ClearRunning, caller
<1>5. CASE ReadStopEvent(w)
  BY <1>0, <1>2, <1>5 DEF ReadStopEvent, Answer, shared, control, caller, ShouldFlush
<1>6. CASE ReadStopFlag(w)
  BY <1>0, <1>2, <1>6 DEF ReadStopFlag, Answer, Raise, NextRound, shared, control, caller, ShouldFlush
<1>7. CASE Predicate(w)
  BY <1>0, <1>2, <1>7 DEF Predicate, shared, control, caller, ShouldFlush
<1>8. CASE ~SetRunning(w) /\ ~ClearRunning(w) /\ ~ReadStopEvent(w) /\ ~ReadStopFlag(w) /\ ~Predicate(w)
  <2>1. UNCHANGED <<pc, call>> /\ \A v \in Workers : v # w => wpc'[v] = wpc[v]
    BY <1>0, <1>8, LoopSteps
  <2>2. wpc'[w] # "waiting"
    BY <1>0, <1>8 DEF WorkerStep, WaitTimeout, PqGet, PqEmpty, PqMove, PqPutBack, PqDone,
      PqOverflow, Raise, NextRound, Drain, DrainDone, Send, SendFails
  <2>3. ~(site'[w] = "wait" /\ wpc'[w] \in {"stop1", "stop2"})
    BY <1>0, <1>8 DEF WorkerStep, WaitTimeout, PqGet, PqEmpty, PqMove, PqPutBack, PqDone,
      PqOverflow, Raise, NextRound, Drain, DrainDone, Send, SendFails
  <2> QED
    BY <1>2, <2>1, <2>2, <2>3
<1> QED
  BY <1>3, <1>4, <1>5, <1>6, <1>7, <1>8 DEF WorkerStep

\* A worker never sleeps through a close, nor through a queue that has reached
\* batch_min_size, unless the notification is still on its way.
THEOREM WakeupsArrive == Spec => []NoLostWakeup
<1>1. WakeInv /\ ControlInv' /\ [Next]_vars => WakeInv'
  <2> SUFFICES ASSUME WakeInv, ControlInv', [Next]_vars PROVE WakeInv'
    OBVIOUS
  <2>1. ASSUME UNCHANGED <<queue, stopEvent, pc, call, wpc, site>> PROVE WakeInv'
    BY <2>1 DEF WakeInv, CallOK, SleepOK, NoLostWakeup, ShouldFlush
  <2>2. CASE Tick
    BY <2>1, <2>2 DEF Tick, shared, control, caller, worker
  <2>3. CASE UNCHANGED vars
    BY <2>1, <2>3 DEF vars, shared, control, caller, worker
  <2> QED
    BY <2>2, <2>3, WakeInvCaller, WakeInvWorker DEF Next
<1>2. WakeInv => NoLostWakeup
  BY DEF WakeInv
<1> QED
  BY <1>1, <1>2, WakeInvInit, ControlInvariant, PTL DEF Spec
-----------------------------------------------------------------------------
(* What becomes of the rows.  DataInv is the part of the state that tells   *)
(* where a row may be.                                                      *)

\* A worker that empties the queues was told to by a close.
FlushOK ==
  /\ stopEvent = "set" => signalled
  /\ \A w \in Workers : flushAll[w] => signalled

\* The time a worker compares with has come.
NowOK == \A w \in Workers : now[w] <= clock

\* An entry in a worker's hand is in no other place.
TakenOK ==
  \A w \in Workers :
    hand[w] # NoItem => wpc[w] = "pqPut" /\ hand[w] \notin pqueue /\ hand[w] \notin fresh

FreshOK == fresh \cap pqueue = {}

\* A worker has a batch between taking its first row and handing it over.
BatchOK ==
  \A w \in Workers :
    /\ payload[w] # <<>> => wpc[w] \in {"drain", "send"}
    /\ wpc[w] = "send" => payload[w] # <<>>
    /\ Len(payload[w]) > BatchMaxSize => signalled

DataInv == FlushOK /\ NowOK /\ TakenOK /\ FreshOK /\ BatchOK

\* At the start no row has been taken and no close has begun.
LEMMA DataInvInit == Init => DataInv
<1> SUFFICES ASSUME Init PROVE DataInv
  OBVIOUS
<1>1. \A w \in Workers : Len(payload[w]) = 0
  BY DEF Init
<1> QED
  BY <1>1, QueueAssumption DEF Init, DataInv, FlushOK, NowOK, TakenOK, FreshOK, BatchOK

\* What the steps of a caller that take no row have in common.
QuietCall ==
  /\ UNCHANGED <<shared, clock, fresh, flushAll, now, hand, payload, accepted, entered, posted, lost>>
  /\ signalled' = signalled \/ signalled' = TRUE
  /\ stopEvent' = "set" => stopEvent = "set" \/ signalled'
  /\ \A w \in Workers :
       wpc'[w] # wpc[w] => wpc[w] \in {"dead", "waiting"} /\ wpc'[w] \in {"new", "pred"}

\* A caller puts a row in one of the queues, is refused, or touches no row.
LEMMA CallerShape ==
  ASSUME TypeInv, NEW t \in Threads, Begin(t) \/ AcquireLock(t) \/ Continue(t)
  PROVE  \/ \E i \in Items : Enqueue(t, i) \/ Reject(t, i)
         \/ \E i \in Items, d \in Delays : EnqueueAfter(t, i, d)
         \/ QuietCall
<1> USE DEF QuietCall, shared, control, caller, worker, history
<1>0. wpc \in [Workers -> WorkerPc]
  BY DEF TypeInv, TypeOK
<1>1. CASE BeginClose(t)
  BY <1>1 DEF BeginClose
<1>2. CASE AcquireLock(t)
  BY <1>2 DEF AcquireLock
<1>3. CASE EnsureRunning(t) \/ AlreadyRunning(t)
  BY <1>3 DEF EnsureRunning, AlreadyRunning
<1>4. ASSUME NEW w \in Workers, StartWorker(t, w) PROVE QuietCall
  BY <1>0, <1>4 DEF StartWorker, Alive
<1>5. CASE StartFails(t) \/ WaitRunning(t) \/ WorkerStarted(t)
  BY <1>5 DEF StartFails, WaitRunning, WorkerStarted
<1>6. CASE MaybeFlush(t)
  BY <1>0, <1>6 DEF MaybeFlush, Notify
<1>7. CASE AlreadyStopped(t) \/ SignalStop(t)
  BY <1>7 DEF AlreadyStopped, SignalStop
<1>8. CASE WakeWorker(t)
  BY <1>0, <1>8 DEF WakeWorker, Notify
<1>9. CASE Join(t) \/ EndClose(t)
  BY <1>9 DEF Join, EndClose
<1> QED
  BY <1>1, <1>2, <1>3, <1>4, <1>5, <1>6, <1>7, <1>8, <1>9 DEF Begin, Continue

\* The steps of enqueue, enqueue_after and close preserve DataInv.
LEMMA DataInvCaller ==
  ASSUME TypeInv, DataInv, NEW t \in Threads, Begin(t) \/ AcquireLock(t) \/ Continue(t)
  PROVE  DataInv'
<1> USE DEF DataInv, FlushOK, NowOK, TakenOK, FreshOK, BatchOK
<1>1. ASSUME NEW i \in Items, Enqueue(t, i) PROVE DataInv'
  BY <1>1 DEF Enqueue, control, worker
<1>2. ASSUME NEW i \in Items, Reject(t, i) PROVE DataInv'
  BY <1>2 DEF Reject, shared, control, worker, history
<1>3. ASSUME NEW i \in Items, NEW d \in Delays, EnqueueAfter(t, i, d) PROVE DataInv'
  BY <1>3 DEF EnqueueAfter, control, worker
<1>4. CASE QuietCall
  BY <1>4 DEF QuietCall, shared
<1> QED
  BY <1>1, <1>2, <1>3, <1>4, CallerShape

\* The steps of a worker about its loop only.
QuietStep(w) ==
  /\ UNCHANGED <<shared, stopEvent, clock, fresh, hand, payload, history>>
  /\ hand[w] = NoItem
  /\ \E p \in WorkerPc \ {"pqPut", "send"} :
       wpc' = [wpc EXCEPT ![w] = p] /\ (payload[w] # <<>> => p = "drain")
  /\ flushAll' = flushAll \/ \E v \in BOOLEAN :
       flushAll' = [flushAll EXCEPT ![w] = v] /\ (v => stopEvent = "set")
  /\ now' = now \/ now' = [now EXCEPT ![w] = clock]

\* _loop, _should_stop and wait_for touch no row.
LEMMA QuietSteps ==
  ASSUME TypeInv, TakenOK, BatchOK, NEW w \in Workers,
         \/ SetRunning(w) \/ ReadStopEvent(w) \/ ReadStopFlag(w) \/ Predicate(w)
         \/ WaitTimeout(w) \/ ClearRunning(w) \/ PqEmpty(w)
  PROVE  QuietStep(w)
<1> USE DEF TypeInv, TypeOK, WorkerPc, TakenOK, BatchOK, QuietStep,
        shared, control, caller, history
<1>1. CASE SetRunning(w)
  BY <1>1 DEF SetRunning
<1>2. CASE ReadStopEvent(w)
  BY <1>2 DEF ReadStopEvent, Answer
<1>3. CASE ReadStopFlag(w)
  BY <1>3 DEF ReadStopFlag, Answer, Raise, NextRound
<1>4. CASE Predicate(w)
  BY <1>4 DEF Predicate
<1>5. CASE WaitTimeout(w)
  BY <1>5 DEF WaitTimeout
<1>6. CASE ClearRunning(w)
  BY <1>6 DEF ClearRunning
<1>7. CASE PqEmpty(w)
  BY <1>7 DEF PqEmpty, PqDone
<1> QED
  BY <1>1, <1>2, <1>3, <1>4, <1>5, <1>6, <1>7

\* The steps of the worker preserve DataInv; that there is one worker is what keeps
\* its entry out of the other places.
LEMMA DataInvWorker ==
  ASSUME TypeInv, SingleWorker, DataInv, NEW w \in Workers, WorkerStep(w)
  PROVE  DataInv'
<1> USE QueueAssumption DEF DataInv, FlushOK, NowOK, TakenOK, FreshOK, BatchOK
<1>0. /\ wpc \in [Workers -> WorkerPc] /\ hand \in [Workers -> Items \cup {NoItem}]
      /\ flushAll \in [Workers -> BOOLEAN] /\ now \in [Workers -> Nat] /\ clock \in Nat
      /\ payload \in [Workers -> Seq(Items)]
  BY DEF TypeInv, TypeOK
<1>1. CASE QuietStep(w)
  <2>1. PICK p \in WorkerPc \ {"pqPut", "send"} :
          wpc' = [wpc EXCEPT ![w] = p] /\ (payload[w] # <<>> => p = "drain")
    BY <1>1 DEF QuietStep
  <2>2. UNCHANGED <<pqueue, stopEvent, clock, fresh, hand, payload, signalled>>
    BY <1>1 DEF QuietStep, shared, history
  <2>3. FlushOK'
    <3>1. CASE flushAll' = flushAll
      BY <2>2, <3>1
    <3>2. ASSUME NEW v \in BOOLEAN, flushAll' = [flushAll EXCEPT ![w] = v], v => stopEvent = "set"
          PROVE  FlushOK'
      <4>1. \A u \in Workers : flushAll'[u] => flushAll[u] \/ v
        <5>1. TAKE u \in Workers
        <5>2. flushAll'[u] = IF u = w THEN v ELSE flushAll[u]
          BY <1>0, <3>2, <5>1, Zenon
        <5> QED
          BY <5>2, Zenon
      <4> QED
        BY <2>2, <3>2, <4>1
    <3> QED
      BY <1>1, <3>1, <3>2 DEF QuietStep
  <2>4. NowOK'
    <3>1. now' = now \/ now' = [now EXCEPT ![w] = clock]
      BY <1>1 DEF QuietStep
    <3>2. ASSUME NEW u \in Workers PROVE now'[u] <= clock
      <4>1. now[u] <= clock /\ clock <= clock
        BY <1>0
      <4>2. now'[u] = now[u] \/ now'[u] = clock
        BY <1>0, <3>1
      <4> QED
        BY <4>1, <4>2
    <3> QED
      BY <2>2, <3>2
  <2>5. TakenOK' /\ FreshOK' /\ BatchOK'
    BY <1>0, <1>1, <2>1, <2>2 DEF QuietStep
  <2> QED
    BY <2>3, <2>4, <2>5
<1>2. CASE PqGet(w)
  BY <1>0, <1>2 DEF PqGet, Earliest, control, caller, history
<1>3. CASE PqMove(w)
  BY <1>0, <1>3 DEF PqMove, control, caller
<1>4. CASE PqPutBack(w)
  <2>1. hand' = [v \in Workers |-> NoItem]
    BY <1>0, <1>4 DEF PqPutBack, SingleWorker, Alive
  <2>2. TakenOK' /\ FreshOK'
    <3>1. hand[w] \in Items /\ hand[w] \notin fresh
      BY <1>4 DEF PqPutBack, TypeInv, HandOK
    <3>2. pqueue' = pqueue \cup {hand[w]} /\ fresh' = fresh
      BY <1>4 DEF PqPutBack, caller
    <3> QED
      BY <2>1, <3>1, <3>2
  <2>3. BatchOK'
    <3>1. payload[w] = <<>> /\ UNCHANGED <<payload, signalled>>
      BY <1>4 DEF PqPutBack, history
    <3>2. wpc' = [wpc EXCEPT ![w] = "drain"] \/ wpc' = [wpc EXCEPT ![w] = "pred"]
      BY <1>4 DEF PqPutBack, PqDone
    <3> QED
      BY <1>0, <3>1, <3>2
  <2>4. FlushOK' /\ NowOK'
    BY <1>4 DEF PqPutBack, control, history
  <2> QED
    BY <2>2, <2>3, <2>4
<1>5. CASE PqOverflow(w)
  BY <1>0, <1>5 DEF PqOverflow, Raise, NextRound, shared, control, caller
<1>6. CASE Drain(w)
  BY <1>0, <1>6 DEF Drain, BatchFull, control, caller, history
<1>7. CASE DrainDone(w)
  BY <1>0, <1>7 DEF DrainDone, NextRound, shared, control, caller, history
<1>8. CASE Send(w)
  BY <1>0, <1>8 DEF Send, NextRound, shared, control, caller
<1>9. CASE SendFails(w)
  BY <1>0, <1>9 DEF SendFails, NextRound, shared, control, caller
<1> QED
  BY <1>1, <1>2, <1>3, <1>4, <1>5, <1>6, <1>7, <1>8, <1>9, QuietSteps DEF WorkerStep
-----------------------------------------------------------------------------
(* The batch in flight and the entry taken.                                 *)

\* Only the worker that exists has a batch.
LEMMA OneBatch ==
  ASSUME TypeInv, SingleWorker, BatchOK, NEW w \in Workers, Alive(w)
  PROVE  /\ \A v \in Workers \ {w} : payload[v] = <<>>
         /\ InFlight = payload[w]
<1>1. \A v \in Workers \ {w} : payload[v] = <<>>
  BY DEF SingleWorker, BatchOK, Alive
<1> QED
  BY <1>1 DEF InFlight

\* Likewise an entry of _pqueue.
LEMMA OneHand ==
  ASSUME TypeInv, SingleWorker, TakenOK, NEW w \in Workers, Alive(w)
  PROVE  \A v \in Workers \ {w} : hand[v] = NoItem
  BY DEF SingleWorker, TakenOK, Alive

\* The batch in flight is a sequence of rows.
LEMMA InFlightType ==
  ASSUME TypeInv
  PROVE  InFlight \in Seq(Items)
<1>1. payload \in [Workers -> Seq(Items)]
  BY DEF TypeInv, TypeOK
<1>2. CASE \E w \in Workers : payload[w] # <<>>
  BY <1>1, <1>2 DEF InFlight
<1>3. CASE ~\E w \in Workers : payload[w] # <<>>
  BY <1>3 DEF InFlight
<1> QED
  BY <1>2, <1>3
-----------------------------------------------------------------------------
(* Every step is one of Delivery, or changes nothing Delivery can see.      *)

\* A caller's step is an Accept, an AcceptLater, a Refuse or a BeginClosing.
LEMMA CallerImplements ==
  ASSUME TypeInv, NEW t \in Threads, Begin(t) \/ AcquireLock(t) \/ Continue(t)
  PROVE  [Promise!Next]_(Promise!vars)
<1>0. InFlight \in Seq(Items) /\ queue \in Seq(Items) /\ due \in [Items -> Nat] /\ clock \in Nat
  BY InFlightType DEF TypeInv, TypeOK
<1>1. ASSUME NEW i \in Items, Enqueue(t, i) PROVE Promise!Accept(i)
  <2>1. InFlight' = InFlight /\ Hands' = Hands
    BY <1>1 DEF Enqueue, worker, InFlight, Hands
  <2>2. InFlight \o Append(queue, i) = Append(InFlight \o queue, i)
    BY <1>0, AppendToLine
  <2> QED
    BY <1>1, <2>1, <2>2 DEF Enqueue, Promise!Accept
<1>2. ASSUME NEW i \in Items, Reject(t, i) PROVE Promise!Refuse(i)
  BY <1>2 DEF Reject, Promise!Refuse, shared, worker, history, InFlight, Hands
<1>3. ASSUME NEW i \in Items, NEW d \in Delays, EnqueueAfter(t, i, d) PROVE Promise!AcceptLater(i)
  <2>1. InFlight' = InFlight /\ Hands' = Hands
    BY <1>3 DEF EnqueueAfter, worker, InFlight, Hands
  <2>2. d \in Nat
    BY QueueAssumption
  <2> QED
    BY <1>0, <1>3, <2>1, <2>2 DEF EnqueueAfter, Promise!AcceptLater
<1>4. CASE QuietCall
  <2>1. InFlight' = InFlight /\ Hands' = Hands
    BY <1>4 DEF QuietCall, InFlight, Hands
  <2>2. CASE signalled' = signalled
    BY <1>4, <2>1, <2>2 DEF QuietCall, shared, Promise!vars
  <2>3. CASE signalled' = TRUE
    BY <1>4, <2>1, <2>3 DEF QuietCall, shared, Promise!BeginClosing, Promise!Next
  <2> QED
    BY <1>4, <2>2, <2>3 DEF QuietCall
<1> QED
  BY <1>1, <1>2, <1>3, <1>4, CallerShape DEF Promise!Next

\* A worker's step is a Release, a HandOver, a DropDelayed or a DropBatch.
LEMMA WorkerImplements ==
  ASSUME TypeInv, SingleWorker, DataInv, NEW w \in Workers, WorkerStep(w)
  PROVE  [Promise!Next]_(Promise!vars)
<1>0. /\ InFlight \in Seq(Items) /\ queue \in Seq(Items) /\ due \in [Items -> Nat]
      /\ clock \in Nat /\ now \in [Workers -> Nat] /\ wpc \in [Workers -> WorkerPc]
      /\ payload \in [Workers -> Seq(Items)] /\ hand \in [Workers -> Items \cup {NoItem}]
  BY InFlightType DEF TypeInv, TypeOK
<1>1. CASE QuietStep(w)
  BY <1>1 DEF QuietStep, shared, history, Promise!vars, InFlight, Hands
<1>2. CASE wpc[w] = "pqPut"
  <2>1. hand[w] \in Items /\ hand[w] \notin pqueue /\ Hands = {hand[w]} /\ Alive(w)
    <3>1. hand[w] \in Items /\ Alive(w)
      BY <1>2 DEF TypeInv, HandOK, Alive
    <3>2. hand[w] # NoItem /\ hand[w] \notin pqueue
      BY <3>1, QueueAssumption DEF DataInv, TakenOK
    <3>3. \A v \in Workers \ {w} : hand[v] = NoItem
      BY <3>1, OneHand DEF DataInv
    <3> QED
      BY <3>1, <3>2, <3>3 DEF Hands
  <2>2. hand' = [hand EXCEPT ![w] = NoItem] => Hands' = {}
    BY <1>0, <2>1, OneHand DEF Hands, DataInv
  <2>3. CASE PqMove(w)
    <3>1. InFlight' = InFlight /\ Hands' = {}
      BY <2>2, <2>3 DEF PqMove, InFlight
    <3>2. InFlight \o Append(queue, hand[w]) = Append(InFlight \o queue, hand[w])
      BY <1>0, <2>1, AppendToLine
    <3>3. signalled \/ due[hand[w]] <= clock
      BY <1>0, <2>1, <2>3 DEF PqMove, Movable, DataInv, FlushOK, NowOK
    <3>4. Promise!Release(hand[w])
      BY <2>1, <2>3, <3>1, <3>2, <3>3 DEF PqMove, Promise!Release, caller
    <3> QED
      BY <2>1, <3>4 DEF Promise!Next
  <2>4. CASE PqPutBack(w)
    BY <2>1, <2>2, <2>4 DEF PqPutBack, Promise!vars, caller, history, InFlight
  <2>5. CASE PqOverflow(w)
    <3>1. Promise!DropDelayed(hand[w])
      BY <2>1, <2>2, <2>5 DEF PqOverflow, Promise!DropDelayed, shared, caller, InFlight
    <3> QED
      BY <2>1, <3>1 DEF Promise!Next
  <2> QED
    BY <1>2, <2>3, <2>4, <2>5, <1>1, QuietSteps DEF WorkerStep, DataInv, PqGet, Drain, DrainDone,
       Send, SendFails
<1>3. CASE PqGet(w)
  <2>1. PICK i \in Items : i \in pqueue /\ pqueue' = pqueue \ {i} /\ hand' = [hand EXCEPT ![w] = i]
    BY <1>3 DEF PqGet, Earliest
  <2>2. hand[w] = NoItem
    BY <1>3 DEF PqGet, DataInv, TakenOK
  <2>3. Hands' = Hands \cup {i}
    BY <1>0, <2>1, <2>2, QueueAssumption DEF Hands
  <2>4. pqueue' \cup Hands' = pqueue \cup Hands
    BY <2>1, <2>3
  <2> QED
    BY <1>3, <2>4 DEF PqGet, Promise!vars, caller, history, InFlight
<1>4. CASE Drain(w)
  <2>1. Alive(w) /\ InFlight = payload[w] /\ \A v \in Workers \ {w} : payload[v] = <<>>
    BY <1>4, OneBatch DEF Drain, Alive, DataInv
  <2>2. InFlight' = Append(payload[w], Head(queue))
    <3>1. Append(payload[w], Head(queue)) # <<>>
      <4>1. Head(queue) \in Items
        BY <1>0, <1>4 DEF Drain
      <4>2. payload[w] \in Seq(Items)
        BY <1>0
      <4> QED
        BY <4>1, <4>2
    <3>2. /\ payload'[w] = Append(payload[w], Head(queue))
          /\ \A v \in Workers \ {w} : payload'[v] = <<>>
      BY <1>0, <1>4, <2>1 DEF Drain
    <3> QED
      BY <3>1, <3>2 DEF InFlight
  <2>3. InFlight' \o queue' = InFlight \o queue
    BY <1>0, <1>4, <2>1, <2>2, MoveToBatch DEF Drain
  <2> QED
    BY <1>4, <2>3 DEF Drain, Promise!vars, caller, history, Hands
<1>5. CASE DrainDone(w)
  BY <1>5 DEF DrainDone, Promise!vars, shared, caller, history, Hands, InFlight
<1>6. CASE wpc[w] = "send"
  <2> DEFINE n == Len(payload[w])
  <2>1. Alive(w) /\ InFlight = payload[w] /\ \A v \in Workers \ {w} : payload[v] = <<>>
    BY <1>6, OneBatch DEF Alive, DataInv
  <2>2. n \in 1..Len(InFlight \o queue) /\ (signalled \/ n <= BatchMaxSize)
    BY <1>0, <1>6, <2>1, QueueAssumption DEF DataInv, BatchOK
  <2>3. Promise!Take(n) = payload[w] /\ Promise!Rest(n) = queue
    BY <1>0, <2>1, SplitLine DEF Promise!Take, Promise!Rest
  <2>4. ASSUME payload' = [payload EXCEPT ![w] = <<>>], queue' = queue
        PROVE  InFlight' \o queue' = queue
    <3>1. \A v \in Workers : payload'[v] = <<>>
      BY <1>0, <2>1, <2>4
    <3>2. InFlight' = <<>>
      BY <3>1 DEF InFlight
    <3> QED
      BY <1>0, <2>4, <3>2
  <2>5. CASE Send(w)
    <3>1. Promise!Batch(n)
      BY <2>2, <2>3, <2>4, <2>5 DEF Send, Promise!Batch, shared, caller, Hands
    <3>2. Promise!HandOver(n)
      BY <2>3, <2>5, <3>1 DEF Send, Promise!HandOver
    <3> QED
      BY <2>2, <3>2 DEF Promise!Next
  <2>6. CASE SendFails(w)
    <3>1. Promise!Batch(n)
      BY <2>2, <2>3, <2>4, <2>6 DEF SendFails, Promise!Batch, shared, caller, Hands
    <3>2. Promise!DropBatch(n)
      BY <2>3, <2>6, <3>1 DEF SendFails, Promise!DropBatch, Range, Promise!Range
    <3> QED
      BY <2>2, <3>2 DEF Promise!Next
  <2> QED
    BY <1>1, <1>6, <2>5, <2>6, QuietSteps DEF WorkerStep, DataInv, PqGet, PqMove, PqPutBack,
       PqOverflow, Drain, DrainDone
<1> QED
  BY <1>1, <1>2, <1>3, <1>4, <1>5, <1>6, QuietSteps DEF WorkerStep, DataInv, PqMove, PqPutBack,
     PqOverflow, Send, SendFails

\* Every step of the queue is one of Delivery, or a stuttering step.
LEMMA StepImplements ==
  TypeInv /\ SingleWorker /\ DataInv /\ [Next]_vars => [Promise!Next]_(Promise!vars)
<1> SUFFICES ASSUME TypeInv, SingleWorker, DataInv, [Next]_vars
             PROVE  [Promise!Next]_(Promise!vars)
  OBVIOUS
<1>1. CASE Tick
  BY <1>1 DEF Tick, Promise!Pass, Promise!Next, shared, caller, worker, history, InFlight, Hands
<1>2. CASE UNCHANGED vars
  BY <1>2 DEF vars, Promise!vars, shared, caller, worker, history, InFlight, Hands
<1> QED
  BY <1>1, <1>2, CallerImplements, WorkerImplements DEF Next

\* DataInv is inductive, relative to ControlInv.
LEMMA DataInvNext == TypeInv /\ SingleWorker /\ DataInv /\ [Next]_vars => DataInv'
<1> SUFFICES ASSUME TypeInv, SingleWorker, DataInv, [Next]_vars
             PROVE  DataInv'
  OBVIOUS
<1>1. CASE Tick
  BY <1>1 DEF Tick, shared, control, caller, worker, history, DataInv, FlushOK, NowOK, TakenOK,
     FreshOK, BatchOK, TypeInv, TypeOK
<1>2. CASE UNCHANGED vars
  BY <1>2 DEF vars, shared, control, caller, worker, history, DataInv, FlushOK, NowOK, TakenOK,
     FreshOK, BatchOK
<1> QED
  BY <1>1, <1>2, DataInvCaller, DataInvWorker DEF Next

\* The queue starts as Delivery does.
LEMMA InitImplements == Init => Promise!Init
<1> SUFFICES ASSUME Init PROVE Promise!Init
  OBVIOUS
<1>1. Hands = {} /\ InFlight = <<>>
  BY DEF Init, Hands, InFlight
<1>2. InFlight \o queue = <<>>
  BY <1>1 DEF Init
<1> QED
  BY <1>1, <1>2 DEF Init, Promise!Init

\* Whatever the callers, the workers and the faults: rows are handed over once, in
\* the order of the line, not before they are due, and in batches that exceed
\* batch_max_size only when a close empties the queue.
THEOREM Implements == Spec => ImplementsDelivery
<1>1. ControlInv => TypeInv /\ SingleWorker
  BY DEF ControlInv
<1>2. Spec => []DataInv
  BY <1>1, DataInvInit, DataInvNext, ControlInvariant, PTL DEF Spec
<1>3. Spec => Promise!Init /\ [][Promise!Next]_(Promise!vars)
  BY <1>1, <1>2, InitImplements, StepImplements, ControlInvariant, PTL DEF Spec
<1> QED
  BY <1>3 DEF ImplementsDelivery, Promise!Spec
-----------------------------------------------------------------------------
(* Every accepted row is in exactly one place.                              *)

Disjoint(A, B) == A \cap B = {}

\* A partition of accepted into the six places, with its parts written out.
Partition(acc, Q, P, H, B, S, L) ==
  /\ acc = Q \cup P \cup H \cup B \cup S \cup L
  /\ Disjoint(Q, P) /\ Disjoint(Q, H) /\ Disjoint(Q, B) /\ Disjoint(Q, S) /\ Disjoint(Q, L)
  /\ Disjoint(P, H) /\ Disjoint(P, B) /\ Disjoint(P, S) /\ Disjoint(P, L)
  /\ Disjoint(H, B) /\ Disjoint(H, S) /\ Disjoint(H, L)
  /\ Disjoint(B, S) /\ Disjoint(B, L)
  /\ Disjoint(S, L)

\* Accounted says so with a tuple of the places.
LEMMA PartitionOfPlaces ==
  ASSUME NEW acc, NEW Q, NEW P, NEW H, NEW B, NEW S, NEW L, Partition(acc, Q, P, H, B, S, L)
  PROVE  LET T == <<Q, P, H, B, S, L>>
         IN  /\ acc = UNION Range(T)
             /\ \A m, n \in 1..6 : m # n => T[m] \cap T[n] = {}
<1> DEFINE T == <<Q, P, H, B, S, L>>
<1>1. /\ T[1] = Q /\ T[2] = P /\ T[3] = H /\ T[4] = B /\ T[5] = S /\ T[6] = L
      /\ DOMAIN T = 1..6
  OBVIOUS
<1>2. \A m \in 1..6 : m = 1 \/ m = 2 \/ m = 3 \/ m = 4 \/ m = 5 \/ m = 6
  OBVIOUS
<1> HIDE DEF T
<1>3. Range(T) = {Q, P, H, B, S, L}
  BY <1>1, <1>2 DEF Range
<1>4. acc = UNION Range(T)
  BY <1>3 DEF Partition
<1>5. \A m, n \in 1..6 : m # n => T[m] \cap T[n] = {}
  BY <1>1, <1>2 DEF Partition, Disjoint
<1> QED
  BY <1>4, <1>5 DEF T

\* No row is twice in the queue, and none that was not offered yet is accepted.
AccountInv ==
  /\ Partition(accepted, Range(queue), pqueue, Hands, Payloads, Range(posted), lost)
  /\ Disjoint(fresh, accepted)
  /\ IsInjective(queue)

\* At the start there are no accepted rows.
LEMMA AccountInvInit == Init => AccountInv
<1> SUFFICES ASSUME Init PROVE AccountInv
  OBVIOUS
<1>1. Range(queue) = {} /\ Range(posted) = {} /\ Hands = {} /\ IsInjective(queue)
  BY DEF Init, Range, Hands, IsInjective
<1>2. Payloads = {}
  BY DEF Init, Range, Payloads
<1> QED
  BY <1>1, <1>2 DEF Init, AccountInv, Partition, Disjoint

\* A call moves a fresh row to one place, or no row.
LEMMA AccountCaller ==
  ASSUME TypeInv, DataInv, AccountInv, NEW t \in Threads,
         Begin(t) \/ AcquireLock(t) \/ Continue(t)
  PROVE  AccountInv'
<1> USE DEF Partition, Disjoint
<1>0. queue \in Seq(Items)
  BY DEF TypeInv, TypeOK
<1>1. ASSUME NEW i \in Items, Enqueue(t, i) PROVE AccountInv'
  <2>1. /\ UNCHANGED <<pqueue, Hands, Payloads, posted, lost>>
        /\ accepted' = accepted \cup {i} /\ fresh' = fresh \ {i} /\ i \in fresh
    BY <1>1 DEF Enqueue, worker, Hands, Payloads
  <2>2. i \notin accepted
    BY <2>1 DEF AccountInv
  <2>3. i \notin Range(queue)
    BY <2>2 DEF AccountInv
  <2>4. Range(queue') = Range(queue) \cup {i} /\ IsInjective(queue')
    BY <1>0, <1>1, <2>3, RangeAppend, InjectiveAppend DEF Enqueue, AccountInv
  <2> QED
    BY <2>1, <2>2, <2>4 DEF AccountInv
<1>2. ASSUME NEW i \in Items, Reject(t, i) PROVE AccountInv'
  BY <1>2 DEF Reject, shared, worker, history, Hands, Payloads, AccountInv
<1>3. ASSUME NEW i \in Items, NEW d \in Delays, EnqueueAfter(t, i, d) PROVE AccountInv'
  <2>1. /\ UNCHANGED <<queue, Hands, Payloads, posted, lost>> /\ pqueue' = pqueue \cup {i}
        /\ accepted' = accepted \cup {i} /\ fresh' = fresh \ {i} /\ i \in fresh
    BY <1>3 DEF EnqueueAfter, worker, Hands, Payloads
  <2>2. i \notin accepted
    BY <2>1 DEF AccountInv
  <2> QED
    BY <2>1, <2>2 DEF AccountInv
<1>4. CASE QuietCall
  BY <1>4 DEF QuietCall, shared, Hands, Payloads, AccountInv
<1> QED
  BY <1>1, <1>2, <1>3, <1>4, CallerShape

\* When the others are empty, the payloads are those of one worker.
LEMMA OnePayload ==
  ASSUME NEW f, NEW w \in Workers, \A v \in Workers \ {w} : f[v] = <<>>
  PROVE  UNION {Range(f[v]) : v \in Workers} = Range(f[w])
<1>1. \A v \in Workers \ {w} : Range(f[v]) = {}
  BY DEF Range
<1> QED
  BY <1>1

\* The worker moves rows from one place to one other.
LEMMA AccountWorker ==
  ASSUME TypeInv, SingleWorker, DataInv, AccountInv, NEW w \in Workers, WorkerStep(w)
  PROVE  AccountInv'
<1> USE DEF Partition, Disjoint
<1>0. /\ queue \in Seq(Items) /\ posted \in Seq(Items) /\ wpc \in [Workers -> WorkerPc]
      /\ payload \in [Workers -> Seq(Items)] /\ hand \in [Workers -> Items \cup {NoItem}]
  BY DEF TypeInv, TypeOK
<1>1. CASE QuietStep(w)
  BY <1>1 DEF QuietStep, shared, history, Hands, Payloads, AccountInv
<1>2. CASE wpc[w] = "pqPut"
  <2>1. hand[w] \in Items /\ Hands = {hand[w]}
    <3>1. hand[w] \in Items /\ Alive(w)
      BY <1>2 DEF TypeInv, HandOK, Alive
    <3>2. hand[w] # NoItem
      BY <3>1, QueueAssumption
    <3>3. \A v \in Workers \ {w} : hand[v] = NoItem
      BY <3>1, OneHand DEF DataInv
    <3> QED
      BY <3>1, <3>2, <3>3 DEF Hands
  <2>2. hand' = [hand EXCEPT ![w] = NoItem] => Hands' = {}
    <3>1. Alive(w)
      BY <1>2 DEF Alive
    <3> QED
      BY <1>0, <3>1, OneHand DEF Hands, DataInv
  <2>3. CASE PqMove(w)
    <3>1. /\ UNCHANGED <<pqueue, Payloads, posted, lost, accepted, fresh>> /\ Hands' = {}
      BY <2>2, <2>3 DEF PqMove, Payloads, caller
    <3>2. hand[w] \notin Range(queue)
      BY <2>1 DEF AccountInv
    <3>3. Range(queue') = Range(queue) \cup {hand[w]} /\ IsInjective(queue')
      BY <1>0, <2>1, <2>3, <3>2, RangeAppend, InjectiveAppend DEF PqMove, AccountInv
    <3> QED
      BY <2>1, <3>1, <3>3 DEF AccountInv
  <2>4. CASE PqPutBack(w)
    <3>1. /\ UNCHANGED <<queue, Payloads, posted, lost, accepted, fresh>> /\ Hands' = {}
          /\ pqueue' = pqueue \cup {hand[w]}
      BY <2>2, <2>4 DEF PqPutBack, Payloads, caller, history
    <3> QED
      BY <2>1, <3>1 DEF AccountInv
  <2>5. CASE PqOverflow(w)
    <3>1. /\ UNCHANGED <<queue, pqueue, Payloads, posted, accepted, fresh>> /\ Hands' = {}
          /\ lost' = lost \cup {hand[w]}
      BY <2>2, <2>5 DEF PqOverflow, Payloads, shared, caller
    <3> QED
      BY <2>1, <3>1 DEF AccountInv
  <2> QED
    BY <1>2, <2>3, <2>4, <2>5, <1>1, QuietSteps DEF WorkerStep, DataInv, PqGet, Drain, DrainDone,
       Send, SendFails
<1>3. CASE PqGet(w)
  <2>1. PICK i \in Items : i \in pqueue /\ pqueue' = pqueue \ {i} /\ hand' = [hand EXCEPT ![w] = i]
    BY <1>3 DEF PqGet, Earliest
  <2>2. hand[w] = NoItem
    BY <1>3 DEF PqGet, DataInv, TakenOK
  <2>3. Hands' = Hands \cup {i}
    BY <1>0, <2>1, <2>2, QueueAssumption DEF Hands
  <2>4. UNCHANGED <<queue, Payloads, posted, lost, accepted, fresh>>
    BY <1>3 DEF PqGet, Payloads, caller, history
  <2> QED
    BY <2>1, <2>3, <2>4 DEF AccountInv
<1>4. CASE Drain(w)
  <2>1. Alive(w) /\ \A v \in Workers \ {w} : payload[v] = <<>>
    BY <1>4, OneBatch DEF Drain, Alive, DataInv
  <2>2. /\ Head(queue) \in Items /\ Head(queue) \in Range(queue)
        /\ Range(queue') = Range(queue) \ {Head(queue)} /\ IsInjective(queue')
    BY <1>0, <1>4, TailOfInjective DEF Drain, AccountInv
  <2>3. /\ payload'[w] = Append(payload[w], Head(queue))
        /\ \A v \in Workers \ {w} : payload'[v] = <<>>
    BY <1>0, <1>4, <2>1 DEF Drain
  <2>4. Payloads = Range(payload[w]) /\ Payloads' = Range(payload'[w])
    BY <2>1, <2>3, OnePayload DEF Payloads
  <2>5. Payloads' = Payloads \cup {Head(queue)}
    BY <1>0, <2>2, <2>3, <2>4, RangeAppend
  <2>6. UNCHANGED <<pqueue, Hands, posted, lost, accepted, fresh>>
    BY <1>4 DEF Drain, Hands, caller, history
  <2> QED
    BY <2>2, <2>5, <2>6 DEF AccountInv
<1>5. CASE DrainDone(w)
  BY <1>5 DEF DrainDone, shared, caller, history, Hands, Payloads, AccountInv
<1>6. CASE Send(w) \/ SendFails(w)
  <2>1. Alive(w) /\ \A v \in Workers \ {w} : payload[v] = <<>>
    BY <1>6, OneBatch DEF Send, SendFails, Alive, DataInv
  <2>2. \A v \in Workers : payload'[v] = <<>>
    BY <1>0, <1>6, <2>1 DEF Send, SendFails
  <2>3. Payloads = Range(payload[w]) /\ Payloads' = Range(payload'[w])
    BY <2>1, <2>2, OnePayload DEF Payloads
  <2>4. Payloads' = {}
    BY <2>2, <2>3 DEF Range
  <2>5. UNCHANGED <<queue, pqueue, Hands, accepted, fresh>>
    BY <1>6 DEF Send, SendFails, shared, Hands, caller
  <2>6. CASE Send(w)
    <3>1. Range(posted') = Range(posted) \cup Payloads /\ lost' = lost
      BY <1>0, <2>3, <2>6, RangeConcatenation DEF Send
    <3> QED
      BY <2>4, <2>5, <3>1 DEF AccountInv
  <2>7. CASE SendFails(w)
    <3>1. lost' = lost \cup Payloads /\ posted' = posted
      BY <2>3, <2>7 DEF SendFails
    <3> QED
      BY <2>4, <2>5, <3>1 DEF AccountInv
  <2> QED
    BY <1>6, <2>6, <2>7
<1> QED
  BY <1>1, <1>2, <1>3, <1>4, <1>5, <1>6, QuietSteps DEF WorkerStep, DataInv, PqMove, PqPutBack,
     PqOverflow

\* AccountInv is inductive, relative to ControlInv and DataInv.
LEMMA AccountInvNext ==
  TypeInv /\ SingleWorker /\ DataInv /\ AccountInv /\ [Next]_vars => AccountInv'
<1> SUFFICES ASSUME TypeInv, SingleWorker, DataInv, AccountInv, [Next]_vars
             PROVE  AccountInv'
  OBVIOUS
<1>1. CASE Tick \/ UNCHANGED vars
  <2>1. UNCHANGED <<queue, pqueue, Hands, Payloads, posted, lost, accepted, fresh>>
    BY <1>1 DEF Tick, vars, shared, caller, worker, history, Hands, Payloads
  <2> QED
    BY <2>1 DEF AccountInv
<1> QED
  BY <1>1, AccountCaller, AccountWorker DEF Next

\* Whatever the callers, the workers and the faults: a row whose call answered True
\* is in exactly one place, the queues, a worker's hands, the posted rows or those
\* an error the code reports has dropped.
THEOREM Accounts == Spec => []Accounted
<1>1. ControlInv => TypeInv /\ SingleWorker
  BY DEF ControlInv
<1>2. Spec => []DataInv
  BY <1>1, DataInvInit, DataInvNext, ControlInvariant, PTL DEF Spec
<1>3. Spec => []AccountInv
  BY <1>1, <1>2, AccountInvInit, AccountInvNext, ControlInvariant, PTL DEF Spec
<1>4. AccountInv => Accounted
  BY PartitionOfPlaces DEF AccountInv, Accounted, Places
<1> QED
  BY <1>3, <1>4, PTL
-----------------------------------------------------------------------------
(* The order of the rows.                                                   *)

\* A row that enters at the end of both comes last in both.
LEMMA AppendInOrder ==
  ASSUME NEW S, NEW s \in Seq(S), NEW line \in Seq(S), NEW i \in S,
         i \notin Range(line), Range(s) \subseteq Range(line), InOrder(s, line)
  PROVE  InOrder(Append(s, i), Append(line, i))
<1>a. /\ Len(s) \in Nat /\ DOMAIN s = 1..Len(s) /\ DOMAIN Append(s, i) = 1..(Len(s) + 1)
      /\ \A a \in 1..Len(s) : Append(s, i)[a] = s[a]
      /\ Append(s, i)[Len(s) + 1] = i
  OBVIOUS
<1>b. /\ Len(line) \in Nat /\ DOMAIN line = 1..Len(line)
      /\ DOMAIN Append(line, i) = 1..(Len(line) + 1)
      /\ \A m \in 1..Len(line) : Append(line, i)[m] = line[m]
      /\ Append(line, i)[Len(line) + 1] = i
  OBVIOUS
<1>c. \A a \in 1..Len(s) : s[a] \in Range(line)
  BY <1>a DEF Range
<1>d. \A m \in 1..Len(line) : line[m] # i
  BY <1>b DEF Range
<1>1. /\ Len(s) \in Nat /\ DOMAIN s = 1..Len(s) /\ DOMAIN Append(s, i) = 1..(Len(s) + 1)
      /\ Len(line) \in Nat /\ DOMAIN line = 1..Len(line)
      /\ DOMAIN Append(line, i) = 1..(Len(line) + 1)
      /\ \A a \in 1..Len(s) : Append(s, i)[a] = s[a] /\ s[a] \in Range(line)
      /\ \A m \in 1..Len(line) : Append(line, i)[m] = line[m] /\ line[m] # i
      /\ Append(s, i)[Len(s) + 1] = i /\ Append(line, i)[Len(line) + 1] = i
  BY <1>a, <1>b, <1>c, <1>d
<1> DEFINE t == Append(s, i)
           more == Append(line, i)
<1>2. \A a, b \in 1..(Len(s) + 1), m, n \in 1..(Len(line) + 1) :
        a < b /\ more[m] = t[a] /\ more[n] = t[b] => m < n
  <2> SUFFICES ASSUME NEW a \in 1..(Len(s) + 1), NEW b \in 1..(Len(s) + 1),
                      NEW m \in 1..(Len(line) + 1), NEW n \in 1..(Len(line) + 1),
                      a < b, more[m] = t[a], more[n] = t[b]
               PROVE  m < n
    OBVIOUS
  <2>1. a \in 1..Len(s) /\ t[a] = s[a] /\ s[a] # i
    BY <1>1
  <2>2. m \in 1..Len(line) /\ line[m] = s[a]
    BY <1>1, <2>1
  <2>3. CASE b = Len(s) + 1
    <3>1. n \notin 1..Len(line)
      BY <1>1, <2>3
    <3> QED
      BY <1>1, <2>2, <3>1
  <2>4. CASE b # Len(s) + 1
    <3>1. b \in 1..Len(s) /\ t[b] = s[b] /\ s[b] # i
      BY <1>1, <2>4
    <3>2. n \in 1..Len(line) /\ line[n] = s[b]
      BY <1>1, <3>1
    <3> QED
      BY <1>1, <2>1, <2>2, <3>1, <3>2 DEF InOrder
  <2> QED
    BY <2>3, <2>4
<1> QED
  BY <1>1, <1>2 DEF InOrder

\* The rows that are left when a batch is dropped keep their order.
LEMMA DropInOrder ==
  ASSUME NEW S, NEW p \in Seq(S), NEW b \in Seq(S), NEW q \in Seq(S), NEW line \in Seq(S),
         InOrder(p \o b \o q, line)
  PROVE  InOrder(p \o q, line)
<1> DEFINE at(a) == IF a <= Len(p) THEN a ELSE a + Len(b)
<1>1. Len(p) \in Nat /\ Len(b) \in Nat /\ Len(q) \in Nat
  OBVIOUS
<1>2. DOMAIN (p \o q) = 1..(Len(p) + Len(q)) /\ DOMAIN (p \o b \o q) = 1..(Len(p) + Len(b) + Len(q))
  OBVIOUS
<1>3. ASSUME NEW a \in DOMAIN (p \o q)
      PROVE  at(a) \in DOMAIN (p \o b \o q) /\ (p \o b \o q)[at(a)] = (p \o q)[a]
  <2>1. CASE a <= Len(p)
    BY <1>1, <1>2, <1>3, <2>1
  <2>2. CASE ~(a <= Len(p))
    <3>1. a \in Nat /\ a - Len(p) \in 1..Len(q) /\ (p \o q)[a] = q[a - Len(p)]
      BY <1>1, <1>2, <1>3, <2>2
    <3>2. /\ p \o b \in Seq(S) /\ Len(p \o b) = Len(p) + Len(b)
          /\ at(a) \in 1..(Len(p \o b) + Len(q)) /\ at(a) > Len(p \o b)
          /\ at(a) - Len(p \o b) = a - Len(p)
      BY <1>1, <2>2, <3>1
    <3>3. ((p \o b) \o q)[at(a)] = q[at(a) - Len(p \o b)]
      BY <3>2
    <3> QED
      BY <1>2, <3>1, <3>2, <3>3
  <2> QED
    BY <2>1, <2>2
<1>4. \A a, c \in DOMAIN (p \o q) : a < c => at(a) < at(c)
  BY <1>1, <1>2
<1> HIDE DEF at
<1> QED
  BY <1>3, <1>4 DEF InOrder

\* The batch in flight holds the rows of the payloads.
LEMMA InFlightRows ==
  ASSUME TypeInv, SingleWorker, BatchOK
  PROVE  Range(InFlight) = Payloads
<1>1. CASE \E w \in Workers : Alive(w)
  <2>1. PICK w \in Workers : Alive(w)
    BY <1>1
  <2>2. InFlight = payload[w] /\ \A v \in Workers \ {w} : payload[v] = <<>>
    BY <2>1, OneBatch
  <2> QED
    BY <2>2, OnePayload DEF Payloads
<1>2. CASE ~\E w \in Workers : Alive(w)
  <2>1. \A w \in Workers : payload[w] = <<>>
    BY <1>2 DEF BatchOK, Alive
  <2>2. InFlight = <<>> /\ \A w \in Workers : Range(payload[w]) = {}
    BY <2>1 DEF InFlight, Range
  <2> QED
    BY <2>2 DEF Payloads, Range
<1> QED
  BY <1>1, <1>2

\* The rows in line are those posted, in flight and in the queue.
LEMMA InLineRows ==
  ASSUME TypeInv, SingleWorker, BatchOK
  PROVE  /\ InFlight \in Seq(Items) /\ InLine \in Seq(Items)
         /\ Range(InLine) = Range(posted) \cup Payloads \cup Range(queue)
<1>1. posted \in Seq(Items) /\ queue \in Seq(Items) /\ InFlight \in Seq(Items)
  BY InFlightType DEF TypeInv, TypeOK
<1>2. posted \o InFlight \in Seq(Items)
  BY <1>1
<1>3. Range(posted \o InFlight) = Range(posted) \cup Range(InFlight)
  BY <1>1, RangeConcatenation
<1>4. Range((posted \o InFlight) \o queue) = Range(posted \o InFlight) \cup Range(queue)
  BY <1>1, <1>2, RangeConcatenation, ZenonT(30)
<1>5. (posted \o InFlight) \o queue \in Seq(Items)
  BY <1>1, <1>2
<1> QED
  BY <1>1, <1>3, <1>4, <1>5, InFlightRows DEF InLine

\* A row that is in no place yet, or in a worker's hand, enters at the end.
LEMMA OrderEnter ==
  ASSUME TypeInv, SingleWorker, BatchOK, AccountInv, OrderPreserved, NEW i \in Items,
         i \in fresh \/ i \in Hands,
         queue' = Append(queue, i), entered' = Append(entered, i),
         UNCHANGED <<payload, posted, lost>>
  PROVE  OrderPreserved'
<1>1. /\ posted \in Seq(Items) /\ queue \in Seq(Items) /\ entered \in Seq(Items)
      /\ InFlight \in Seq(Items) /\ InLine \in Seq(Items)
      /\ Range(InLine) = Range(posted) \cup Payloads \cup Range(queue)
  BY InLineRows DEF TypeInv, TypeOK
<1>2. i \notin Range(InLine) /\ i \notin lost
  BY <1>1 DEF AccountInv, Partition, Disjoint
<1>3. i \notin Range(entered)
  BY <1>2 DEF OrderPreserved
<1>4. InLine' = Append(InLine, i)
  <2>1. InFlight' = InFlight
    BY DEF InFlight
  <2>2. (posted \o InFlight) \o Append(queue, i) = Append((posted \o InFlight) \o queue, i)
    <3>1. posted \o InFlight \in Seq(Items)
      BY <1>1
    <3> QED
      BY <1>1, <3>1, AppendToLine
  <2> QED
    BY <2>1, <2>2 DEF InLine
<1>5. Range(InLine') = Range(InLine) \cup {i} /\ Range(entered') = Range(entered) \cup {i}
  BY <1>1, <1>4, RangeAppend
<1>6. InOrder(InLine', entered')
  <2>1. Range(InLine) \subseteq Range(entered) /\ InOrder(InLine, entered)
    BY DEF OrderPreserved
  <2>2. InOrder(Append(InLine, i), Append(entered, i))
    BY <1>1, <1>3, <2>1, AppendInOrder
  <2> QED
    BY <1>4, <2>2
<1>7. Range(InLine') = Range(entered') \ lost'
  BY <1>2, <1>5 DEF OrderPreserved
<1>8. InOrder(InLine, entered)' <=> InOrder(InLine', entered')
  BY DEF InOrder
<1> QED
  BY <1>6, <1>7, <1>8 DEF OrderPreserved, Range

\* A step that keeps the line.
LEMMA OrderSame ==
  ASSUME OrderPreserved, InLine' = InLine, entered' = entered,
         lost' = lost \/ \E i : lost' = lost \cup {i} /\ i \notin Range(entered)
  PROVE  OrderPreserved'
  BY DEF OrderPreserved, InOrder, Range

\* A worker keeps the rows in order: it takes the first of the queue, and posts or drops
\* its batch as a whole.
LEMMA OrderWorker ==
  ASSUME TypeInv, SingleWorker, DataInv, AccountInv, OrderPreserved, NEW w \in Workers, WorkerStep(w)
  PROVE  OrderPreserved'
<1>0. /\ posted \in Seq(Items) /\ queue \in Seq(Items) /\ entered \in Seq(Items)
      /\ payload \in [Workers -> Seq(Items)] /\ hand \in [Workers -> Items \cup {NoItem}]
      /\ BatchOK /\ InFlight \in Seq(Items)
      /\ Range(InLine) = Range(posted) \cup Payloads \cup Range(queue)
  BY InLineRows DEF TypeInv, TypeOK, DataInv
<1>1. ASSUME UNCHANGED <<queue, payload, posted, entered, lost>> PROVE OrderPreserved'
  BY <1>1, OrderSame DEF InLine, InFlight
<1>2. CASE QuietStep(w) \/ PqGet(w) \/ PqPutBack(w) \/ DrainDone(w)
  BY <1>1, <1>2 DEF QuietStep, PqGet, PqPutBack, DrainDone, shared, history
<1>3. ASSUME PqMove(w) \/ PqOverflow(w) PROVE hand[w] \in Items /\ hand[w] \in Hands
  <2>1. hand[w] \in Items
    BY <1>3 DEF PqMove, PqOverflow, TypeInv, HandOK
  <2> QED
    BY <2>1, QueueAssumption DEF Hands
<1>4. CASE PqMove(w)
  BY <1>0, <1>3, <1>4, OrderEnter DEF PqMove
<1>5. CASE PqOverflow(w)
  <2>1. hand[w] \notin Range(InLine) /\ hand[w] \notin lost
    BY <1>0, <1>3, <1>5 DEF AccountInv, Partition, Disjoint
  <2>2. hand[w] \notin Range(entered)
    BY <2>1 DEF OrderPreserved
  <2>3. InLine' = InLine /\ entered' = entered /\ lost' = lost \cup {hand[w]}
    BY <1>5 DEF PqOverflow, InLine, InFlight, shared
  <2> QED
    BY <2>2, <2>3, OrderSame
<1>6. CASE Drain(w)
  <2>1. Alive(w) /\ InFlight = payload[w] /\ \A v \in Workers \ {w} : payload[v] = <<>>
    BY <1>0, <1>6, OneBatch DEF Drain, Alive
  <2>2. Head(queue) \in Items /\ payload[w] \in Seq(Items) /\ Tail(queue) \in Seq(Items)
    <3>1. queue # <<>>
      BY <1>6 DEF Drain
    <3>2. payload[w] \in Seq(Items)
      BY <1>0
    <3>3. queue \in Seq(Items)
      BY <1>0
    <3>4. Head(queue) \in Items /\ Tail(queue) \in Seq(Items)
      BY <3>1, <3>3
    <3> QED
      BY <3>2, <3>4
  <2>3. Append(payload[w], Head(queue)) \in Seq(Items) /\ Append(payload[w], Head(queue)) # <<>>
    BY <2>2, AppendProperties
  <2>4. InFlight' = Append(payload[w], Head(queue))
    <3>1. /\ payload'[w] = Append(payload[w], Head(queue))
          /\ \A v \in Workers \ {w} : payload'[v] = <<>>
      BY <1>0, <1>6, <2>1 DEF Drain
    <3> QED
      BY <2>3, <3>1 DEF InFlight
  <2>5. InFlight' \o Tail(queue) = InFlight \o queue
    BY <1>0, <1>6, <2>1, <2>2, <2>4, MoveToBatch DEF Drain
  <2>6. /\ (posted \o InFlight') \o Tail(queue) = posted \o (InFlight' \o Tail(queue))
        /\ (posted \o InFlight) \o queue = posted \o (InFlight \o queue)
    <3>1. InFlight' \in Seq(Items)
      BY <2>3, <2>4
    <3>2. /\ posted \in Seq(Items) /\ InFlight \in Seq(Items)
          /\ queue \in Seq(Items) /\ Tail(queue) \in Seq(Items)
      BY <1>0, <2>2
    <3>3. (posted \o InFlight') \o Tail(queue) = posted \o (InFlight' \o Tail(queue))
      BY <3>1, <3>2, ConcatAssociative
    <3>4. (posted \o InFlight) \o queue = posted \o (InFlight \o queue)
      BY <3>2, ConcatAssociative
    <3> QED
      BY <3>3, <3>4
  <2>7. InLine' = InLine
    BY <1>6, <2>5, <2>6 DEF Drain, InLine, history
  <2> QED
    BY <1>6, <2>7, OrderSame DEF Drain, history
<1>7. CASE Send(w) \/ SendFails(w)
  <2>1. InFlight = payload[w] /\ \A v \in Workers \ {w} : payload[v] = <<>>
    BY <1>0, <1>7, OneBatch DEF Send, SendFails, Alive
  <2>2. InFlight' = <<>> /\ payload[w] \in Seq(Items)
    <3>1. \A v \in Workers : payload'[v] = <<>>
      BY <1>0, <1>7, <2>1 DEF Send, SendFails
    <3> QED
      BY <1>0, <3>1 DEF InFlight
  <2>3. CASE Send(w)
    <3>1. InLine' = ((posted \o payload[w]) \o <<>>) \o queue
      BY <2>2, <2>3 DEF Send, InLine, shared
    <3>2. (posted \o payload[w]) \o <<>> = posted \o payload[w]
      BY <1>0, <2>2
    <3> QED
      BY <2>1, <2>3, <3>1, <3>2, OrderSame DEF Send, InLine
  <2>4. CASE SendFails(w)
    <3>1. InLine' = (posted \o <<>>) \o queue /\ posted \o <<>> = posted
      BY <1>0, <2>2, <2>4 DEF SendFails, InLine, shared
    <3>2. entered' = entered /\ lost' = lost \cup Payloads
      BY <1>0, <2>1, <2>4, InFlightRows DEF SendFails
    <3>3. Range(posted \o queue) = Range(posted) \cup Range(queue)
      BY <1>0, RangeConcatenation
    <3>4. Range(posted \o queue) = Range(entered) \ (lost \cup Payloads)
      BY <1>0, <3>3 DEF AccountInv, Partition, Disjoint, OrderPreserved
    <3>5. InOrder(posted \o queue, entered)
      BY <1>0, DropInOrder DEF OrderPreserved, InLine
    <3> QED
      BY <3>1, <3>2, <3>4, <3>5 DEF OrderPreserved, InOrder, Range
  <2> QED
    BY <1>7, <2>3, <2>4
<1> QED
  BY <1>2, <1>4, <1>5, <1>6, <1>7, QuietSteps DEF WorkerStep, DataInv

\* Every step keeps the rows in order.
LEMMA OrderNext ==
  TypeInv /\ SingleWorker /\ DataInv /\ AccountInv /\ OrderPreserved /\ [Next]_vars => OrderPreserved'
<1> SUFFICES ASSUME TypeInv, SingleWorker, DataInv, AccountInv, OrderPreserved, [Next]_vars
             PROVE  OrderPreserved'
  OBVIOUS
<1>1. ASSUME UNCHANGED <<queue, payload, posted, entered, lost>> PROVE OrderPreserved'
  BY <1>1, OrderSame DEF InLine, InFlight
<1>2. CASE Tick \/ UNCHANGED vars
  BY <1>1, <1>2 DEF Tick, vars, shared, worker, history
<1>3. ASSUME NEW t \in Threads, Begin(t) \/ AcquireLock(t) \/ Continue(t) PROVE OrderPreserved'
  <2>1. ASSUME NEW i \in Items, Enqueue(t, i) PROVE OrderPreserved'
    BY <2>1, OrderEnter DEF Enqueue, worker, DataInv
  <2>2. ASSUME NEW i \in Items, Reject(t, i) PROVE OrderPreserved'
    BY <1>1, <2>2 DEF Reject, shared, worker, history
  <2>3. ASSUME NEW i \in Items, NEW d \in Delays, EnqueueAfter(t, i, d) PROVE OrderPreserved'
    BY <1>1, <2>3 DEF EnqueueAfter, worker
  <2>4. CASE QuietCall
    BY <1>1, <2>4 DEF QuietCall, shared
  <2> QED
    BY <1>3, <2>1, <2>2, <2>3, <2>4, CallerShape
<1> QED
  BY <1>2, <1>3, OrderWorker DEF Next

\* Whatever the callers, the workers and the faults: rows are handed to the HTTP client
\* in the order they entered the queue, none twice, and only those of a batch that could
\* not be encoded are missing.
THEOREM RowsInOrder == Spec => []OrderPreserved
<1>1. ControlInv => TypeInv /\ SingleWorker
  BY DEF ControlInv
<1>2. Spec => []DataInv
  BY <1>1, DataInvInit, DataInvNext, ControlInvariant, PTL DEF Spec
<1>3. Spec => []AccountInv
  BY <1>1, <1>2, AccountInvInit, AccountInvNext, ControlInvariant, PTL DEF Spec
<1>4. Init => OrderPreserved
  <2> SUFFICES ASSUME Init PROVE OrderPreserved
    OBVIOUS
  <2>1. InFlight = <<>>
    BY DEF Init, InFlight
  <2>2. InLine = <<>> /\ entered = <<>>
    BY <2>1 DEF Init, InLine
  <2> QED
    BY <2>2 DEF OrderPreserved, InOrder, Range
<1> QED
  BY <1>1, <1>2, <1>3, <1>4, OrderNext, ControlInvariant, PTL DEF Spec
=============================================================================
