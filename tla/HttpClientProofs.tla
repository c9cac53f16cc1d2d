-------------------------- MODULE HttpClientProofs --------------------------
(***************************************************************************)
(* Theorems about the event loop thread, and about the tokens of the       *)
(* requests it runs, for every value of the constants: any number of       *)
(* threads, loops, requests and clients.                                   *)
(***************************************************************************)
EXTENDS HttpClient, SequenceTheorems, TLAPS
-----------------------------------------------------------------------------
(* Sequences: the coroutines of a loop join at its end and leave at its head. *)

\* What is in a sequence after one more has joined it.
LEMMA RangeAppend ==
  ASSUME NEW S, NEW s \in Seq(S), NEW i \in S
  PROVE  Range(Append(s, i)) = Range(s) \cup {i}
<1>1. DOMAIN s = 1..Len(s) /\ DOMAIN Append(s, i) = 1..(Len(s) + 1) /\ Len(s) \in Nat
  OBVIOUS
<1>2. \A n \in 1..(Len(s) + 1) : Append(s, i)[n] = IF n <= Len(s) THEN s[n] ELSE i
  OBVIOUS
<1> QED
  BY <1>1, <1>2 DEF Range

\* put of an entry that is not in a queue leaves none in it twice.
LEMMA InjectiveAppend ==
  ASSUME NEW S, NEW s \in Seq(S), NEW i \in S, i \notin Range(s), IsInjective(s)
  PROVE  IsInjective(Append(s, i))
<1>1. DOMAIN s = 1..Len(s) /\ DOMAIN Append(s, i) = 1..(Len(s) + 1) /\ Len(s) \in Nat
  OBVIOUS
<1>2. \A n \in 1..(Len(s) + 1) : Append(s, i)[n] = IF n <= Len(s) THEN s[n] ELSE i
  OBVIOUS
<1>3. \A n \in 1..Len(s) : s[n] # i
  BY <1>1 DEF Range
<1>4. \A n \in 1..(Len(s) + 1) : n = Len(s) + 1 \/ n \in 1..Len(s)
  BY <1>1
<1> QED
  BY <1>1, <1>2, <1>3, <1>4 DEF IsInjective

\* get removes one entry, and all of it when the queue holds none twice.
LEMMA TailOfInjective ==
  ASSUME NEW S, NEW s \in Seq(S), s # <<>>, IsInjective(s)
  PROVE  /\ Head(s) \in S /\ Tail(s) \in Seq(S)
         /\ Range(Tail(s)) = Range(s) \ {Head(s)} /\ Head(s) \in Range(s)
         /\ IsInjective(Tail(s))
<1>1. /\ Len(s) \in Nat \ {0} /\ DOMAIN s = 1..Len(s) /\ DOMAIN Tail(s) = 1..(Len(s) - 1)
      /\ Head(s) = s[1] /\ Head(s) \in S /\ Tail(s) \in Seq(S)
  OBVIOUS
<1>2. \A n \in 1..(Len(s) - 1) : Tail(s)[n] = s[n + 1]
  OBVIOUS
<1>3. ASSUME NEW x \in Range(Tail(s)) PROVE x \in Range(s) \ {Head(s)}
  <2>1. PICK n \in 1..(Len(s) - 1) : x = Tail(s)[n]
    BY <1>1, <1>3 DEF Range
  <2>2. n + 1 \in 1..Len(s) /\ 1 \in 1..Len(s) /\ n + 1 # 1 /\ x = s[n + 1]
    BY <1>1, <1>2, <2>1
  <2> QED
    BY <1>1, <2>2 DEF Range, IsInjective
<1>4. ASSUME NEW x \in Range(s) \ {Head(s)} PROVE x \in Range(Tail(s))
  <2>1. PICK n \in 1..Len(s) : x = s[n]
    BY <1>1, <1>4 DEF Range
  <2>2. n # 1
    BY <1>1, <1>4, <2>1
  <2>3. n - 1 \in 1..(Len(s) - 1) /\ (n - 1) + 1 = n
    BY <1>1, <2>1, <2>2
  <2>4. x = Tail(s)[n - 1]
    BY <1>2, <2>1, <2>3
  <2> QED
    BY <1>1, <2>3, <2>4 DEF Range
<1>5. Head(s) \in Range(s)
  BY <1>1 DEF Range
<1>6. ASSUME NEW m \in DOMAIN Tail(s), NEW n \in DOMAIN Tail(s), Tail(s)[m] = Tail(s)[n]
      PROVE  m = n
  <2>1. m + 1 \in DOMAIN s /\ n + 1 \in DOMAIN s
    BY <1>1, <1>6
  <2>2. s[m + 1] = s[n + 1]
    BY <1>1, <1>2, <1>6
  <2>3. m + 1 = n + 1
    BY <2>1, <2>2 DEF IsInjective
  <2> QED
    BY <1>1, <2>3
<1> QED
  BY <1>1, <1>3, <1>4, <1>5, <1>6 DEF IsInjective

\* get takes an entry of a queue and adds none to it.
LEMMA HeadAndTail ==
  ASSUME NEW S, NEW s \in Seq(S), s # <<>>
  PROVE  Head(s) \in Range(s) /\ Range(Tail(s)) \subseteq Range(s)
<1>1. /\ Len(s) \in Nat \ {0} /\ DOMAIN s = 1..Len(s) /\ DOMAIN Tail(s) = 1..(Len(s) - 1)
      /\ Head(s) = s[1]
  OBVIOUS
<1>2. \A n \in 1..(Len(s) - 1) : Tail(s)[n] = s[n + 1] /\ n + 1 \in 1..Len(s)
  BY <1>1
<1> QED
  BY <1>1, <1>2 DEF Range
-----------------------------------------------------------------------------
\* A thread inside submit has a coroutine.
Submitting == {"ensure", "lock", "start", "wait", "assert", "return", "schedule"}

\* It is the only one to have it, and nobody has scheduled it yet.
JobOK ==
  \A t \in Actors :
    /\ pc[t] \in Submitting => job[t] \in Coros
    /\ job[t] \in Coros => cstate[job[t]] = "unused"
    /\ \A u \in Actors : job[t] = job[u] /\ job[t] \in Coros => t = u

\* A coroutine on its way into a loop is there once.
InboxOK ==
  \A l \in Loops :
    /\ \A c \in Range(inbox[l]) \ {Stop} : cstate[c] = "queued" /\ home[c] = l
    /\ IsInjective(inbox[l])

TypeInv == WorkerTypeOK /\ JobOK
-----------------------------------------------------------------------------
(* Control: _lock, _running, _loop, _thread and the one event loop.         *)

Locked == {"start", "wait", "stop", "join"}

\* _lock is held exactly between its acquisition and its release.
LockOK == \A t \in Actors : pc[t] \in Locked <=> lock = t

\* The thread that exists is the one that close joins.
AliveOK == \A l \in Loops : Alive(l) => loopThread = l

\* A thread that has not set _running yet has its starter waiting under the lock.
NewOK == \A l \in Loops : lpc[l] \in {"new", "set"} => \E t \in Actors : pc[t] = "wait"

\* _running is set exactly while a loop runs or is about to clear it.
RunOK ==
  /\ running => loopRef \in Loops /\ lpc[loopRef] \in {"run", "stopped"}
  /\ \A l \in Loops : lpc[l] \in {"run", "stopped"} => running

\* _loop is the loop of the thread that exists, from its creation on.
RefOK == \A l \in Loops : Alive(l) /\ lpc[l] # "new" => loopRef = l

\* A loop that stops, or will, is one that the closer waits for; a new one has
\* nothing to stop it.
StopOK ==
  \A l \in Loops :
    /\ lpc[l] \in {"stopped", "cleared", "drain", "wind", "closed"} => pc[Closer] = "join"
    /\ StopAsked(l) => lpc[l] # "unused" /\ (Alive(l) => pc[Closer] = "join")

ControlInv == LockOK /\ AliveOK /\ NewOK /\ RunOK /\ RefOK /\ StopOK
-----------------------------------------------------------------------------
(* The steps, with what the client adds to those of the worker left out.    *)

\* Client.close between its calls of the worker.
CloserMoves ==
  /\ pc[Closer] \in {"idle", "result", "unset"}
  /\ \E p \in {"unset", "stopping"} : pc' = [pc EXCEPT ![Closer] = p]
  /\ cancelled' \in {cancelled, cancelled \cup {AClose}}
  /\ UNCHANGED <<attributes, job, got, loopVars, cstate, home, late>>

\* A task of the loop goes on or ends.
TaskMoves(c) ==
  /\ cstate[c] = "task"
  /\ \/ UNCHANGED <<cstate, cancelled>>
     \/ /\ \E s \in Settled : cstate' = [cstate EXCEPT ![c] = s]
        /\ cancelled' \in {cancelled, cancelled \ {c}}
  /\ UNCHANGED <<attributes, callerVars, loopVars, home, late>>

WorkerMoves ==
  \/ \E t \in Actors, c \in Coros : pc[t] = "idle" /\ BeginSubmit(t, c)
  \/ CloserMoves
  \/ \E t \in Actors : SubmitStep(t) \/ AcquireLock(t)
  \/ StopStep
  \/ \E l \in Loops : LoopStep(l)
  \/ \E c \in Coros : TaskMoves(c)
  \/ UNCHANGED workerVars

\* Every step of the client is one of these for the worker.
LEMMA StepMoves == [Next]_vars => WorkerMoves
<1> SUFFICES ASSUME [Next]_vars PROVE WorkerMoves
  OBVIOUS
<1> USE ClientAssumption DEF WorkerMoves
<1>0. Closer \in Actors /\ \A t \in Threads : t \in Actors
  BY DEF Actors
<1>1. ASSUME NEW t \in Threads, NEW c \in Posts, Post(t, c) PROVE WorkerMoves
  BY <1>0, <1>1 DEF Post, Posts
<1>2. CASE CloseClient
  BY <1>0, <1>2 DEF CloseClient, CloserMoves, Goto, taskVars
<1>3. CASE CloserStep
  BY <1>3 DEF CloserStep, AwaitAClose, UnsetClient, CloserMoves, Goto, taskVars
<1>4. ASSUME NEW t \in Actors, Continue(t) \/ Acquire(t) PROVE WorkerMoves
  BY <1>4 DEF Continue, Acquire
<1>5. ASSUME NEW l \in Loops, LoopThread(l) PROVE WorkerMoves
  BY <1>5 DEF LoopThread
<1>6. ASSUME NEW c \in Coros, Task(c) PROVE TaskMoves(c)
  BY <1>6 DEF Task, StartRequest, TakeToken, Refreshed, RequestFails, WrongLoop, Answered,
              ClosesClient, Cancelled, GoesOn, Ends, EndsCancelled, Steps, TaskMoves, Settled
<1>7. ASSUME NEW h \in Clients, Expire(h) PROVE UNCHANGED workerVars
  BY <1>7 DEF Expire
<1>8. CASE UNCHANGED vars
  BY <1>8 DEF vars, workerVars
<1> QED
  BY <1>1, <1>2, <1>3, <1>4, <1>5, <1>6, <1>7, <1>8 DEF Next
-----------------------------------------------------------------------------
(* Types.                                                                   *)

\* The worker starts with its types.
LEMMA TypesInit == Init => TypeInv /\ InboxOK
<1> SUFFICES ASSUME Init PROVE TypeInv /\ InboxOK
  OBVIOUS
<1>1. \A l \in Loops : inbox[l] = <<>> /\ Range(inbox[l]) = {} /\ IsInjective(inbox[l])
  BY DEF Init, WorkerInit, Range, IsInjective
<1>2. inbox \in [Loops -> Seq(Coros \cup {Stop})]
  BY DEF Init, WorkerInit
<1> QED
  BY <1>1, <1>2, WorkerAssumption
     DEF Init, WorkerInit, TypeInv, WorkerTypeOK, JobOK, InboxOK, Submitting, ActorPc, LoopPc,
         CoroStates, Settled

\* run_coroutine_threadsafe refuses, or puts the coroutine into the inbox of a loop.
LEMMA ScheduleCases ==
  ASSUME NEW t, Schedule(t), got[t] \in Loops \cup {NoLoop}
  PROVE  \/ Raise(t) /\ UNCHANGED <<inbox, home, late>>
         \/ /\ got[t] \in Loops /\ lpc[got[t]] \notin {"closed", "ended"}
            /\ inbox' = [inbox EXCEPT ![got[t]] = Append(@, job[t])]
            /\ cstate' = [cstate EXCEPT ![job[t]] = "queued"]
            /\ home' = [home EXCEPT ![job[t]] = got[t]]
            /\ late' \in {late, late \cup {job[t]}}
            /\ job' = [job EXCEPT ![t] = NoCoro]
            /\ pc' = [pc EXCEPT ![t] = IF t = Closer THEN "result" ELSE "idle"]
  BY DEF Schedule, Goto

\* submit preserves the types.
LEMMA TypesSubmit ==
  ASSUME TypeInv, NEW t \in Actors, SubmitStep(t) \/ AcquireLock(t)
  PROVE  TypeInv'
<1> USE WorkerAssumption DEF TypeInv, WorkerTypeOK, JobOK, Submitting, ActorPc, LoopPc, CoroStates,
        Settled, Goto, attributes, callerVars, loopVars, taskVars
<1>1. CASE EnsureRunning(t)
  BY <1>1 DEF EnsureRunning
<1>2. CASE AcquireLock(t)
  BY <1>2 DEF AcquireLock
<1>3. CASE AlreadyRunning(t)
  BY <1>3 DEF AlreadyRunning
<1>4. CASE StartLoop(t)
  <2>1. Fresh(Unused) \in Loops
    BY <1>4 DEF StartLoop, Fresh, Unused
  <2> QED
    BY <1>4, <2>1 DEF StartLoop
<1>5. CASE StartFails(t)
  BY <1>5 DEF StartFails
<1>6. CASE LoopIsReady(t)
  BY <1>6 DEF LoopIsReady
<1>7. ASSUME pc[t] \in Submitting, Raise(t) PROVE JobOK'
  BY <1>7 DEF Raise
<1>8. CASE AssertLoop(t)
  <2>1. CASE loopRef = NoLoop
    <3>1. cstate' = [cstate EXCEPT ![job[t]] = "error"] /\ job[t] \in Coros /\ Raise(t)
      BY <1>8, <2>1 DEF AssertLoop, Raise
    <3>2. cstate' \in [Coros -> CoroStates]
      BY <3>1
    <3>3. \A c \in Coros : cstate'[c] \in {"queued", "task"} => home[c] \in Loops
      BY <3>1
    <3>4. WorkerTypeOK'
      BY <1>8, <2>1, <3>2, <3>3, ZenonT(30) DEF AssertLoop, Raise
    <3> QED
      BY <1>7, <1>8, <3>1, <3>4 DEF AssertLoop
  <2>2. CASE loopRef # NoLoop
    BY <1>8, <2>2 DEF AssertLoop
  <2> QED
    BY <2>1, <2>2
<1>9. CASE ReturnLoop(t)
  BY <1>9 DEF ReturnLoop
<1>10. CASE Schedule(t)
  <2> DEFINE l == got[t]
  <2>1. pc[t] \in Submitting /\ job[t] \in Coros
    BY <1>10 DEF Schedule
  <2>2. CASE Raise(t) /\ UNCHANGED <<inbox, home, late>>
    <3>1. WorkerTypeOK'
      BY <1>10, <2>2 DEF Schedule, Raise
    <3> QED
      BY <1>7, <2>1, <2>2, <3>1
  <2>3. CASE /\ l \in Loops /\ lpc[l] \notin {"closed", "ended"}
             /\ inbox' = [inbox EXCEPT ![l] = Append(@, job[t])]
             /\ cstate' = [cstate EXCEPT ![job[t]] = "queued"]
             /\ home' = [home EXCEPT ![job[t]] = l]
             /\ late' \in {late, late \cup {job[t]}}
             /\ job' = [job EXCEPT ![t] = NoCoro]
             /\ pc' = [pc EXCEPT ![t] = IF t = Closer THEN "result" ELSE "idle"]
    <3>1. got' = [got EXCEPT ![t] = NoLoop] /\ UNCHANGED <<attributes, lpc, stopping, cancelled>>
      BY <1>10 DEF Schedule
    <3>2. inbox' \in [Loops -> Seq(Coros \cup {Stop})]
      <4>1. Append(inbox[l], job[t]) \in Seq(Coros \cup {Stop})
        BY <2>1, <2>3
      <4> QED
        BY <2>3, <4>1
    <3>3. cstate' \in [Coros -> CoroStates] /\ home' \in [Coros -> Loops \cup {NoLoop}]
      BY <2>1, <2>3
    <3>4. \A c \in Coros : cstate'[c] \in {"queued", "task"} => home'[c] \in Loops
      BY <2>1, <2>3
    <3>5. WorkerTypeOK'
      BY <2>1, <2>3, <3>1, <3>2, <3>3, <3>4
    <3>6. JobOK'
      BY <2>1, <2>3
    <3> QED
      BY <3>5, <3>6
  <2> QED
    BY <1>10, <2>2, <2>3, ScheduleCases
<1> QED
  BY <1>1, <1>2, <1>3, <1>4, <1>5, <1>6, <1>8, <1>9, <1>10 DEF SubmitStep

\* So do the other steps.
LEMMA TypesNext ==
  ASSUME TypeInv, InboxOK, WorkerMoves
  PROVE  TypeInv'
<1> USE WorkerAssumption, ClientAssumption DEF TypeInv, WorkerTypeOK, JobOK, Submitting, ActorPc,
        LoopPc, CoroStates, Settled, Goto, attributes, callerVars, loopVars, taskVars
<1>0. Closer \in Actors
  BY DEF Actors
<1>1. ASSUME NEW t \in Actors, NEW c \in Coros, pc[t] = "idle", BeginSubmit(t, c) PROVE TypeInv'
  BY <1>1 DEF BeginSubmit
<1>2. CASE CloserMoves
  BY <1>0, <1>2 DEF CloserMoves
<1>3. CASE StopStep
  <2>1. CASE BeginStop
    BY <1>0, <2>1 DEF BeginStop
  <2>3. CASE AlreadyStopped
    BY <1>0, <2>3 DEF AlreadyStopped
  <2>4. CASE JoinLoop
    BY <1>0, <2>4 DEF JoinLoop
  <2>2. CASE SignalLoop
    <3>1. inbox' \in [Loops -> Seq(Coros \cup {Stop})]
      BY <2>2 DEF SignalLoop
    <3> QED
      BY <1>0, <2>2, <3>1 DEF SignalLoop
  <2> QED
    BY <1>3, <2>1, <2>2, <2>3, <2>4 DEF StopStep
<1>4. ASSUME NEW l \in Loops, RunCallback(l) PROVE TypeInv'
  <2>1. Head(inbox[l]) \in Coros \cup {Stop} /\ Tail(inbox[l]) \in Seq(Coros \cup {Stop})
    BY <1>4 DEF RunCallback
  <2>2. Head(inbox[l]) \in Range(inbox[l])
    BY <1>4, TailOfInjective DEF RunCallback, InboxOK
  <2>3. inbox' \in [Loops -> Seq(Coros \cup {Stop})]
    BY <1>4, <2>1 DEF RunCallback
  <2>4. CASE Head(inbox[l]) = Stop
    BY <1>4, <2>3, <2>4 DEF RunCallback
  <2>5. CASE Head(inbox[l]) # Stop
    <3>1. /\ Head(inbox[l]) \in Coros /\ cstate[Head(inbox[l])] = "queued"
          /\ cstate' = [cstate EXCEPT ![Head(inbox[l])] = "task"]
      BY <1>4, <2>1, <2>2, <2>5 DEF RunCallback, InboxOK
    <3> QED
      BY <1>4, <2>3, <2>5, <3>1 DEF RunCallback
  <2> QED
    BY <2>4, <2>5
<1>5. ASSUME NEW l \in Loops, LoopStep(l), ~RunCallback(l) PROVE TypeInv'
  <2>1. CASE LoopBegins(l)
    BY <2>1 DEF LoopBegins, Move
  <2>4. CASE SetRunning(l)
    BY <2>4 DEF SetRunning, Move
  <2>5. CASE LoopStops(l)
    BY <2>5 DEF LoopStops, Move
  <2>6. CASE ClearRunning(l)
    BY <2>6 DEF ClearRunning, Move
  <2>2. CASE CancelAllTasks(l)
    BY <2>2 DEF CancelAllTasks, TasksOf, Move
  <2>3. CASE Drained(l)
    BY <2>3 DEF Drained, Move
  <2>7. CASE LoopCloses(l)
    BY <2>7 DEF LoopCloses, Move
  <2>8. CASE ForgetLoop(l)
    BY <2>8 DEF ForgetLoop, Move
  <2> QED
    BY <1>5, <2>1, <2>2, <2>3, <2>4, <2>5, <2>6, <2>7, <2>8 DEF LoopStep
<1>6. ASSUME NEW c \in Coros, TaskMoves(c) PROVE TypeInv'
  <2>5. cstate[c] = "task" /\ cstate \in [Coros -> CoroStates]
    BY <1>6 DEF TaskMoves
  <2>6. CASE cstate' = cstate
    BY <1>6, <2>6 DEF TaskMoves
  <2>7. ASSUME NEW s \in Settled, cstate' = [cstate EXCEPT ![c] = s] PROVE TypeInv'
    <3>1. /\ cstate' \in [Coros -> CoroStates]
          /\ \A d \in Coros : cstate'[d] = cstate[d] \/ cstate'[d] \in Settled
          /\ \A d \in Coros : cstate[d] = "unused" => cstate'[d] = "unused"
      BY <2>5, <2>7
    <3>2. WorkerTypeOK'
      BY <1>6, <3>1 DEF TaskMoves
    <3>3. JobOK'
      BY <1>6, <3>1 DEF TaskMoves
    <3> QED
      BY <3>2, <3>3
  <2> QED
    BY <1>6, <2>6, <2>7 DEF TaskMoves
<1>7. CASE UNCHANGED workerVars
  BY <1>7 DEF workerVars
<1> QED
  BY <1>1, <1>2, <1>3, <1>4, <1>5, <1>6, <1>7, TypesSubmit DEF WorkerMoves
-----------------------------------------------------------------------------
(* Control.                                                                 *)

\* What the control invariant says of the loops when one of them lives.
LEMMA OneLives ==
  ASSUME TypeInv, AliveOK, NEW l \in Loops, Alive(l), NEW k \in Loops, Alive(k)
  PROVE  k = l
  BY DEF AliveOK

\* With the lock held by an actor that is about to start a loop, none lives.
LEMMA NoneLives ==
  ASSUME TypeInv, ControlInv, ~running,
         NEW t \in Actors, lock = t, pc[t] \notin {"wait", "join"}, NEW l \in Loops
  PROVE  ~Alive(l)
<1>0. Closer \in Actors
  BY DEF Actors
<1>1. lpc[l] \notin {"new", "set"}
  BY DEF ControlInv, NewOK, LockOK, Locked
<1>2. lpc[l] \notin {"run", "stopped"}
  BY DEF ControlInv, RunOK
<1>3. lpc[l] \notin {"cleared", "drain", "wind", "closed"}
  BY <1>0 DEF ControlInv, StopOK, LockOK, Locked
<1>4. lpc[l] \in LoopPc
  BY DEF TypeInv, WorkerTypeOK
<1> QED
  BY <1>1, <1>2, <1>3, <1>4 DEF Alive, LoopPc

\* While the worker runs, the loop that lives is the one in _loop.
LEMMA RunningLives ==
  ASSUME TypeInv, ControlInv, running
  PROVE  /\ loopRef \in Loops /\ Alive(loopRef) /\ lpc[loopRef] \in {"run", "stopped"}
         /\ \A l \in Loops : Alive(l) => l = loopRef
  BY OneLives DEF ControlInv, RunOK, Alive, AliveOK

\* The worker starts without a loop.
LEMMA ControlInit == Init => ControlInv
<1> SUFFICES ASSUME Init PROVE ControlInv
  OBVIOUS
<1>1. \A l \in Loops : Range(inbox[l]) = {}
  BY DEF Init, WorkerInit, Range
<1> QED
  BY <1>1, WorkerAssumption
     DEF Init, WorkerInit, ControlInv, LockOK, Locked, AliveOK, NewOK, RunOK, RefOK, StopOK,
         StopAsked, Alive, Actors

\* Steps that leave the loops and the attributes alone and change neither side of
\* the lock, nor the actor that waits, nor the closer's join.
LEMMA QuietSteps ==
  ASSUME TypeInv, ControlInv,
         UNCHANGED <<running, loopRef, loopThread, lock, lpc>>,
         NEW t \in Actors, NEW p, pc' = [pc EXCEPT ![t] = p] \/ pc' = pc,
         pc' = pc \/ (pc[t] \notin Locked /\ p \notin Locked),
         \A l \in Loops : StopAsked(l)' => StopAsked(l)
  PROVE  ControlInv'
<1>0. /\ pc \in [Actors -> ActorPc] /\ Closer \in Actors
      /\ \A u \in Actors : pc'[u] = pc[u] \/ (pc[u] \notin Locked /\ pc'[u] \notin Locked)
  BY DEF TypeInv, WorkerTypeOK, Actors
<1>1. \A u \in Actors : pc'[u] = pc[u] \/ (pc[u] \notin {"wait", "join"} /\ pc'[u] \notin {"wait", "join"})
  BY <1>0 DEF Locked
<1>2. \A u \in Actors : (pc[u] = "join" <=> pc'[u] = "join") /\ (pc[u] = "wait" <=> pc'[u] = "wait")
  BY <1>1
<1>3. LockOK'
  BY <1>0 DEF ControlInv, LockOK
<1>4. AliveOK' /\ RefOK' /\ RunOK'
  BY DEF ControlInv, AliveOK, RefOK, RunOK, Alive
<1>5. NewOK'
  BY <1>2 DEF ControlInv, NewOK
<1>6. StopOK'
  BY <1>0, <1>2 DEF ControlInv, StopOK, Alive
<1> QED
  BY <1>3, <1>4, <1>5, <1>6 DEF ControlInv

\* submit preserves control.
LEMMA ControlSubmit ==
  ASSUME TypeInv, ControlInv, NEW t \in Actors, SubmitStep(t) \/ AcquireLock(t)
  PROVE  ControlInv'
<1>0. /\ pc \in [Actors -> ActorPc] /\ lpc \in [Loops -> LoopPc] /\ got \in [Actors -> Loops \cup {NoLoop}]
      /\ inbox \in [Loops -> Seq(Coros \cup {Stop})]
      /\ Closer \in Actors /\ NoThread \notin Actors /\ NoLoop \notin Loops
  BY WorkerAssumption DEF TypeInv, WorkerTypeOK, Actors
<1>1. CASE EnsureRunning(t)
  <2>1. UNCHANGED <<running, loopRef, loopThread, lock, lpc, stopping, inbox>>
    BY <1>1 DEF EnsureRunning, attributes, loopVars
  <2>2. PICK p \in {"assert", "lock"} : pc[t] = "ensure" /\ pc' = [pc EXCEPT ![t] = p]
    BY <1>1 DEF EnsureRunning, Goto
  <2> QED
    BY <2>1, <2>2, QuietSteps DEF Locked, StopAsked
<1>2. CASE AcquireLock(t)
  <2>1. /\ lock = NoThread /\ lock' = t /\ pc[t] \notin Locked
        /\ pc' = [pc EXCEPT ![t] = IF pc[t] = "lock" THEN "start" ELSE "stop"]
        /\ UNCHANGED <<running, loopRef, loopThread, lpc, stopping, inbox>>
    BY <1>2 DEF AcquireLock, Goto, loopVars, Locked
  <2>2. \A u \in Actors : u # t => pc'[u] = pc[u]
    BY <1>0, <2>1
  <2>3. pc'[t] \in {"start", "stop"} /\ \A u \in Actors : pc[u] \notin Locked
    BY <1>0, <2>1 DEF ControlInv, LockOK
  <2>4. LockOK'
    BY <1>0, <2>1, <2>2, <2>3 DEF LockOK, Locked
  <2>5. NewOK' /\ StopOK'
    BY <1>0, <2>1, <2>2, <2>3 DEF ControlInv, NewOK, StopOK, Alive, StopAsked, Locked
  <2> QED
    BY <2>1, <2>4, <2>5 DEF ControlInv, AliveOK, RefOK, RunOK, Alive
<1>3. ASSUME /\ lock = t /\ pc[t] \in {"start", "wait"} /\ (pc[t] = "wait" => running)
             /\ lock' = NoThread /\ pc' = [pc EXCEPT ![t] = "assert"]
             /\ UNCHANGED <<running, loopRef, loopThread, lpc, stopping, inbox>>
      PROVE  ControlInv'
  <2>2. \A u \in Actors : u # t => pc'[u] = pc[u] /\ pc[u] \notin Locked
    BY <1>0, <1>3 DEF ControlInv, LockOK
  <2>4. LockOK'
    BY <1>0, <1>3, <2>2 DEF LockOK, Locked
  <2>5. NewOK'
    <3>1. CASE pc[t] = "start"
      BY <1>0, <1>3, <2>2, <3>1 DEF ControlInv, NewOK, Locked
    <3>2. CASE pc[t] = "wait"
      <4>1. \A l \in Loops : lpc[l] \notin {"new", "set"}
        BY <1>3, <3>2, RunningLives DEF Alive
      <4> QED
        BY <1>3, <4>1 DEF NewOK
    <3> QED
      BY <1>3, <3>1, <3>2
  <2>6. StopOK'
    <3>1. pc'[Closer] = "join" <=> pc[Closer] = "join"
      BY <1>0, <1>3
    <3> QED
      BY <1>3, <3>1 DEF ControlInv, StopOK, Alive, StopAsked
  <2> QED
    BY <1>3, <2>4, <2>5, <2>6 DEF ControlInv, AliveOK, RefOK, RunOK, Alive
<1>4. CASE AlreadyRunning(t)
  <2>1. lock = t
    BY <1>4 DEF AlreadyRunning, ControlInv, LockOK, Locked
  <2> QED
    BY <1>3, <1>4, <2>1 DEF AlreadyRunning, Goto, loopVars
<1>5. CASE StartFails(t)
  <2>1. lock = t
    BY <1>5 DEF StartFails, ControlInv, LockOK, Locked
  <2> QED
    BY <1>3, <1>5, <2>1 DEF StartFails, Goto, loopVars
<1>6. CASE LoopIsReady(t)
  <2>1. lock = t
    BY <1>6 DEF LoopIsReady, ControlInv, LockOK, Locked
  <2> QED
    BY <1>3, <1>6, <2>1 DEF LoopIsReady, Goto, loopVars
<1>7. CASE StartLoop(t)
  <2> DEFINE n == Fresh(Unused)
  <2>1. n \in Loops /\ lpc[n] = "unused"
    BY <1>7 DEF StartLoop, Fresh, Unused
  <2>2. /\ pc[t] = "start" /\ ~running /\ loopThread' = n
        /\ lpc' = [lpc EXCEPT ![n] = "new"] /\ pc' = [pc EXCEPT ![t] = "wait"]
        /\ UNCHANGED <<running, loopRef, lock, stopping, inbox>>
    BY <1>7 DEF StartLoop, Goto
  <2>3. lock = t
    BY <2>2 DEF ControlInv, LockOK, Locked
  <2>4. \A l \in Loops : ~Alive(l)
    BY <2>2, <2>3, NoneLives
  <2>5. lpc'[n] = "new" /\ \A l \in Loops : l # n => lpc'[l] = lpc[l] /\ ~Alive(l)'
    BY <1>0, <2>1, <2>2, <2>4 DEF Alive
  <2>6. pc'[t] = "wait" /\ \A u \in Actors : u # t => pc'[u] = pc[u] /\ pc[u] \notin Locked
    BY <1>0, <2>2, <2>3 DEF ControlInv, LockOK
  <2>7. LockOK'
    BY <2>2, <2>3, <2>6 DEF LockOK, Locked
  <2>8. AliveOK' /\ RefOK'
    BY <2>2, <2>5 DEF AliveOK, RefOK, Alive
  <2>9. NewOK'
    BY <2>5, <2>6 DEF NewOK, Alive
  <2>10. RunOK'
    BY <2>2, <2>5 DEF RunOK, Alive
  <2>11. StopOK'
    <3>1. ~StopAsked(n)
      BY <2>1 DEF ControlInv, StopOK
    <3>2. \A l \in Loops : StopAsked(l)' <=> StopAsked(l)
      BY <2>2 DEF StopAsked
    <3> QED
      BY <2>1, <2>5, <3>1, <3>2 DEF ControlInv, StopOK, Alive
  <2> QED
    BY <2>7, <2>8, <2>9, <2>10, <2>11 DEF ControlInv
<1>8. CASE AssertLoop(t)
  <2>1. UNCHANGED <<running, loopRef, loopThread, lock, lpc, stopping, inbox>>
    BY <1>8 DEF AssertLoop, attributes, loopVars
  <2>2. PICK p \in {"unset", "idle", "return"} : pc[t] = "assert" /\ pc' = [pc EXCEPT ![t] = p]
    BY <1>8 DEF AssertLoop, Raise, Goto
  <2> QED
    BY <2>1, <2>2, QuietSteps DEF Locked, StopAsked
<1>9. CASE ReturnLoop(t)
  <2>1. /\ UNCHANGED <<running, loopRef, loopThread, lock, lpc, stopping, inbox>>
        /\ pc[t] = "return" /\ pc' = [pc EXCEPT ![t] = "schedule"]
    BY <1>9 DEF ReturnLoop, attributes, loopVars, Goto
  <2> QED
    BY <2>1, QuietSteps DEF Locked, StopAsked
<1>10. CASE Schedule(t)
  <2>1. UNCHANGED <<running, loopRef, loopThread, lock, lpc, stopping>> /\ pc[t] = "schedule"
    BY <1>10 DEF Schedule, attributes
  <2>2. PICK p \in {"unset", "idle", "result"} : pc' = [pc EXCEPT ![t] = p]
    BY <1>0, <1>10, ScheduleCases DEF Raise, Goto
  <2>3. ASSUME NEW l \in Loops, StopAsked(l)' PROVE StopAsked(l)
    <3>1. CASE inbox' = inbox
      BY <2>1, <2>3, <3>1 DEF StopAsked
    <3>2. CASE inbox' = [inbox EXCEPT ![got[t]] = Append(@, job[t])] /\ got[t] \in Loops
      <4>1. job[t] \in Coros /\ job[t] # Stop
        BY <2>1, WorkerAssumption DEF TypeInv, JobOK, Submitting
      <4>2. Range(Append(inbox[l], job[t])) = Range(inbox[l]) \cup {job[t]}
        BY <1>0, <4>1, RangeAppend
      <4> QED
        BY <1>0, <2>1, <2>3, <3>2, <4>1, <4>2 DEF StopAsked
    <3> QED
      BY <1>0, <1>10, <3>1, <3>2, ScheduleCases
  <2> QED
    BY <2>1, <2>2, <2>3, QuietSteps DEF Locked
<1> QED
  BY <1>1, <1>2, <1>4, <1>5, <1>6, <1>7, <1>8, <1>9, <1>10 DEF SubmitStep

\* So does close.
LEMMA ControlStop ==
  ASSUME TypeInv, ControlInv, StopStep
  PROVE  ControlInv'
<1>0. /\ pc \in [Actors -> ActorPc] /\ lpc \in [Loops -> LoopPc]
      /\ inbox \in [Loops -> Seq(Coros \cup {Stop})]
      /\ Closer \in Actors /\ NoThread \notin Actors /\ NoLoop \notin Loops
  BY WorkerAssumption DEF TypeInv, WorkerTypeOK, Actors
<1>1. CASE BeginStop
  <2>1. UNCHANGED <<running, loopRef, loopThread, lock, lpc, stopping, inbox>>
    BY <1>1 DEF BeginStop, attributes, loopVars
  <2>2. PICK p \in {"stopLock", "closed"} :
          pc[Closer] = "stopping" /\ pc' = [pc EXCEPT ![Closer] = p]
    BY <1>1 DEF BeginStop, Goto
  <2> QED
    BY <1>0, <2>1, <2>2, QuietSteps DEF Locked, StopAsked
<1>2. CASE AlreadyStopped
  <2>1. /\ lock = Closer /\ pc[Closer] = "stop" /\ lock' = NoThread
        /\ pc' = [pc EXCEPT ![Closer] = "closed"]
        /\ UNCHANGED <<running, loopRef, loopThread, lpc, stopping, inbox>>
    BY <1>0, <1>2 DEF AlreadyStopped, Goto, loopVars, ControlInv, LockOK, Locked
  <2>2. \A u \in Actors : u # Closer => pc'[u] = pc[u] /\ pc[u] \notin Locked
    BY <1>0, <2>1 DEF ControlInv, LockOK
  <2>3. LockOK'
    BY <1>0, <2>1, <2>2 DEF LockOK, Locked
  <2>4. NewOK'
    BY <1>0, <2>1, <2>2 DEF ControlInv, NewOK, Locked
  <2>5. StopOK'
    BY <1>0, <2>1 DEF ControlInv, StopOK, Alive, StopAsked
  <2> QED
    BY <2>1, <2>3, <2>4, <2>5 DEF ControlInv, AliveOK, RefOK, RunOK, Alive
<1>3. CASE SignalLoop
  <2>1. /\ pc[Closer] = "stop" /\ running /\ pc' = [pc EXCEPT ![Closer] = "join"]
        /\ UNCHANGED <<running, loopRef, loopThread, lock, lpc, stopping>>
    BY <1>3 DEF SignalLoop, Goto, attributes
  <2>2. loopRef \in Loops /\ Alive(loopRef) /\ \A l \in Loops : Alive(l) => l = loopRef
    BY <2>1, RunningLives
  <2>3. inbox' = [inbox EXCEPT ![loopRef] = Append(@, Stop)]
    BY <1>0, <1>3, <2>2 DEF SignalLoop
  <2>4. \A l \in Loops : StopAsked(l)' => StopAsked(l) \/ l = loopRef
    BY <1>0, <2>1, <2>2, <2>3 DEF StopAsked
  <2>5. pc'[Closer] = "join" /\ \A u \in Actors : u # Closer => pc'[u] = pc[u]
    BY <1>0, <2>1
  <2>6. LockOK'
    BY <1>0, <2>1, <2>5 DEF ControlInv, LockOK, Locked
  <2>7. NewOK'
    BY <1>0, <2>1, <2>5 DEF ControlInv, NewOK
  <2>8. StopOK'
    BY <2>1, <2>2, <2>4, <2>5 DEF ControlInv, StopOK, Alive
  <2> QED
    BY <2>1, <2>6, <2>7, <2>8 DEF ControlInv, AliveOK, RefOK, RunOK, Alive
<1>4. CASE JoinLoop
  <2>1. /\ lock = Closer /\ pc[Closer] = "join" /\ lock' = NoThread /\ loopThread' = NoLoop
        /\ loopThread # NoLoop => lpc[loopThread] = "ended"
        /\ pc' = [pc EXCEPT ![Closer] = "closed"]
        /\ UNCHANGED <<running, loopRef, lpc, stopping, inbox>>
    BY <1>0, <1>4 DEF JoinLoop, Goto, loopVars, ControlInv, LockOK, Locked
  <2>2. \A u \in Actors : u # Closer => pc'[u] = pc[u] /\ pc[u] \notin Locked
    BY <1>0, <2>1 DEF ControlInv, LockOK
  <2>3. \A l \in Loops : ~Alive(l)
    BY <1>0, <2>1 DEF ControlInv, AliveOK, Alive
  <2>4. LockOK'
    BY <1>0, <2>1, <2>2 DEF LockOK, Locked
  <2>5. \A l \in Loops : ~Alive(l)' /\ (StopAsked(l)' <=> StopAsked(l))
    BY <2>1, <2>3 DEF Alive, StopAsked
  <2>6. AliveOK' /\ NewOK' /\ RefOK' /\ StopOK'
    BY <2>1, <2>5 DEF ControlInv, AliveOK, NewOK, RefOK, StopOK, Alive
  <2>7. RunOK'
    BY <2>1, <2>3, RunningLives DEF ControlInv, RunOK
  <2> QED
    BY <2>4, <2>6, <2>7 DEF ControlInv
<1> QED
  BY <1>1, <1>2, <1>3, <1>4 DEF StopStep

\* And so does the thread of the loop.
LEMMA ControlLoop ==
  ASSUME TypeInv, ControlInv, NEW l \in Loops, LoopStep(l)
  PROVE  ControlInv'
<1>0. /\ pc \in [Actors -> ActorPc] /\ lpc \in [Loops -> LoopPc]
      /\ inbox \in [Loops -> Seq(Coros \cup {Stop})]
      /\ Closer \in Actors /\ NoThread \notin Actors /\ NoLoop \notin Loops
  BY WorkerAssumption DEF TypeInv, WorkerTypeOK, Actors
<1>1. CASE LoopBegins(l)
  <2>1. /\ lpc[l] = "new" /\ loopRef' = l /\ lpc' = [lpc EXCEPT ![l] = "set"]
        /\ UNCHANGED <<running, loopThread, lock, pc, stopping, inbox>>
    BY <1>1 DEF LoopBegins, Move, callerVars
  <2>2. Alive(l) /\ \A k \in Loops : Alive(k) => k = l
    BY <2>1, OneLives DEF ControlInv, Alive
  <2>3. lpc'[l] = "set" /\ \A k \in Loops : k # l => lpc'[k] = lpc[k]
    BY <1>0, <2>1
  <2>4. LockOK' /\ AliveOK'
    BY <2>1, <2>2, <2>3 DEF ControlInv, LockOK, AliveOK, Alive
  <2>5. NewOK'
    BY <2>1, <2>3 DEF ControlInv, NewOK
  <2>6. RunOK'
    BY <2>1, <2>2, <2>3, RunningLives DEF ControlInv, RunOK
  <2>7. RefOK'
    BY <2>1, <2>2, <2>3 DEF RefOK, Alive
  <2>8. StopOK'
    BY <2>1, <2>2, <2>3 DEF ControlInv, StopOK, Alive, StopAsked
  <2> QED
    BY <2>4, <2>5, <2>6, <2>7, <2>8 DEF ControlInv
<1>2. CASE SetRunning(l)
  <2>1. /\ lpc[l] = "set" /\ running' = TRUE /\ lpc' = [lpc EXCEPT ![l] = "run"]
        /\ UNCHANGED <<loopRef, loopThread, lock, pc, stopping, inbox>>
    BY <1>2 DEF SetRunning, Move, callerVars
  <2>2. Alive(l) /\ loopRef = l /\ \A k \in Loops : Alive(k) => k = l
    BY <2>1, OneLives DEF ControlInv, RefOK, Alive
  <2>3. lpc'[l] = "run" /\ \A k \in Loops : k # l => lpc'[k] = lpc[k]
    BY <1>0, <2>1
  <2>4. LockOK' /\ AliveOK'
    BY <2>1, <2>2, <2>3 DEF ControlInv, LockOK, AliveOK, Alive
  <2>5. NewOK'
    BY <2>1, <2>3 DEF ControlInv, NewOK
  <2>6. RunOK'
    BY <2>1, <2>2, <2>3 DEF RunOK
  <2>7. RefOK'
    BY <2>1, <2>2, <2>3 DEF RefOK, Alive
  <2>8. StopOK'
    BY <2>1, <2>2, <2>3 DEF ControlInv, StopOK, Alive, StopAsked
  <2> QED
    BY <2>4, <2>5, <2>6, <2>7, <2>8 DEF ControlInv
<1>3. CASE RunCallback(l)
  <2>1. /\ UNCHANGED <<running, loopRef, loopThread, lock, pc, lpc>>
        /\ Runs(l) /\ inbox[l] # <<>> /\ inbox' = [inbox EXCEPT ![l] = Tail(@)]
        /\ stopping' = stopping \/ (Head(inbox[l]) = Stop /\ stopping' = stopping \cup {l})
    BY <1>3 DEF RunCallback, attributes, callerVars
  <2>2. Head(inbox[l]) \in Range(inbox[l]) /\ Range(Tail(inbox[l])) \subseteq Range(inbox[l])
    BY <1>0, <2>1, HeadAndTail
  <2>3. \A k \in Loops : StopAsked(k)' => StopAsked(k)
    BY <1>0, <2>1, <2>2 DEF StopAsked
  <2> QED
    BY <1>0, <2>1, <2>3, QuietSteps
<1>4. CASE LoopStops(l)
  <2>1. /\ lpc[l] = "run" /\ l \in stopping /\ lpc' = [lpc EXCEPT ![l] = "stopped"]
        /\ UNCHANGED <<running, loopRef, loopThread, lock, pc, stopping, inbox>>
    BY <1>4 DEF LoopStops, Move, callerVars, attributes
  <2>2. Alive(l) /\ pc[Closer] = "join"
    BY <2>1 DEF ControlInv, StopOK, StopAsked, Alive
  <2>3. lpc'[l] = "stopped" /\ \A k \in Loops : k # l => lpc'[k] = lpc[k]
    BY <1>0, <2>1
  <2>4. LockOK' /\ AliveOK' /\ NewOK' /\ RunOK' /\ RefOK'
    BY <2>1, <2>2, <2>3 DEF ControlInv, LockOK, AliveOK, NewOK, RunOK, RefOK, Alive
  <2>5. StopOK'
    BY <2>1, <2>2, <2>3 DEF ControlInv, StopOK, Alive, StopAsked
  <2> QED
    BY <2>4, <2>5 DEF ControlInv
<1>5. CASE ClearRunning(l)
  <2>1. /\ lpc[l] = "stopped" /\ running' = FALSE /\ lpc' = [lpc EXCEPT ![l] = "cleared"]
        /\ UNCHANGED <<loopRef, loopThread, lock, pc, stopping, inbox>>
    BY <1>5 DEF ClearRunning, Move, callerVars
  <2>2. Alive(l) /\ pc[Closer] = "join" /\ \A k \in Loops : Alive(k) => k = l
    BY <2>1, OneLives DEF ControlInv, StopOK, Alive
  <2>3. lpc'[l] = "cleared" /\ \A k \in Loops : k # l => lpc'[k] = lpc[k]
    BY <1>0, <2>1
  <2>4. LockOK' /\ AliveOK' /\ NewOK' /\ RefOK'
    BY <2>1, <2>2, <2>3 DEF ControlInv, LockOK, AliveOK, NewOK, RefOK, Alive
  <2>5. RunOK'
    BY <2>1, <2>2, <2>3 DEF RunOK, Alive
  <2>6. StopOK'
    BY <2>1, <2>2, <2>3 DEF ControlInv, StopOK, Alive, StopAsked
  <2> QED
    BY <2>4, <2>5, <2>6 DEF ControlInv
<1>6. ASSUME /\ lpc[l] \in {"cleared", "drain", "wind"}
             /\ lpc' \in {[lpc EXCEPT ![l] = p] : p \in {"drain", "wind", "closed"}}
             /\ UNCHANGED <<running, loopRef, loopThread, lock, pc, stopping, inbox>>
      PROVE  ControlInv'
  <2>1. PICK p \in {"drain", "wind", "closed"} : lpc' = [lpc EXCEPT ![l] = p]
    BY <1>6
  <2>2. Alive(l) /\ pc[Closer] = "join"
    BY <1>6 DEF ControlInv, StopOK, Alive
  <2>3. lpc'[l] = p /\ \A k \in Loops : k # l => lpc'[k] = lpc[k]
    BY <1>0, <2>1
  <2>4. LockOK' /\ AliveOK' /\ NewOK' /\ RefOK'
    BY <1>6, <2>2, <2>3 DEF ControlInv, LockOK, AliveOK, NewOK, RefOK, Alive
  <2>5. RunOK'
    BY <1>6, <2>3 DEF ControlInv, RunOK
  <2>6. StopOK'
    BY <1>6, <2>2, <2>3 DEF ControlInv, StopOK, Alive, StopAsked
  <2> QED
    BY <2>4, <2>5, <2>6 DEF ControlInv
<1>7. CASE CancelAllTasks(l)
  BY <1>6, <1>7 DEF CancelAllTasks, Move, attributes, callerVars
<1>8. CASE Drained(l)
  BY <1>6, <1>8 DEF Drained, Move, attributes, callerVars
<1>9. CASE LoopCloses(l)
  BY <1>6, <1>9 DEF LoopCloses, Move, attributes, callerVars
<1>10. CASE ForgetLoop(l)
  <2>1. /\ lpc[l] = "closed" /\ loopRef' = NoLoop /\ lpc' = [lpc EXCEPT ![l] = "ended"]
        /\ UNCHANGED <<running, loopThread, lock, pc, stopping, inbox>>
    BY <1>10 DEF ForgetLoop, Move, callerVars
  <2>2. Alive(l) /\ \A k \in Loops : Alive(k) => k = l
    BY <2>1, OneLives DEF ControlInv, Alive
  <2>3. lpc'[l] = "ended" /\ \A k \in Loops : k # l => lpc'[k] = lpc[k]
    BY <1>0, <2>1
  <2>4. \A k \in Loops : ~Alive(k)'
    BY <2>2, <2>3 DEF Alive
  <2>5. LockOK' /\ AliveOK' /\ NewOK' /\ RefOK'
    BY <2>1, <2>3, <2>4 DEF ControlInv, LockOK, AliveOK, NewOK, RefOK, Alive
  <2>6. ~running
    BY <2>1, <2>2, RunningLives
  <2>7. RunOK'
    BY <2>1, <2>4, <2>6 DEF RunOK, Alive
  <2>8. StopOK'
    BY <2>1, <2>3, <2>4 DEF ControlInv, StopOK, Alive, StopAsked
  <2> QED
    BY <2>5, <2>7, <2>8 DEF ControlInv
<1> QED
  BY <1>1, <1>2, <1>3, <1>4, <1>5, <1>7, <1>8, <1>9, <1>10 DEF LoopStep

\* Every step preserves control.
LEMMA ControlNext ==
  ASSUME TypeInv, ControlInv, WorkerMoves
  PROVE  ControlInv'
<1>0. Closer \in Actors
  BY DEF Actors
<1>1. ASSUME NEW t \in Actors, NEW c \in Coros, pc[t] = "idle", BeginSubmit(t, c)
      PROVE  ControlInv'
  <2>1. /\ UNCHANGED <<running, loopRef, loopThread, lock, lpc, stopping, inbox>>
        /\ pc' = [pc EXCEPT ![t] = "ensure"]
    BY <1>1 DEF BeginSubmit, Goto, attributes, loopVars
  <2> QED
    BY <1>1, <2>1, QuietSteps DEF Locked, StopAsked
<1>2. CASE CloserMoves
  <2>1. /\ UNCHANGED <<running, loopRef, loopThread, lock, lpc, stopping, inbox>>
        /\ pc[Closer] \notin Locked
    BY <1>2 DEF CloserMoves, attributes, loopVars, Locked
  <2>2. PICK p \in {"unset", "stopping"} : pc' = [pc EXCEPT ![Closer] = p]
    BY <1>2 DEF CloserMoves
  <2> QED
    BY <1>0, <2>1, <2>2, QuietSteps DEF Locked, StopAsked
<1>3. ASSUME UNCHANGED <<running, loopRef, loopThread, lock, lpc, stopping, inbox, pc>>
      PROVE  ControlInv'
  BY <1>0, <1>3, QuietSteps DEF StopAsked
<1>4. ASSUME NEW c \in Coros, TaskMoves(c) PROVE ControlInv'
  BY <1>3, <1>4 DEF TaskMoves, attributes, callerVars, loopVars
<1>5. CASE UNCHANGED workerVars
  BY <1>3, <1>5 DEF workerVars
<1> QED
  BY <1>1, <1>2, <1>4, <1>5, ControlSubmit, ControlStop, ControlLoop DEF WorkerMoves
-----------------------------------------------------------------------------
(* Inboxes.                                                                 *)

\* A coroutine that changes its state without being queued is in no inbox.
LEMMA InboxKept ==
  ASSUME TypeInv, InboxOK, inbox' = inbox, home' = home,
         \A c \in Coros : cstate[c] = "queued" => cstate'[c] = "queued"
  PROVE  InboxOK'
<1>1. ASSUME NEW l \in Loops, NEW c \in Range(inbox[l]) \ {Stop} PROVE c \in Coros
  <2>1. inbox[l] \in Seq(Coros \cup {Stop})
    BY DEF TypeInv, WorkerTypeOK
  <2> QED
    BY <1>1, <2>1 DEF Range
<1> QED
  BY <1>1 DEF InboxOK

\* An inbox never holds a coroutine twice, nor one that is not on its way.
LEMMA InboxNext ==
  ASSUME TypeInv, ControlInv, InboxOK, WorkerMoves
  PROVE  InboxOK'
<1>0. /\ inbox \in [Loops -> Seq(Coros \cup {Stop})] /\ cstate \in [Coros -> CoroStates]
      /\ home \in [Coros -> Loops \cup {NoLoop}] /\ job \in [Actors -> Coros \cup {NoCoro}]
      /\ got \in [Actors -> Loops \cup {NoLoop}]
      /\ Closer \in Actors /\ Stop \notin Coros /\ NoLoop \notin Loops
  BY WorkerAssumption DEF TypeInv, WorkerTypeOK, Actors
<1>1. ASSUME UNCHANGED <<inbox, cstate, home>> PROVE InboxOK'
  BY <1>1, InboxKept
<1>2. ASSUME NEW t \in Actors, pc[t] \in Submitting, Raise(t), UNCHANGED <<inbox, home>>
      PROVE  InboxOK'
  <2>1. job[t] \in Coros /\ cstate[job[t]] = "unused"
    BY <1>2 DEF TypeInv, JobOK
  <2>2. \A c \in Coros : cstate[c] = "queued" => cstate'[c] = "queued"
    BY <1>0, <1>2, <2>1 DEF Raise
  <2> QED
    BY <1>2, <2>2, InboxKept
<1>3. ASSUME NEW t \in Actors, Schedule(t) PROVE InboxOK'
  <2> DEFINE l == got[t]
             c == job[t]
  <2>1. pc[t] \in Submitting /\ c \in Coros /\ cstate[c] = "unused"
    BY <1>3 DEF Schedule, Submitting, TypeInv, JobOK
  <2>2. CASE /\ l \in Loops /\ inbox' = [inbox EXCEPT ![l] = Append(@, c)]
             /\ cstate' = [cstate EXCEPT ![c] = "queued"] /\ home' = [home EXCEPT ![c] = l]
    <3>1. \A k \in Loops : c \notin Range(inbox[k])
      BY <1>0, <2>1 DEF InboxOK
    <3>2. inbox[l] \in Seq(Coros \cup {Stop}) /\ c \in Coros \cup {Stop} /\ IsInjective(inbox[l])
      BY <1>0, <2>1, <2>2 DEF InboxOK
    <3>3. Range(inbox'[l]) = Range(inbox[l]) \cup {c} /\ IsInjective(inbox'[l])
      BY <1>0, <2>2, <3>1, <3>2, RangeAppend, InjectiveAppend
    <3>4. \A k \in Loops : k # l => inbox'[k] = inbox[k]
      BY <1>0, <2>2
    <3>5. ASSUME NEW k \in Loops, NEW d \in Range(inbox[k]) \ {Stop}
          PROVE  cstate'[d] = "queued" /\ home'[d] = k
      <4>1. inbox[k] \in Seq(Coros \cup {Stop})
        BY <1>0
      <4>2. d \in Coros
        BY <3>5, <4>1 DEF Range
      <4>3. d # c /\ cstate[d] = "queued" /\ home[d] = k
        BY <3>1, <3>5 DEF InboxOK
      <4> QED
        BY <1>0, <2>2, <4>2, <4>3
    <3>6. cstate'[c] = "queued" /\ home'[c] = l
      BY <1>0, <2>1, <2>2
    <3> QED
      BY <3>3, <3>4, <3>5, <3>6 DEF InboxOK
  <2> QED
    BY <1>0, <1>2, <1>3, <2>1, <2>2, ScheduleCases
<1>4. ASSUME NEW t \in Actors, SubmitStep(t) \/ AcquireLock(t) PROVE InboxOK'
  <2>1. CASE EnsureRunning(t) \/ AcquireLock(t) \/ AlreadyRunning(t) \/ StartLoop(t)
             \/ StartFails(t) \/ LoopIsReady(t) \/ ReturnLoop(t)
    BY <1>1, <2>1 DEF EnsureRunning, AcquireLock, AlreadyRunning, StartLoop, StartFails, LoopIsReady,
                      ReturnLoop, loopVars, taskVars
  <2>2. CASE AssertLoop(t)
    <3>1. CASE loopRef = NoLoop
      BY <1>2, <2>2, <3>1 DEF AssertLoop, Submitting, loopVars
    <3>2. CASE loopRef # NoLoop
      BY <1>1, <2>2, <3>2 DEF AssertLoop, loopVars
    <3> QED
      BY <3>1, <3>2
  <2> QED
    BY <1>3, <1>4, <2>1, <2>2 DEF SubmitStep
<1>5. CASE StopStep
  <2>1. CASE BeginStop \/ AlreadyStopped \/ JoinLoop
    BY <1>1, <2>1 DEF BeginStop, AlreadyStopped, JoinLoop, loopVars, taskVars
  <2>2. CASE SignalLoop
    <3>1. loopRef \in Loops /\ Alive(loopRef) /\ pc[Closer] # "join"
      BY <2>2, RunningLives DEF SignalLoop
    <3>2. Stop \notin Range(inbox[loopRef])
      BY <3>1 DEF ControlInv, StopOK, StopAsked
    <3>3. /\ inbox' = [inbox EXCEPT ![loopRef] = Append(@, Stop)]
          /\ cstate' = cstate /\ home' = home
      BY <1>0, <2>2, <3>1 DEF SignalLoop, taskVars
    <3>4. inbox[loopRef] \in Seq(Coros \cup {Stop}) /\ IsInjective(inbox[loopRef])
      BY <1>0, <3>1 DEF InboxOK
    <3>5. /\ Range(inbox'[loopRef]) = Range(inbox[loopRef]) \cup {Stop}
          /\ IsInjective(inbox'[loopRef])
      BY <1>0, <3>1, <3>2, <3>3, <3>4, RangeAppend, InjectiveAppend
    <3>6. \A k \in Loops : k # loopRef => inbox'[k] = inbox[k]
      BY <1>0, <3>3
    <3> QED
      BY <3>1, <3>3, <3>5, <3>6 DEF InboxOK
  <2> QED
    BY <1>5, <2>1, <2>2 DEF StopStep
<1>6. ASSUME NEW l \in Loops, RunCallback(l) PROVE InboxOK'
  <2> DEFINE c == Head(inbox[l])
  <2>1. inbox[l] # <<>> /\ inbox' = [inbox EXCEPT ![l] = Tail(@)] /\ home' = home
    BY <1>6 DEF RunCallback
  <2>2. /\ Range(Tail(inbox[l])) = Range(inbox[l]) \ {c} /\ IsInjective(Tail(inbox[l]))
        /\ c \in Range(inbox[l])
    BY <1>0, <2>1, TailOfInjective DEF InboxOK
  <2>3. \A d \in Coros : d # c => cstate'[d] = cstate[d]
    BY <1>0, <1>6 DEF RunCallback
  <2>4. ASSUME NEW k \in Loops, k # l PROVE c \notin Range(inbox[k]) \ {Stop}
    BY <2>2, <2>4 DEF InboxOK
  <2>5. \A k \in Loops : inbox'[k] = IF k = l THEN Tail(inbox[l]) ELSE inbox[k]
    BY <1>0, <2>1
  <2>6. ASSUME NEW k \in Loops, NEW d \in Range(inbox'[k]) \ {Stop}
        PROVE  cstate'[d] = "queued" /\ home'[d] = k
    <3>1. d \in Range(inbox[k]) \ {Stop} /\ d # c
      BY <2>2, <2>4, <2>5, <2>6
    <3>2. d \in Coros
      <4>1. inbox[k] \in Seq(Coros \cup {Stop})
        BY <1>0
      <4> QED
        BY <3>1, <4>1 DEF Range
    <3> QED
      BY <2>1, <2>3, <3>1, <3>2 DEF InboxOK
  <2> QED
    BY <2>2, <2>5, <2>6 DEF InboxOK
<1>7. ASSUME NEW l \in Loops, LoopStep(l), ~RunCallback(l) PROVE InboxOK'
  BY <1>1, <1>7 DEF LoopStep, LoopBegins, SetRunning, LoopStops, ClearRunning, CancelAllTasks, Drained,
                    LoopCloses, ForgetLoop, taskVars
<1>8. ASSUME NEW c \in Coros, TaskMoves(c) PROVE InboxOK'
  <2>1. \A d \in Coros : cstate[d] = "queued" => cstate'[d] = "queued"
    BY <1>0, <1>8 DEF TaskMoves
  <2> QED
    BY <1>8, <2>1, InboxKept DEF TaskMoves, loopVars
<1>9. ASSUME NEW t \in Actors, NEW c \in Coros, BeginSubmit(t, c) PROVE InboxOK'
  BY <1>1, <1>9 DEF BeginSubmit, loopVars, taskVars
<1>10. CASE CloserMoves
  BY <1>1, <1>10 DEF CloserMoves, loopVars
<1>11. CASE UNCHANGED workerVars
  BY <1>1, <1>11 DEF workerVars
<1> QED
  BY <1>4, <1>5, <1>6, <1>7, <1>8, <1>9, <1>10, <1>11 DEF WorkerMoves
-----------------------------------------------------------------------------
(* Theorems.                                                                *)

\* The invariant of the worker.
LEMMA WorkerInvariant == Spec => [](TypeInv /\ InboxOK /\ ControlInv)
<1>1. Init => TypeInv /\ InboxOK /\ ControlInv
  BY TypesInit, ControlInit
<1>2. TypeInv /\ InboxOK /\ ControlInv /\ [Next]_vars => (TypeInv /\ InboxOK /\ ControlInv)'
  BY StepMoves, TypesNext, InboxNext, ControlNext
<1> QED
  BY <1>1, <1>2, PTL DEF Spec

\* _ensure_running and close, AsyncWorker: however submissions and a close race, at
\* most one event loop thread exists.
THEOREM OneLoop == Spec => []SingleLoop
<1>1. TypeInv /\ ControlInv => SingleLoop
  BY OneLives DEF ControlInv, SingleLoop
<1> QED
  BY <1>1, WorkerInvariant, PTL

\* The loop property: whoever finds _running set finds a loop in _loop that has
\* not been closed.
THEOREM RunningHasLoop == Spec => []RunningMeansLoop
<1>1. TypeInv /\ ControlInv => RunningMeansLoop
  BY RunningLives, WorkerAssumption DEF RunningMeansLoop
<1> QED
  BY <1>1, WorkerInvariant, PTL
-----------------------------------------------------------------------------
(* Waiting under the lock.                                                  *)

\* A step that moves no loop and lets nobody begin to wait, and takes Stop from no loop.
LEMMA WaitsQuiet ==
  ASSUME TypeInv, WaitsAreAnswered, UNCHANGED <<running, loopThread, lpc>>,
         \A l \in Loops : StopAsked(l) => StopAsked(l)',
         \A t \in Actors : pc'[t] = "wait" => pc[t] = "wait",
         pc'[Closer] = "join" => pc[Closer] = "join"
  PROVE  WaitsAreAnswered'
<1>1. loopThread \in Loops \cup {NoLoop}
  BY DEF TypeInv, WorkerTypeOK
<1> QED
  BY <1>1 DEF WaitsAreAnswered

\* The steps of submit: the one that begins to wait has just made the thread it waits for,
\* and cannot do so while close joins, which holds the lock.
LEMMA WaitsSubmit ==
  ASSUME TypeInv, ControlInv, WaitsAreAnswered, NEW t \in Actors, SubmitStep(t) \/ AcquireLock(t)
  PROVE  WaitsAreAnswered'
<1>0. /\ pc \in [Actors -> ActorPc] /\ lpc \in [Loops -> LoopPc]
      /\ inbox \in [Loops -> Seq(Coros \cup {Stop})]
      /\ Closer \in Actors
  BY DEF TypeInv, WorkerTypeOK, Actors
<1>1. ASSUME UNCHANGED <<running, loopThread, lpc, stopping, inbox>>,
             NEW p, p \notin {"wait", "join"}, pc' = [pc EXCEPT ![t] = p]
      PROVE  WaitsAreAnswered'
  <2>1. \A l \in Loops : StopAsked(l) => StopAsked(l)'
    BY <1>1 DEF StopAsked
  <2>2. /\ \A u \in Actors : pc'[u] = "wait" => pc[u] = "wait"
        /\ pc'[Closer] = "join" => pc[Closer] = "join"
    BY <1>0, <1>1
  <2> QED
    BY <1>1, <2>1, <2>2, WaitsQuiet
<1>2. CASE EnsureRunning(t) \/ AcquireLock(t) \/ AlreadyRunning(t) \/ StartFails(t)
           \/ LoopIsReady(t) \/ ReturnLoop(t)
  BY <1>1, <1>2 DEF EnsureRunning, AcquireLock, AlreadyRunning, StartFails, LoopIsReady, ReturnLoop,
                    Goto, attributes, loopVars
<1>3. CASE AssertLoop(t)
  BY <1>1, <1>3 DEF AssertLoop, Raise, Goto, attributes, loopVars
<1>4. CASE StartLoop(t)
  <2> DEFINE n == Fresh(Unused)
  <2>1. n \in Loops
    BY <1>4 DEF StartLoop, Fresh, Unused
  <2>2. lpc'[n] = "new" /\ pc[t] = "start" /\ pc' = [pc EXCEPT ![t] = "wait"]
    BY <1>0, <1>4, <2>1 DEF StartLoop, Goto
  <2>3. pc'[Closer] # "join"
    BY <1>0, <2>2 DEF ControlInv, LockOK, Locked
  <2> QED
    BY <2>1, <2>2, <2>3 DEF WaitsAreAnswered
<1>5. CASE Schedule(t)
  <2>1. UNCHANGED <<running, loopThread, lpc, stopping>> /\ pc[t] = "schedule"
    BY <1>5 DEF Schedule, attributes
  <2>2. /\ \A u \in Actors : pc'[u] = "wait" => pc[u] = "wait"
        /\ pc'[Closer] = "join" => pc[Closer] = "join"
    BY <1>0, <1>5, ScheduleCases DEF Raise, Goto, TypeInv, WorkerTypeOK
  <2>3. ASSUME NEW l \in Loops, StopAsked(l) PROVE StopAsked(l)'
    <3>1. CASE inbox' = inbox
      BY <2>1, <2>3, <3>1 DEF StopAsked
    <3>2. CASE inbox' = [inbox EXCEPT ![got[t]] = Append(@, job[t])] /\ got[t] \in Loops
      <4>1. job[t] \in Coros \cup {Stop}
        BY <2>1 DEF TypeInv, JobOK, Submitting
      <4>2. Range(Append(inbox[l], job[t])) = Range(inbox[l]) \cup {job[t]}
        BY <1>0, <4>1, RangeAppend
      <4> QED
        BY <1>0, <2>1, <2>3, <3>2, <4>2 DEF StopAsked
    <3> QED
      BY <1>0, <1>5, <3>1, <3>2, ScheduleCases DEF TypeInv, WorkerTypeOK
  <2> QED
    BY <2>1, <2>2, <2>3, WaitsQuiet
<1> QED
  BY <1>2, <1>3, <1>4, <1>5 DEF SubmitStep

\* The steps of close: whom it joins has just been told to stop.
LEMMA WaitsStop ==
  ASSUME TypeInv, ControlInv, WaitsAreAnswered, StopStep
  PROVE  WaitsAreAnswered'
<1>0. /\ pc \in [Actors -> ActorPc] /\ inbox \in [Loops -> Seq(Coros \cup {Stop})]
      /\ Closer \in Actors /\ NoLoop \notin Loops
  BY WorkerAssumption DEF TypeInv, WorkerTypeOK, Actors
<1>1. CASE BeginStop \/ AlreadyStopped
  <2>1. UNCHANGED <<running, loopThread, lpc, stopping, inbox>>
    BY <1>1 DEF BeginStop, AlreadyStopped, attributes, loopVars
  <2>2. PICK p \in {"stopLock", "closed"} : pc' = [pc EXCEPT ![Closer] = p]
    BY <1>1 DEF BeginStop, AlreadyStopped, Goto
  <2> QED
    BY <1>0, <2>1, <2>2, WaitsQuiet DEF StopAsked
<1>2. CASE SignalLoop
  <2>1. /\ running /\ pc' = [pc EXCEPT ![Closer] = "join"]
        /\ UNCHANGED <<running, loopRef, loopThread, lpc, stopping>>
    BY <1>2 DEF SignalLoop, Goto, attributes
  <2>2. loopRef \in Loops /\ lpc[loopRef] \in {"run", "stopped"} /\ loopThread = loopRef
    BY <2>1 DEF ControlInv, RunOK, AliveOK, Alive
  <2>3. Stop \in Range(inbox'[loopRef])
    <3>1. inbox'[loopRef] = Append(inbox[loopRef], Stop)
      BY <1>0, <1>2, <2>2 DEF SignalLoop
    <3>2. Range(Append(inbox[loopRef], Stop)) = Range(inbox[loopRef]) \cup {Stop}
      BY <1>0, <2>2, RangeAppend
    <3> QED
      BY <3>1, <3>2
  <2> QED
    BY <2>1, <2>2, <2>3 DEF WaitsAreAnswered, StopAsked
<1>3. CASE JoinLoop
  <2>1. loopThread' = NoLoop /\ pc' = [pc EXCEPT ![Closer] = "closed"] /\ UNCHANGED <<running, lpc>>
    BY <1>3 DEF JoinLoop, Goto, loopVars
  <2> QED
    BY <1>0, <2>1 DEF WaitsAreAnswered
<1> QED
  BY <1>1, <1>2, <1>3 DEF StopStep

\* The steps of the loop: it only clears _running for a close that joins it, and nobody waits
\* for _running then; the Stop it takes out of its inbox it remembers.
LEMMA WaitsLoop ==
  ASSUME TypeInv, InboxOK, ControlInv, WaitsAreAnswered, NEW l \in Loops, LoopStep(l)
  PROVE  WaitsAreAnswered'
<1>0. /\ lpc \in [Loops -> LoopPc] /\ inbox \in [Loops -> Seq(Coros \cup {Stop})]
      /\ Closer \in Actors /\ loopThread \in Loops \cup {NoLoop} /\ stopping \subseteq Loops
  BY DEF TypeInv, WorkerTypeOK, Actors
<1>1. UNCHANGED <<pc, loopThread>>
  BY DEF LoopStep, LoopBegins, SetRunning, RunCallback, LoopStops, ClearRunning, CancelAllTasks,
         Drained, LoopCloses, ForgetLoop, attributes, callerVars
<1>2. CASE LoopBegins(l)
  <2>1. lpc[l] = "new" /\ lpc'[l] = "set" /\ UNCHANGED <<running, stopping, inbox>>
        /\ \A k \in Loops : k # l => lpc'[k] = lpc[k]
    BY <1>0, <1>2 DEF LoopBegins, Move
  <2> QED
    BY <1>0, <1>1, <2>1 DEF WaitsAreAnswered, StopAsked
<1>3. CASE SetRunning(l)
  <2>1. lpc[l] = "set" /\ running' /\ UNCHANGED <<stopping, inbox>>
        /\ \A k \in Loops : k # l => lpc'[k] = lpc[k]
    BY <1>0, <1>3 DEF SetRunning, Move
  <2>2. \E t \in Actors : pc[t] = "wait"
    BY <2>1 DEF ControlInv, NewOK
  <2>3. pc[Closer] # "join"
    BY <1>0, <2>2 DEF ControlInv, LockOK, Locked
  <2> QED
    BY <1>1, <2>1, <2>3 DEF WaitsAreAnswered
<1>4. CASE RunCallback(l)
  <2>1. UNCHANGED <<running, lpc>>
    BY <1>4 DEF RunCallback, attributes
  <2>2. /\ inbox[l] # <<>> /\ inbox'[l] = Tail(inbox[l])
        /\ \A k \in Loops : k # l => inbox'[k] = inbox[k]
        /\ stopping \subseteq stopping' /\ (Head(inbox[l]) = Stop => l \in stopping')
    BY <1>0, <1>4 DEF RunCallback
  <2>3. Range(Tail(inbox[l])) = Range(inbox[l]) \ {Head(inbox[l])}
    BY <1>0, <2>2, TailOfInjective DEF InboxOK
  <2>4. \A k \in Loops : StopAsked(k) => StopAsked(k)'
    BY <2>2, <2>3 DEF StopAsked
  <2> QED
    BY <1>1, <2>1, <2>4, WaitsQuiet
<1>5. CASE LoopStops(l) \/ CancelAllTasks(l) \/ Drained(l) \/ LoopCloses(l) \/ ForgetLoop(l)
  <2>1. /\ lpc[l] \notin {"new", "set"} /\ lpc'[l] \in {"stopped", "drain", "wind", "closed", "ended"}
        /\ UNCHANGED <<running, stopping, inbox>>
        /\ \A k \in Loops : k # l => lpc'[k] = lpc[k]
    BY <1>0, <1>5 DEF LoopStops, CancelAllTasks, Drained, LoopCloses, ForgetLoop, Move, attributes
  <2> QED
    BY <1>0, <1>1, <2>1 DEF WaitsAreAnswered, StopAsked
<1>6. CASE ClearRunning(l)
  <2>1. /\ lpc[l] = "stopped" /\ lpc'[l] = "cleared" /\ UNCHANGED <<stopping, inbox>>
        /\ \A k \in Loops : k # l => lpc'[k] = lpc[k]
    BY <1>0, <1>6 DEF ClearRunning, Move
  <2>2. pc[Closer] = "join"
    BY <2>1 DEF ControlInv, StopOK
  <2>3. \A t \in Actors : pc[t] # "wait"
    BY <1>0, <2>2 DEF ControlInv, LockOK, Locked
  <2> QED
    BY <1>0, <1>1, <2>1, <2>3 DEF WaitsAreAnswered, StopAsked
<1> QED
  BY <1>2, <1>3, <1>4, <1>5, <1>6 DEF LoopStep

\* No step leaves anybody waiting for nothing.
LEMMA WaitsNext ==
  ASSUME TypeInv, InboxOK, ControlInv, WaitsAreAnswered, WorkerMoves
  PROVE  WaitsAreAnswered'
<1>0. pc \in [Actors -> ActorPc] /\ Closer \in Actors
  BY DEF TypeInv, WorkerTypeOK, Actors
<1>1. ASSUME UNCHANGED <<running, loopThread, lpc, stopping, inbox>>, NEW t \in Actors,
             NEW p \in {"ensure", "unset", "stopping", pc[t]}, pc' = [pc EXCEPT ![t] = p]
      PROVE  WaitsAreAnswered'
  BY <1>0, <1>1, WaitsQuiet DEF StopAsked
<1>2. ASSUME NEW t \in Actors, NEW c \in Coros, BeginSubmit(t, c) PROVE WaitsAreAnswered'
  BY <1>1, <1>2 DEF BeginSubmit, Goto, attributes, loopVars
<1>3. CASE CloserMoves
  BY <1>0, <1>1, <1>3 DEF CloserMoves, attributes, loopVars
<1>4. ASSUME UNCHANGED <<running, loopThread, lpc, stopping, inbox, pc>> PROVE WaitsAreAnswered'
  BY <1>4, WaitsQuiet DEF StopAsked
<1>5. ASSUME NEW c \in Coros, TaskMoves(c) PROVE WaitsAreAnswered'
  BY <1>4, <1>5 DEF TaskMoves, attributes, callerVars, loopVars
<1>6. CASE UNCHANGED workerVars
  BY <1>4, <1>6 DEF workerVars
<1> QED
  BY <1>2, <1>3, <1>5, <1>6, WaitsSubmit, WaitsStop, WaitsLoop DEF WorkerMoves

\* _ensure_running and close, AsyncWorker: whoever waits while he holds _lock waits for a thread
\* that is on its way to answer, for any number of threads and loops.
THEOREM LockHoldersAreAnswered == Spec => []WaitsAreAnswered
<1>1. Init => WaitsAreAnswered
  BY DEF Init, WorkerInit, WaitsAreAnswered, Actors
<1>2. /\ TypeInv /\ InboxOK /\ ControlInv /\ WaitsAreAnswered /\ [Next]_vars
      => WaitsAreAnswered'
  BY StepMoves, WaitsNext
<1> QED
  BY <1>1, <1>2, WorkerInvariant, PTL DEF Spec
-----------------------------------------------------------------------------
(* What the end of a loop loses.                                            *)

\* Behind Stop, and once the loop has taken it out, an inbox only holds coroutines that
\* were scheduled after it.
BehindStop(l) ==
  /\ \A i, j \in DOMAIN inbox[l] : i < j /\ inbox[l][i] = Stop => inbox[l][j] \in late
  /\ l \in stopping => Range(inbox[l]) \subseteq late

\* A loop stops because it was told to.
StoppedOK ==
  \A l \in Loops :
    lpc[l] \in {"stopped", "cleared", "drain", "wind", "closed", "ended"} => l \in stopping

\* A coroutine on its way is in the inbox of its loop.
QueuedOK == \A c \in Coros : cstate[c] = "queued" => c \in Range(inbox[home[c]])

\* The tasks that a loop had as it stopped get a CancelledError, and end before it closes.
TasksOK ==
  \A c \in Coros : cstate[c] = "task" /\ c \notin late =>
    /\ lpc[home[c]] = "drain" => c \in cancelled
    /\ lpc[home[c]] \notin {"wind", "closed", "ended"}

LossInv == (\A l \in Loops : BehindStop(l)) /\ StoppedOK /\ QueuedOK /\ TasksOK

\* What the lemmas below need of the types.
LossTypes ==
  /\ lpc \in [Loops -> LoopPc] /\ inbox \in [Loops -> Seq(Coros \cup {Stop})]
  /\ cstate \in [Coros -> CoroStates] /\ home \in [Coros -> Loops \cup {NoLoop}]
  /\ \A c \in Coros : cstate[c] \in {"queued", "task"} => home[c] \in Loops
  /\ got \in [Actors -> Loops \cup {NoLoop}]

\* A step that takes no coroutine into a loop or out of one.
LEMMA LossQuiet ==
  ASSUME TypeInv, LossInv, UNCHANGED <<inbox, stopping, home, late>>, cancelled \subseteq cancelled',
         \A c \in Coros : cstate'[c] \in {"queued", "task"} => cstate'[c] = cstate[c],
         \A l \in Loops : lpc'[l] \in {lpc[l], "new", "set", "run"}
  PROVE  LossInv'
<1>1. \A c \in Coros : cstate[c] \in {"queued", "task"} => home[c] \in Loops
  BY DEF TypeInv, WorkerTypeOK
<1>2. StoppedOK' /\ QueuedOK' /\ TasksOK'
  BY <1>1 DEF LossInv, StoppedOK, QueuedOK, TasksOK
<1> QED
  BY <1>2 DEF LossInv, BehindStop

\* A coroutine that joins an inbox behind Stop, or after it was taken out, is late.
LEMMA LossSchedule ==
  ASSUME TypeInv, LossInv, NEW t \in Actors, Schedule(t)
  PROVE  LossInv'
<1> DEFINE c == job[t]
<1>0. LossTypes /\ Stop \notin Coros /\ NoLoop \notin Loops
  BY WorkerAssumption DEF TypeInv, WorkerTypeOK, LossTypes
<1>1. /\ UNCHANGED <<lpc, stopping, cancelled>>
      /\ c \in Coros /\ cstate[c] = "unused"
  BY DEF Schedule, TypeInv, JobOK, Submitting
<1>2. CASE Raise(t) /\ UNCHANGED <<inbox, home, late>>
  BY <1>0, <1>1, <1>2, LossQuiet DEF Raise, LossTypes
<1>3. ASSUME NEW l \in Loops, inbox' = [inbox EXCEPT ![l] = Append(@, c)],
             cstate' = [cstate EXCEPT ![c] = "queued"], home' = [home EXCEPT ![c] = l],
             late' = IF StopAsked(l) THEN late \cup {c} ELSE late
      PROVE  LossInv'
  <2>1. /\ inbox[l] \in Seq(Coros \cup {Stop}) /\ inbox'[l] = Append(inbox[l], c)
        /\ \A k \in Loops : k # l => inbox'[k] = inbox[k]
    BY <1>0, <1>3 DEF LossTypes
  <2>2. Range(inbox'[l]) = Range(inbox[l]) \cup {c}
    BY <1>1, <2>1, RangeAppend
  <2>3. BehindStop(l)'
    <3>1. /\ DOMAIN inbox[l] = 1..Len(inbox[l]) /\ Len(inbox[l]) \in Nat
          /\ DOMAIN inbox'[l] = 1..(Len(inbox[l]) + 1)
          /\ \A i \in DOMAIN inbox'[l] :
               inbox'[l][i] = IF i <= Len(inbox[l]) THEN inbox[l][i] ELSE c
      BY <1>1, <2>1
    <3>2. ASSUME NEW i \in DOMAIN inbox'[l], NEW j \in DOMAIN inbox'[l], i < j, inbox'[l][i] = Stop
          PROVE  inbox'[l][j] \in late'
      <4>1. i \in DOMAIN inbox[l] /\ inbox[l][i] = Stop
        BY <3>1, <3>2
      <4>2. StopAsked(l)
        BY <4>1 DEF StopAsked, Range
      <4>3. j \in DOMAIN inbox[l] => inbox[l][j] \in late
        BY <1>3, <3>2, <4>1 DEF LossInv, BehindStop
      <4> QED
        BY <1>3, <3>1, <4>2, <4>3
    <3>3. l \in stopping => Range(inbox'[l]) \subseteq late'
      BY <1>3, <2>2 DEF LossInv, BehindStop, StopAsked
    <3> QED
      BY <1>1, <3>2, <3>3 DEF BehindStop
  <2>4. \A k \in Loops : k # l => BehindStop(k)'
    BY <1>1, <1>3, <2>1 DEF LossInv, BehindStop
  <2>5. QueuedOK'
    <3> SUFFICES ASSUME NEW d \in Coros, cstate'[d] = "queued" PROVE d \in Range(inbox'[home'[d]])
      BY DEF QueuedOK
    <3>1. CASE d = c
      BY <1>0, <1>1, <1>3, <2>2, <3>1 DEF LossTypes
    <3>2. CASE d # c
      <4>1. cstate[d] = "queued" /\ home'[d] = home[d] /\ home[d] \in Loops
        BY <1>0, <1>3, <3>2 DEF LossTypes
      <4> QED
        BY <2>1, <2>2, <4>1 DEF LossInv, QueuedOK
    <3> QED
      BY <3>1, <3>2
  <2>6. TasksOK'
    <3> SUFFICES ASSUME NEW d \in Coros, cstate'[d] = "task", d \notin late'
                 PROVE  /\ lpc[home'[d]] = "drain" => d \in cancelled
                        /\ lpc[home'[d]] \notin {"wind", "closed", "ended"}
      BY <1>1 DEF TasksOK
    <3>1. d # c /\ cstate[d] = "task" /\ home'[d] = home[d] /\ d \notin late
      BY <1>0, <1>1, <1>3 DEF LossTypes
    <3> QED
      BY <3>1 DEF LossInv, TasksOK
  <2>7. StoppedOK'
    BY <1>1 DEF LossInv, StoppedOK
  <2> QED
    BY <2>3, <2>4, <2>5, <2>6, <2>7 DEF LossInv
<1> QED
  BY <1>0, <1>2, <1>3 DEF Schedule, LossTypes

\* Stop joins an inbox once, at its end.
LEMMA LossSignal ==
  ASSUME TypeInv, ControlInv, LossInv, SignalLoop
  PROVE  LossInv'
<1>0. LossTypes /\ Stop \notin Coros /\ NoLoop \notin Loops
  BY WorkerAssumption DEF TypeInv, WorkerTypeOK, LossTypes
<1>1. PICK l \in Loops : l = loopRef /\ Alive(l) /\ pc[Closer] # "join"
  BY RunningLives DEF SignalLoop
<1>2. ~StopAsked(l)
  BY <1>1 DEF ControlInv, StopOK
<1>3. /\ UNCHANGED <<lpc, stopping, cstate, home, cancelled, late>>
      /\ inbox' = [inbox EXCEPT ![l] = Append(@, Stop)]
  BY <1>0, <1>1 DEF SignalLoop, taskVars
<1>4. /\ inbox[l] \in Seq(Coros \cup {Stop}) /\ inbox'[l] = Append(inbox[l], Stop)
      /\ \A k \in Loops : k # l => inbox'[k] = inbox[k]
  BY <1>0, <1>1, <1>3 DEF LossTypes
<1>5. BehindStop(l)'
  <2>1. /\ DOMAIN inbox[l] = 1..Len(inbox[l]) /\ Len(inbox[l]) \in Nat
        /\ DOMAIN inbox'[l] = 1..(Len(inbox[l]) + 1)
        /\ \A i \in 1..Len(inbox[l]) : inbox'[l][i] = inbox[l][i]
    BY <1>4
  <2>2. \A i \in DOMAIN inbox[l] : inbox[l][i] # Stop
    BY <1>2 DEF StopAsked, Range
  <2>3. ASSUME NEW i \in DOMAIN inbox'[l], NEW j \in DOMAIN inbox'[l], i < j PROVE inbox'[l][i] # Stop
    <3>1. i \in 1..Len(inbox[l])
      BY <2>1, <2>3
    <3> QED
      BY <2>1, <2>2, <3>1
  <2> QED
    BY <1>2, <1>3, <2>3 DEF BehindStop, StopAsked
<1>6. \A k \in Loops : k # l => BehindStop(k)'
  BY <1>3, <1>4 DEF LossInv, BehindStop
<1>7. QueuedOK'
  <2>1. Range(inbox'[l]) = Range(inbox[l]) \cup {Stop}
    BY <1>4, RangeAppend
  <2>2. \A k \in Loops : Range(inbox[k]) \subseteq Range(inbox'[k])
    BY <1>4, <2>1
  <2>3. \A c \in Coros : cstate[c] = "queued" => home[c] \in Loops
    BY <1>0 DEF LossTypes
  <2> QED
    BY <1>3, <2>2, <2>3 DEF LossInv, QueuedOK
<1>8. StoppedOK' /\ TasksOK'
  BY <1>3 DEF LossInv, StoppedOK, TasksOK
<1> QED
  BY <1>5, <1>6, <1>7, <1>8 DEF LossInv

\* What a loop takes from its inbox when it has stopped is late; what it has taken before is a
\* task that is there to be cancelled.
LEMMA LossCallback ==
  ASSUME TypeInv, InboxOK, LossInv, NEW l \in Loops, RunCallback(l)
  PROVE  LossInv'
<1> DEFINE s == inbox[l]
<1>0. LossTypes /\ Stop \notin Coros
  BY WorkerAssumption DEF TypeInv, WorkerTypeOK, LossTypes
<1>1. /\ lpc[l] \in {"run", "drain", "wind"} /\ s # <<>> /\ s \in Seq(Coros \cup {Stop})
      /\ UNCHANGED <<lpc, home, cancelled, late>>
      /\ inbox'[l] = Tail(s) /\ \A k \in Loops : k # l => inbox'[k] = inbox[k]
  BY <1>0 DEF RunCallback, Runs, LossTypes
<1>2. \/ Head(s) = Stop /\ stopping' = stopping \cup {l} /\ cstate' = cstate
      \/ /\ Head(s) # Stop /\ stopping' = stopping
         /\ cstate' = [cstate EXCEPT ![Head(s)] = "task"]
  BY DEF RunCallback
<1>3. Head(s) \in Range(s) /\ Range(Tail(s)) = Range(s) \ {Head(s)}
  BY <1>1, TailOfInjective DEF InboxOK
<1>4. /\ Head(s) = s[1] /\ 1 \in DOMAIN s /\ DOMAIN Tail(s) = 1..(Len(s) - 1)
      /\ \A i \in DOMAIN Tail(s) : Tail(s)[i] = s[i + 1] /\ i + 1 \in DOMAIN s /\ 1 < i + 1
  BY <1>1
<1>5. BehindStop(l)'
  <2>1. ASSUME NEW i \in DOMAIN Tail(s), NEW j \in DOMAIN Tail(s), i < j, Tail(s)[i] = Stop
        PROVE  Tail(s)[j] \in late
    <3>1. i + 1 < j + 1
      BY <1>4, <2>1
    <3> QED
      BY <1>4, <2>1, <3>1 DEF LossInv, BehindStop
  <2>2. CASE Head(s) = Stop
    <3>1. \A j \in DOMAIN Tail(s) : Tail(s)[j] \in late
      BY <1>4, <2>2 DEF LossInv, BehindStop
    <3>2. Range(Tail(s)) \subseteq late
      BY <3>1 DEF Range
    <3> QED
      BY <1>1, <2>1, <3>2 DEF BehindStop
  <2>3. CASE Head(s) # Stop
    <3>1. l \in stopping' => Range(Tail(s)) \subseteq late
      BY <1>2, <1>3, <2>3 DEF LossInv, BehindStop
    <3> QED
      BY <1>1, <2>1, <3>1 DEF BehindStop
  <2> QED
    BY <2>2, <2>3
<1>6. \A k \in Loops : k # l => BehindStop(k)'
  BY <1>1, <1>2 DEF LossInv, BehindStop
<1>7. StoppedOK'
  BY <1>1, <1>2 DEF LossInv, StoppedOK
<1>8. ASSUME Head(s) # Stop
      PROVE  /\ Head(s) \in Coros /\ cstate[Head(s)] = "queued" /\ home[Head(s)] = l
             /\ cstate'[Head(s)] = "task" /\ \A d \in Coros : d # Head(s) => cstate'[d] = cstate[d]
  <2>1. Head(s) \in Coros
    BY <1>1, <1>8
  <2> QED
    BY <1>0, <1>2, <1>3, <1>8, <2>1 DEF InboxOK, LossTypes
<1>9. QueuedOK'
  <2> SUFFICES ASSUME NEW d \in Coros, cstate'[d] = "queued" PROVE d \in Range(inbox'[home[d]])
    BY <1>1 DEF QueuedOK
  <2>1. d # Head(s) /\ cstate[d] = "queued"
    BY <1>0, <1>2, <1>8
  <2>2. home[d] \in Loops /\ d \in Range(inbox[home[d]])
    BY <1>0, <2>1 DEF LossInv, QueuedOK, LossTypes
  <2> QED
    BY <1>1, <1>3, <2>1, <2>2
<1>10. TasksOK'
  <2> SUFFICES ASSUME NEW d \in Coros, cstate'[d] = "task", d \notin late
               PROVE  /\ lpc[home[d]] = "drain" => d \in cancelled
                      /\ lpc[home[d]] \notin {"wind", "closed", "ended"}
    BY <1>1 DEF TasksOK
  <2>1. CASE cstate[d] = "task"
    BY <2>1 DEF LossInv, TasksOK
  <2>2. CASE cstate[d] # "task"
    <3>1. Head(s) # Stop /\ d = Head(s) /\ home[d] = l
      BY <1>2, <1>8, <2>2
    <3>2. l \notin stopping
      BY <1>3, <3>1 DEF LossInv, BehindStop
    <3> QED
      BY <1>1, <3>1, <3>2 DEF LossInv, StoppedOK
  <2> QED
    BY <2>1, <2>2
<1> QED
  BY <1>5, <1>6, <1>7, <1>9, <1>10 DEF LossInv

\* The end of a loop: it cancels its tasks, and closes once they have ended.
LEMMA LossEnd ==
  ASSUME TypeInv, ControlInv, LossInv, NEW l \in Loops,
         \/ LoopStops(l) \/ ClearRunning(l) \/ CancelAllTasks(l) \/ Drained(l) \/ LoopCloses(l)
         \/ ForgetLoop(l)
  PROVE  LossInv'
<1>0. LossTypes
  BY DEF TypeInv, WorkerTypeOK, LossTypes
<1>1. UNCHANGED <<stopping, inbox, cstate, home, late>> /\ cancelled \subseteq cancelled'
  BY DEF LoopStops, ClearRunning, CancelAllTasks, Drained, LoopCloses, ForgetLoop, taskVars
<1>2. \A k \in Loops : k # l => lpc'[k] = lpc[k]
  BY <1>0 DEF LoopStops, ClearRunning, CancelAllTasks, Drained, LoopCloses, ForgetLoop, Move, LossTypes
<1>3. StoppedOK'
  <2>1. l \in stopping
    BY DEF LoopStops, ClearRunning, CancelAllTasks, Drained, LoopCloses, ForgetLoop, LossInv, StoppedOK
  <2> QED
    BY <1>1, <1>2, <2>1 DEF LossInv, StoppedOK
<1>4. TasksOK'
  <2> SUFFICES ASSUME NEW c \in Coros, cstate[c] = "task", c \notin late
               PROVE  /\ lpc'[home[c]] = "drain" => c \in cancelled'
                      /\ lpc'[home[c]] \notin {"wind", "closed", "ended"}
    BY <1>1 DEF TasksOK
  <2>1. home[c] \in Loops
    BY <1>0 DEF LossTypes
  <2>2. /\ lpc[home[c]] = "drain" => c \in cancelled
        /\ lpc[home[c]] \notin {"wind", "closed", "ended"}
    BY DEF LossInv, TasksOK
  <2>3. CASE home[c] # l
    BY <1>1, <1>2, <2>1, <2>2, <2>3
  <2>4. CASE home[c] = l /\ (LoopStops(l) \/ ClearRunning(l))
    BY <1>0, <2>4 DEF LoopStops, ClearRunning, Move, LossTypes
  <2>5. CASE home[c] = l /\ CancelAllTasks(l)
    <3>1. loopRef = l /\ lpc'[l] = "drain"
      BY <1>0, <2>5 DEF CancelAllTasks, Move, ControlInv, RefOK, Alive, LossTypes
    <3> QED
      BY <2>5, <3>1 DEF CancelAllTasks, TasksOf
  <2>6. CASE home[c] = l /\ Drained(l)
    <3>1. c \in TasksOf(l) /\ c \in cancelled
      BY <2>2, <2>6 DEF Drained, TasksOf
    <3> QED
      BY <2>6, <3>1 DEF Drained
  <2>7. CASE home[c] = l /\ (LoopCloses(l) \/ ForgetLoop(l))
    BY <2>2, <2>7 DEF LoopCloses, ForgetLoop
  <2> QED
    BY <2>3, <2>4, <2>5, <2>6, <2>7
<1> QED
  BY <1>1, <1>3, <1>4 DEF LossInv, BehindStop, QueuedOK

\* Every step keeps account of the coroutines of a loop.
LEMMA LossNext ==
  ASSUME TypeInv, InboxOK, ControlInv, LossInv, WorkerMoves
  PROVE  LossInv'
<1>0. LossTypes
  BY DEF TypeInv, WorkerTypeOK, LossTypes
<1>1. ASSUME UNCHANGED <<lpc, inbox, stopping, cstate, home, late>>, cancelled \subseteq cancelled'
      PROVE  LossInv'
  BY <1>1, LossQuiet
<1>2. ASSUME NEW t \in Actors, SubmitStep(t) \/ AcquireLock(t), ~Schedule(t) PROVE LossInv'
  <2>1. CASE StartLoop(t)
    BY <1>0, <2>1, LossQuiet DEF StartLoop, taskVars, LossTypes
  <2>2. CASE AssertLoop(t)
    <3>1. UNCHANGED <<lpc, inbox, stopping, home, cancelled, late>>
      BY <2>2 DEF AssertLoop, loopVars
    <3>2. cstate' = cstate \/ cstate' = [cstate EXCEPT ![job[t]] = "error"]
      BY <2>2 DEF AssertLoop, Raise
    <3> QED
      BY <1>0, <3>1, <3>2, LossQuiet DEF LossTypes
  <2> QED
    BY <1>1, <1>2, <2>1, <2>2 DEF SubmitStep, EnsureRunning, AcquireLock, AlreadyRunning, StartFails,
                                  LoopIsReady, ReturnLoop, loopVars, taskVars
<1>3. CASE StopStep
  BY <1>1, <1>3, LossSignal DEF StopStep, BeginStop, AlreadyStopped, JoinLoop, loopVars, taskVars
<1>4. ASSUME NEW l \in Loops, LoopStep(l) PROVE LossInv'
  <2>1. CASE LoopBegins(l) \/ SetRunning(l)
    BY <1>0, <2>1, LossQuiet DEF LoopBegins, SetRunning, Move, taskVars, LossTypes
  <2> QED
    BY <1>4, <2>1, LossCallback, LossEnd DEF LoopStep
<1>5. ASSUME NEW c \in Coros, TaskMoves(c) PROVE LossInv'
  <2>1. UNCHANGED <<lpc, inbox, stopping, home, late>>
    BY <1>5 DEF TaskMoves, loopVars
  <2>2. CASE UNCHANGED <<cstate, cancelled>>
    BY <1>1, <2>1, <2>2
  <2>3. ASSUME NEW r \in Settled, cstate' = [cstate EXCEPT ![c] = r], cancelled \ {c} \subseteq cancelled'
        PROVE  LossInv'
    <3>1. /\ \A d \in Coros : d # c => cstate'[d] = cstate[d]
          /\ cstate'[c] \notin {"queued", "task"}
      BY <1>0, <2>3 DEF Settled, LossTypes
    <3>2. QueuedOK' /\ TasksOK'
      BY <2>1, <2>3, <3>1 DEF LossInv, QueuedOK, TasksOK
    <3> QED
      BY <2>1, <3>2 DEF LossInv, StoppedOK, BehindStop
  <2> QED
    BY <1>5, <2>2, <2>3 DEF TaskMoves
<1>6. ASSUME NEW t \in Actors, NEW c \in Coros, BeginSubmit(t, c) PROVE LossInv'
  BY <1>1, <1>6 DEF BeginSubmit, loopVars, taskVars
<1>7. CASE CloserMoves
  BY <1>1, <1>7 DEF CloserMoves, loopVars
<1>8. CASE UNCHANGED workerVars
  BY <1>1, <1>8 DEF workerVars
<1> QED
  BY <1>2, <1>3, <1>4, <1>5, <1>6, <1>7, <1>8, LossSchedule DEF WorkerMoves

\* _run and _cancel_all_tasks: when a loop has ended, every coroutine that was scheduled on it
\* before the stop has a result, an exception or a cancellation; only later ones are lost.
THEOREM NothingInTimeIsLost == Spec => []OnlyLateAreStranded
<1>1. Init => LossInv
  <2>1. Init => \A l \in Loops : inbox[l] = <<>> /\ Range(inbox[l]) = {} /\ DOMAIN inbox[l] = {}
    BY DEF Init, WorkerInit, Range
  <2> QED
    BY <2>1 DEF Init, WorkerInit, LossInv, BehindStop, StoppedOK, QueuedOK, TasksOK
<1>2. TypeInv /\ InboxOK /\ ControlInv /\ LossInv /\ [Next]_vars => LossInv'
  BY StepMoves, LossNext
<1>3. TypeInv /\ LossInv => OnlyLateAreStranded
  <2> SUFFICES ASSUME TypeInv, LossInv, NEW c \in Coros, Stranded(c) PROVE c \in late
    BY DEF OnlyLateAreStranded
  <2>1. home[c] \in Loops
    BY DEF TypeInv, WorkerTypeOK, Stranded
  <2> QED
    BY <2>1 DEF LossInv, BehindStop, StoppedOK, QueuedOK, TasksOK, Stranded
<1> QED
  BY <1>1, <1>2, <1>3, WorkerInvariant, PTL DEF Spec
-----------------------------------------------------------------------------
(* Tokens.                                                                  *)

AuthTypeOK ==
  /\ uses \in [Coros -> Clients \cup {NoClient}]
  /\ stage \in [Coros -> {"new", "token", "auth", "sent"}]
  /\ token \in [Clients -> {"expired", "valid"}]
  /\ tokenLock \in [Clients -> Coros \cup {NoCoro}]
  /\ expiries \in [Clients -> Nat]
  /\ refreshes \in [Clients -> Nat]

\* A request that has not run has not started; one that has started has a client.
StageOK ==
  \A c \in Coros :
    /\ cstate[c] \in {"unused", "queued"} => stage[c] = "new"
    /\ stage[c] # "new" => uses[c] \in Clients

\* The request that refreshes a token holds its lock, and the token is still expired.
HolderOK ==
  \A c \in Coros :
    stage[c] = "auth" /\ cstate[c] = "task"
      => tokenLock[uses[c]] = c /\ token[uses[c]] = "expired"

\* A token is valid exactly when it was refreshed once more than it has expired.
CountOK ==
  \A h \in Clients : refreshes[h] = expiries[h] + (IF token[h] = "valid" THEN 1 ELSE 0)

AuthInv == AuthTypeOK /\ StageOK /\ HolderOK /\ CountOK

\* The life of a coroutine goes one way.
LEMMA CoroMoves ==
  ASSUME TypeInv, InboxOK, WorkerMoves, NEW c \in Coros
  PROVE  \/ cstate'[c] = cstate[c]
         \/ cstate[c] = "unused" /\ cstate'[c] \in {"queued", "error"}
         \/ cstate[c] = "queued" /\ cstate'[c] = "task"
         \/ cstate[c] = "task" /\ cstate'[c] \in Settled
<1>0. /\ cstate \in [Coros -> CoroStates] /\ got \in [Actors -> Loops \cup {NoLoop}]
      /\ inbox \in [Loops -> Seq(Coros \cup {Stop})]
  BY DEF TypeInv, WorkerTypeOK
<1>1. ASSUME NEW t \in Actors, pc[t] \in Submitting, NEW r \in {"queued", "error"},
             cstate' = [cstate EXCEPT ![job[t]] = r]
      PROVE  cstate'[c] = cstate[c] \/ (cstate[c] = "unused" /\ cstate'[c] \in {"queued", "error"})
  <2>1. job[t] \in Coros /\ cstate[job[t]] = "unused"
    BY <1>1 DEF TypeInv, JobOK
  <2> QED
    BY <1>0, <1>1, <2>1
<1>2. ASSUME NEW t \in Actors, SubmitStep(t) \/ AcquireLock(t)
      PROVE  cstate'[c] = cstate[c] \/ (cstate[c] = "unused" /\ cstate'[c] \in {"queued", "error"})
  <2>1. CASE Schedule(t)
    <3>1. pc[t] \in Submitting
      BY <2>1 DEF Schedule, Submitting
    <3>2. \E r \in {"queued", "error"} : cstate' = [cstate EXCEPT ![job[t]] = r]
      BY <1>0, <2>1, ScheduleCases DEF Raise
    <3> QED
      BY <1>1, <3>1, <3>2
  <2>2. CASE AssertLoop(t)
    <3>1. pc[t] \in Submitting
      BY <2>2 DEF AssertLoop, Submitting
    <3>2. cstate' = cstate \/ cstate' = [cstate EXCEPT ![job[t]] = "error"]
      BY <2>2 DEF AssertLoop, Raise
    <3> QED
      BY <1>1, <3>1, <3>2
  <2>3. CASE EnsureRunning(t) \/ AcquireLock(t) \/ AlreadyRunning(t) \/ StartLoop(t)
             \/ StartFails(t) \/ LoopIsReady(t) \/ ReturnLoop(t)
    BY <2>3 DEF EnsureRunning, AcquireLock, AlreadyRunning, StartLoop, StartFails, LoopIsReady,
                ReturnLoop, taskVars
  <2> QED
    BY <1>2, <2>1, <2>2, <2>3 DEF SubmitStep
<1>3. CASE StopStep
  BY <1>3 DEF StopStep, BeginStop, AlreadyStopped, SignalLoop, JoinLoop, taskVars
<1>4. ASSUME NEW l \in Loops, RunCallback(l)
      PROVE  cstate'[c] = cstate[c] \/ (cstate[c] = "queued" /\ cstate'[c] = "task")
  <2>1. Head(inbox[l]) \in Range(inbox[l])
    BY <1>0, <1>4, HeadAndTail DEF RunCallback
  <2>2. CASE Head(inbox[l]) = Stop
    BY <1>4, <2>2 DEF RunCallback
  <2>3. CASE Head(inbox[l]) # Stop
    <3>1. cstate[Head(inbox[l])] = "queued" /\ cstate' = [cstate EXCEPT ![Head(inbox[l])] = "task"]
      BY <1>4, <2>1, <2>3 DEF RunCallback, InboxOK
    <3> QED
      BY <1>0, <3>1
  <2> QED
    BY <2>2, <2>3
<1>5. ASSUME NEW l \in Loops, LoopStep(l), ~RunCallback(l) PROVE cstate' = cstate
  BY <1>5 DEF LoopStep, LoopBegins, SetRunning, LoopStops, ClearRunning, CancelAllTasks, Drained,
              LoopCloses, ForgetLoop, taskVars
<1>6. ASSUME NEW d \in Coros, TaskMoves(d)
      PROVE  cstate'[c] = cstate[c] \/ (cstate[c] = "task" /\ cstate'[c] \in Settled)
  BY <1>0, <1>6 DEF TaskMoves
<1>7. ASSUME NEW t \in Actors, NEW d \in Coros, BeginSubmit(t, d) PROVE cstate' = cstate
  BY <1>7 DEF BeginSubmit, taskVars
<1>8. CASE CloserMoves
  BY <1>8 DEF CloserMoves
<1>9. CASE UNCHANGED workerVars
  BY <1>9 DEF workerVars
<1> QED
  BY <1>2, <1>3, <1>4, <1>5, <1>6, <1>7, <1>8, <1>9 DEF WorkerMoves

\* No token has been refreshed at the start.
LEMMA AuthInit == Init => AuthInv
  BY ClientAssumption
     DEF Init, WorkerInit, AuthInv, AuthTypeOK, StageOK, HolderOK, CountOK

\* Every step preserves what holds of the tokens.
LEMMA AuthNext ==
  ASSUME TypeInv, InboxOK, AuthInv, [Next]_vars
  PROVE  AuthInv'
<1>0. /\ AuthTypeOK /\ cstate \in [Coros -> CoroStates] /\ NoCoro \notin Coros
      /\ NoClient \notin Clients
  BY WorkerAssumption, ClientAssumption DEF TypeInv, WorkerTypeOK, AuthInv
<1>1. \A c \in Coros :
        /\ cstate'[c] \in {"unused", "queued"} => cstate[c] \in {"unused", "queued"}
        /\ cstate'[c] = "task" => cstate[c] \in {"queued", "task"}
  BY StepMoves, CoroMoves DEF Settled
<1>2. ASSUME UNCHANGED <<authVars, requestVars>> PROVE AuthInv'
  <2>1. HolderOK'
    BY <1>1, <1>2 DEF AuthInv, HolderOK, StageOK, authVars, requestVars
  <2>2. StageOK'
    BY <1>1, <1>2 DEF AuthInv, StageOK, requestVars
  <2> QED
    BY <1>2, <2>1, <2>2 DEF AuthInv, AuthTypeOK, CountOK, authVars, requestVars
<1>3. ASSUME NEW c \in Coros, StartRequest(c) PROVE AuthInv'
  <2>1. /\ UNCHANGED authVars /\ stage[c] = "new" /\ cstate[c] = "task"
        /\ \/ UNCHANGED requestVars
           \/ \E h \in Clients : /\ uses' = [uses EXCEPT ![c] = h]
                                 /\ stage' = [stage EXCEPT ![c] = "token"]
                                 /\ cstate' = cstate
    BY <1>3 DEF StartRequest, requestVars, GoesOn, Ends, Steps
  <2>2. CASE UNCHANGED requestVars
    BY <1>2, <2>1, <2>2
  <2>3. ASSUME NEW h \in Clients, uses' = [uses EXCEPT ![c] = h],
               stage' = [stage EXCEPT ![c] = "token"], cstate' = cstate
        PROVE  AuthInv'
    <3>1. AuthTypeOK'
      BY <1>0, <2>1, <2>3 DEF AuthTypeOK, authVars
    <3>2. \A d \in Coros : d # c => stage'[d] = stage[d] /\ uses'[d] = uses[d]
      BY <1>0, <2>3 DEF AuthTypeOK
    <3>3. stage'[c] = "token" /\ uses'[c] = h
      BY <1>0, <2>3 DEF AuthTypeOK
    <3>4. StageOK' /\ HolderOK'
      BY <2>1, <2>3, <3>2, <3>3 DEF AuthInv, StageOK, HolderOK, authVars
    <3> QED
      BY <2>1, <3>1, <3>4 DEF AuthInv, CountOK, authVars
  <2> QED
    BY <2>1, <2>2, <2>3
<1>4. ASSUME NEW c \in Coros, TakeToken(c) PROVE AuthInv'
  <2> DEFINE h == uses[c]
  <2>1. /\ stage[c] = "token" /\ cstate[c] = "task" /\ cstate' = cstate /\ tokenLock[h] = NoCoro
        /\ UNCHANGED <<token, expiries, refreshes, uses>>
        /\ \/ stage' = [stage EXCEPT ![c] = "sent"] /\ UNCHANGED tokenLock
           \/ /\ token[h] # "valid"
              /\ tokenLock' = [tokenLock EXCEPT ![h] = c]
              /\ stage' = [stage EXCEPT ![c] = "auth"]
    BY <1>4 DEF TakeToken, GoesOn, Steps
  <2>2. h \in Clients
    BY <2>1 DEF AuthInv, StageOK
  <2>3. /\ \A d \in Coros : d # c => stage'[d] = stage[d]
        /\ \A k \in Clients : k # h => tokenLock'[k] = tokenLock[k]
        /\ stage'[c] = "auth" => tokenLock'[h] = c /\ token[h] = "expired"
        /\ stage'[c] \in {"sent", "auth"}
    BY <1>0, <2>1, <2>2 DEF AuthTypeOK
  <2>4. AuthTypeOK'
    BY <1>0, <2>1, <2>2 DEF AuthTypeOK
  <2>5. StageOK'
    BY <2>1, <2>2, <2>3 DEF AuthInv, StageOK
  <2>6. HolderOK'
    BY <1>0, <2>1, <2>2, <2>3 DEF AuthInv, StageOK, HolderOK
  <2> QED
    BY <2>1, <2>4, <2>5, <2>6 DEF AuthInv, CountOK
<1>5. ASSUME NEW c \in Coros, Refreshed(c) PROVE AuthInv'
  <2> DEFINE h == uses[c]
  <2>1. /\ stage[c] = "auth" /\ cstate[c] = "task" /\ cstate' = cstate
        /\ token' = [token EXCEPT ![h] = "valid"]
        /\ refreshes' = [refreshes EXCEPT ![h] = @ + 1]
        /\ tokenLock' = [tokenLock EXCEPT ![h] = NoCoro]
        /\ stage' = [stage EXCEPT ![c] = "sent"]
        /\ UNCHANGED <<expiries, uses>>
    BY <1>5 DEF Refreshed, GoesOn, Steps
  <2>2. h \in Clients /\ tokenLock[h] = c /\ token[h] = "expired" /\ refreshes[h] = expiries[h] + 0
    BY <2>1 DEF AuthInv, StageOK, HolderOK, CountOK
  <2>3. /\ \A d \in Coros : d # c => stage'[d] = stage[d]
        /\ \A k \in Clients : k # h => /\ tokenLock'[k] = tokenLock[k]
                                       /\ token'[k] = token[k]
                                       /\ refreshes'[k] = refreshes[k]
        /\ stage'[c] = "sent" /\ token'[h] = "valid" /\ refreshes'[h] = refreshes[h] + 1
    BY <1>0, <2>1, <2>2 DEF AuthTypeOK
  <2>4. AuthTypeOK'
    BY <1>0, <2>1, <2>2 DEF AuthTypeOK
  <2>5. StageOK'
    BY <2>1, <2>2, <2>3 DEF AuthInv, StageOK
  <2>6. HolderOK'
    BY <1>0, <2>1, <2>2, <2>3 DEF AuthInv, StageOK, HolderOK
  <2>7. CountOK'
    <3>1. expiries[h] \in Nat
      BY <1>0, <2>2 DEF AuthTypeOK
    <3> QED
      BY <2>1, <2>2, <2>3, <3>1 DEF AuthInv, CountOK
  <2> QED
    BY <2>4, <2>5, <2>6, <2>7 DEF AuthInv
<1>6. ASSUME NEW c \in Coros, cstate[c] = "task", Release(c),
             NEW r \in Settled, cstate' = [cstate EXCEPT ![c] = r],
             UNCHANGED <<token, expiries, refreshes, requestVars>>
      PROVE  AuthInv'
  <2>1. AuthTypeOK'
    BY <1>0, <1>6 DEF AuthTypeOK, Release, requestVars
  <2>2. StageOK'
    BY <1>1, <1>6 DEF AuthInv, StageOK, requestVars
  <2>3. HolderOK'
    <3>1. cstate'[c] # "task"
      BY <1>0, <1>6 DEF Settled
    <3>2. \A d \in Coros : d # c => cstate'[d] = cstate[d]
      BY <1>0, <1>6
    <3>3. \A h \in Clients : tokenLock[h] # c => tokenLock'[h] = tokenLock[h]
      BY <1>6 DEF Release
    <3> QED
      BY <1>6, <3>1, <3>2, <3>3 DEF AuthInv, StageOK, HolderOK, requestVars
  <2> QED
    BY <1>6, <2>1, <2>2, <2>3 DEF AuthInv, CountOK
<1>7. ASSUME NEW c \in Coros, RequestFails(c) PROVE AuthInv'
  BY <1>6, <1>7 DEF RequestFails, Ends, Steps, Settled
<1>8. ASSUME NEW c \in Coros, Cancelled(c) PROVE AuthInv'
  BY <1>6, <1>8 DEF Cancelled, EndsCancelled, Steps, Settled
<1>9. ASSUME NEW c \in Coros, WrongLoop(c) \/ Answered(c) \/ ClosesClient PROVE AuthInv'
  BY <1>2, <1>9 DEF WrongLoop, Answered, ClosesClient
<1>10. ASSUME NEW h \in Clients, Expire(h) PROVE AuthInv'
  <2>1. /\ token[h] = "valid" /\ token' = [token EXCEPT ![h] = "expired"]
        /\ expiries' = [expiries EXCEPT ![h] = @ + 1]
        /\ UNCHANGED <<cstate, tokenLock, refreshes, requestVars>>
    BY <1>10 DEF Expire, workerVars
  <2>2. /\ \A k \in Clients : k # h => token'[k] = token[k] /\ expiries'[k] = expiries[k]
        /\ token'[h] = "expired" /\ expiries'[h] = expiries[h] + 1 /\ expiries[h] \in Nat
    BY <1>0, <2>1 DEF AuthTypeOK
  <2>3. AuthTypeOK'
    BY <1>0, <2>1 DEF AuthTypeOK, requestVars
  <2>4. StageOK' /\ HolderOK'
    BY <2>1, <2>2 DEF AuthInv, StageOK, HolderOK, requestVars
  <2>5. CountOK'
    BY <2>1, <2>2 DEF AuthInv, CountOK
  <2> QED
    BY <2>3, <2>4, <2>5 DEF AuthInv
<1>11. ASSUME NEW c \in Coros, Task(c) PROVE AuthInv'
  BY <1>3, <1>4, <1>5, <1>7, <1>8, <1>9, <1>11 DEF Task
<1>12. CASE \/ \E t \in Threads, c \in Posts : Post(t, c)
            \/ CloseClient \/ CloserStep
            \/ \E t \in Actors : Continue(t) \/ Acquire(t)
            \/ \E l \in Loops : LoopThread(l)
            \/ UNCHANGED vars
  BY <1>2, <1>12 DEF Post, CloseClient, CloserStep, AwaitAClose, UnsetClient, Continue, Acquire,
                     LoopThread, vars, requestVars
<1> QED
  BY <1>10, <1>11, <1>12 DEF Next

\* Auth.async_auth_flow: the token of a client is refreshed at most once for its
\* first use and once for each time it expires, however many requests wait for it.
THEOREM OneRefresh == Spec => []RefreshedOncePerExpiry
<1>1. AuthInv => RefreshedOncePerExpiry
  BY DEF AuthInv, AuthTypeOK, CountOK, RefreshedOncePerExpiry
<1>2. AuthInv /\ TypeInv /\ InboxOK /\ ControlInv /\ [Next]_vars => AuthInv'
  BY AuthNext
<1> QED
  BY <1>1, <1>2, AuthInit, WorkerInvariant, PTL DEF Spec
-----------------------------------------------------------------------------
(* The client and its end.                                                  *)

\* aclose is submitted by Client.close alone, which has set its target.
TargetOK ==
  /\ cstate[AClose] # "unused" => target \in Clients /\ pc[Closer] # "idle"
  /\ \A t \in Actors : job[t] = AClose => target \in Clients /\ pc[Closer] # "idle"

ClientInv ==
  /\ httpx \in Clients \cup {NoClient}
  /\ made \subseteq Clients
  /\ aclosed \subseteq Clients
  /\ target \in Clients \cup {NoClient}
  /\ TargetOK
  /\ expiries \in [Clients -> 0..MaxExpiries]

\* A call that goes on keeps its coroutine until that is scheduled or has raised,
\* and the closer does not go back.
LEMMA CallGoesOn ==
  ASSUME TypeInv, NEW t \in Actors, SubmitStep(t) \/ AcquireLock(t)
  PROVE  /\ \A u \in Actors : job'[u] \in {job[u], NoCoro}
         /\ \A c \in Coros : cstate'[c] # cstate[c] => job[t] = c
         /\ pc[Closer] # "idle" => pc'[Closer] # "idle"
<1>0. /\ job \in [Actors -> Coros \cup {NoCoro}] /\ pc \in [Actors -> ActorPc]
      /\ cstate \in [Coros -> CoroStates] /\ got[t] \in Loops \cup {NoLoop}
      /\ Closer \in Actors
  BY DEF TypeInv, WorkerTypeOK, Actors
<1>1. ASSUME Raise(t) \/ Schedule(t)
      PROVE  /\ \E r : cstate' = [cstate EXCEPT ![job[t]] = r]
             /\ job' = [job EXCEPT ![t] = NoCoro]
             /\ \E p : (t = Closer => p # "idle") /\ pc' = [pc EXCEPT ![t] = p]
  <2>1. CASE Raise(t)
    BY <2>1 DEF Raise, Goto
  <2>2. CASE Schedule(t) /\ ~Raise(t)
    <3>1. /\ cstate' = [cstate EXCEPT ![job[t]] = "queued"]
          /\ job' = [job EXCEPT ![t] = NoCoro]
          /\ pc' = [pc EXCEPT ![t] = IF t = Closer THEN "result" ELSE "idle"]
      BY <1>0, <2>2, ScheduleCases
    <3> QED
      BY <3>1
  <2> QED
    BY <1>1, <2>1, <2>2
<1>2. CASE Raise(t) \/ Schedule(t)
  <2>1. PICK r : cstate' = [cstate EXCEPT ![job[t]] = r]
    BY <1>1, <1>2
  <2>2. PICK p : (t = Closer => p # "idle") /\ pc' = [pc EXCEPT ![t] = p]
    BY <1>1, <1>2
  <2>3. \A c \in Coros : cstate'[c] # cstate[c] => job[t] = c
    BY <1>0, <2>1
  <2>4. pc[Closer] # "idle" => pc'[Closer] # "idle"
    BY <1>0, <2>2
  <2> QED
    BY <1>0, <1>1, <1>2, <2>3, <2>4
<1>3. CASE ~(Raise(t) \/ Schedule(t))
  <2>1. UNCHANGED <<cstate, job>>
    BY <1>3 DEF SubmitStep, EnsureRunning, AcquireLock, AlreadyRunning, StartLoop, StartFails,
                LoopIsReady, AssertLoop, ReturnLoop, taskVars
  <2>2. \E p : p # "idle" /\ pc' = [pc EXCEPT ![t] = p]
    BY <1>3 DEF SubmitStep, EnsureRunning, AcquireLock, AlreadyRunning, StartLoop, StartFails,
                LoopIsReady, AssertLoop, ReturnLoop, Goto
  <2> QED
    BY <1>0, <2>1, <2>2
<1> QED
  BY <1>2, <1>3

\* There is no client at the start, and no token has expired.
LEMMA ClientInit == Init => ClientInv
  BY WorkerAssumption, ClientAssumption DEF Init, WorkerInit, ClientInv, TargetOK

\* Every step preserves what holds of the client.
LEMMA ClientNext ==
  ASSUME TypeInv, InboxOK, AuthInv, ClientInv, [Next]_vars
  PROVE  ClientInv'
<1>0. /\ AClose \in Coros /\ Closer \in Actors /\ NoCoro \notin Coros /\ MaxExpiries \in Nat
      /\ job \in [Actors -> Coros \cup {NoCoro}] /\ pc \in [Actors -> ActorPc]
      /\ cstate \in [Coros -> CoroStates]
  BY WorkerAssumption, ClientAssumption DEF TypeInv, WorkerTypeOK, Actors
<1> DEFINE Same == UNCHANGED <<clientVars, expiries>>
<1>1. ASSUME Same, TargetOK' PROVE ClientInv'
  BY <1>1 DEF ClientInv, clientVars
<1>2. ASSUME UNCHANGED <<target, job>>, pc[Closer] # "idle" => pc'[Closer] # "idle",
             cstate[AClose] = "unused" => cstate'[AClose] = "unused"
      PROVE  TargetOK'
  BY <1>2 DEF ClientInv, TargetOK
<1>3. ASSUME NEW t \in Threads, NEW c \in Posts, Post(t, c) PROVE ClientInv'
  <2>1. UNCHANGED <<target, cstate>> /\ Same /\ pc[t] = "idle" /\ t \in Actors
    BY <1>3 DEF Post, BeginSubmit, taskVars, clientVars, authVars, Actors
  <2>2. /\ \A u \in Actors : job'[u] = AClose => job[u] = AClose
        /\ pc[Closer] # "idle" => pc'[Closer] # "idle"
    BY <1>0, <1>3, <2>1 DEF Post, BeginSubmit, Goto, Posts
  <2>3. TargetOK'
    BY <2>1, <2>2 DEF ClientInv, TargetOK
  <2> QED
    BY <1>1, <2>1, <2>3
<1>4. CASE CloseClient
  <2>1. /\ pc[Closer] = "idle" /\ target' = httpx /\ cstate' = cstate
        /\ UNCHANGED <<made, aclosed, expiries>> /\ httpx' \in {httpx, NoClient}
    BY <1>4 DEF CloseClient, BeginSubmit, taskVars, authVars
  <2>2. cstate[AClose] = "unused" /\ \A t \in Actors : job[t] # AClose
    BY <2>1 DEF ClientInv, TargetOK
  <2>3. CASE httpx # NoClient /\ pc' = [pc EXCEPT ![Closer] = "ensure"]
    BY <1>0, <2>1, <2>2, <2>3 DEF ClientInv, TargetOK
  <2>4. CASE job' = job
    BY <2>1, <2>2, <2>4 DEF ClientInv, TargetOK
  <2> QED
    BY <1>4, <2>3, <2>4 DEF CloseClient, BeginSubmit, Goto
<1>5. CASE CloserStep
  <2>1. /\ UNCHANGED <<target, job, cstate, made, aclosed, expiries>>
        /\ httpx' \in {httpx, NoClient}
        /\ \E p \in {"unset", "stopping"} : pc' = [pc EXCEPT ![Closer] = p]
    BY <1>5 DEF CloserStep, AwaitAClose, UnsetClient, Goto, clientVars, authVars, taskVars
  <2>2. TargetOK'
    BY <1>0, <1>2, <2>1
  <2> QED
    BY <2>1, <2>2 DEF ClientInv
<1>6. ASSUME NEW t \in Actors, SubmitStep(t) \/ AcquireLock(t), Same PROVE ClientInv'
  <2>1. TargetOK'
    BY <1>0, <1>6, CallGoesOn DEF ClientInv, TargetOK, clientVars
  <2> QED
    BY <1>1, <1>6, <2>1
<1>7. ASSUME StopStep, Same PROVE ClientInv'
  <2>1. UNCHANGED <<target, job, cstate>> /\ (pc[Closer] # "idle" => pc'[Closer] # "idle")
    BY <1>0, <1>7 DEF StopStep, BeginStop, AlreadyStopped, SignalLoop, JoinLoop, Goto, taskVars,
                      clientVars
  <2> QED
    BY <1>1, <1>2, <1>7, <2>1
<1>8. ASSUME NEW t \in Actors, Continue(t) \/ Acquire(t) PROVE ClientInv'
  BY <1>6, <1>7, <1>8 DEF Continue, Acquire, authVars
<1>9. ASSUME UNCHANGED <<target, job, pc>>, \/ UNCHANGED cstate
                                            \/ \E l \in Loops : LoopThread(l)
                                            \/ \E c \in Coros : TaskMoves(c)
      PROVE TargetOK'
  <2>1. CASE UNCHANGED cstate
    BY <1>2, <1>9, <2>1
  <2>2. CASE \/ \E l \in Loops : LoopThread(l)
             \/ \E c \in Coros : TaskMoves(c)
    <3>1. WorkerMoves
      BY <2>2 DEF LoopThread, WorkerMoves
    <3>2. CASE cstate'[AClose] # cstate[AClose] /\ cstate[AClose] = "unused"
      <4>1. ASSUME NEW c \in Coros, TaskMoves(c) PROVE FALSE
        BY <1>0, <3>2, <4>1 DEF TaskMoves
      <4>2. ASSUME NEW l \in Loops, RunCallback(l) PROVE FALSE
        <5>1. inbox[l] \in Seq(Coros \cup {Stop}) /\ inbox[l] # <<>>
          BY <4>2 DEF RunCallback, TypeInv, WorkerTypeOK
        <5>2. Head(inbox[l]) \in Range(inbox[l])
          BY <5>1, HeadAndTail
        <5> QED
          BY <1>0, <3>2, <4>2, <5>2 DEF RunCallback, InboxOK
      <4>3. ASSUME NEW l \in Loops, LoopStep(l) PROVE FALSE
        BY <3>2, <4>2, <4>3 DEF LoopStep, LoopBegins, SetRunning, LoopStops, ClearRunning,
              CancelAllTasks, Drained, LoopCloses, ForgetLoop, taskVars
      <4> QED
        BY <2>2, <4>1, <4>3 DEF LoopThread
    <3> QED
      BY <1>2, <1>9, <3>2
  <2> QED
    BY <1>9, <2>1, <2>2
<1>10. ASSUME NEW l \in Loops, LoopThread(l) PROVE ClientInv'
  <2>1. UNCHANGED <<target, job, pc>> /\ Same
    BY <1>10 DEF LoopThread, LoopStep, LoopBegins, SetRunning, RunCallback, LoopStops, ClearRunning,
              CancelAllTasks, Drained, LoopCloses, ForgetLoop, callerVars, clientVars, authVars
  <2> QED
    BY <1>1, <1>9, <1>10, <2>1
<1>11. ASSUME NEW c \in Coros, Task(c) PROVE ClientInv'
  <2>1. TaskMoves(c)
    BY <1>11 DEF Task, StartRequest, TakeToken, Refreshed, RequestFails, WrongLoop, Answered,
              ClosesClient, Cancelled, GoesOn, Ends, EndsCancelled, Steps, TaskMoves, Settled
  <2>2. UNCHANGED <<target, job, pc, expiries>>
    BY <1>11, <2>1 DEF TaskMoves, callerVars, Task, StartRequest, TakeToken, Refreshed, RequestFails,
              WrongLoop, Answered, ClosesClient, Cancelled, clientVars, authVars
  <2>3. TargetOK'
    BY <1>9, <2>1, <2>2
  <2>4. CASE StartRequest(c)
    BY <2>2, <2>3, <2>4 DEF StartRequest, ClientInv
  <2>5. CASE c = AClose /\ ClosesClient
    <3>1. cstate[AClose] = "task" /\ UNCHANGED <<httpx, made>> /\ aclosed' = aclosed \cup {target}
      BY <2>5 DEF ClosesClient, Ends, Steps
    <3>2. target \in Clients
      BY <3>1 DEF ClientInv, TargetOK
    <3> QED
      BY <2>2, <2>3, <3>1, <3>2 DEF ClientInv
  <2>6. CASE ~StartRequest(c) /\ ~(c = AClose /\ ClosesClient)
    <3>1. UNCHANGED clientVars
      BY <1>11, <2>6 DEF Task, TakeToken, Refreshed, RequestFails, WrongLoop, Answered, Cancelled
    <3> QED
      BY <1>1, <2>2, <2>3, <3>1
  <2> QED
    BY <2>4, <2>5, <2>6
<1>12. ASSUME NEW h \in Clients, Expire(h) PROVE ClientInv'
  <2>1. UNCHANGED <<target, job, pc, cstate, clientVars>>
    BY <1>12 DEF Expire, workerVars, clientVars
  <2>2. expiries' \in [Clients -> 0..MaxExpiries]
    BY <1>0, <1>12 DEF Expire, ClientInv
  <2> QED
    BY <1>9, <2>1, <2>2 DEF ClientInv, clientVars
<1>13. CASE UNCHANGED vars
  BY <1>1, <1>9, <1>13 DEF vars, workerVars, clientVars, authVars
<1> QED
  BY <1>3, <1>4, <1>5, <1>8, <1>10, <1>11, <1>12, <1>13 DEF Next

\* The types of the worker, the client, its tokens and its requests; with them, that
\* only a client that exists is closed.
THEOREM Typed == Spec => []TypeOK
<1>1. TypeInv /\ AuthInv /\ ClientInv => TypeOK
  BY DEF TypeInv, AuthInv, AuthTypeOK, ClientInv, TypeOK
<1>2. Init => AuthInv /\ ClientInv
  BY AuthInit, ClientInit
<1>3. TypeInv /\ InboxOK /\ AuthInv /\ ClientInv /\ [Next]_vars => (AuthInv /\ ClientInv)'
  BY AuthNext, ClientNext
<1> QED
  BY <1>1, <1>2, <1>3, WorkerInvariant, PTL DEF Spec
=============================================================================
