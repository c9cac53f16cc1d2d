----------------------------- MODULE AsyncWorker -----------------------------
(***************************************************************************)
(* The event loop thread: src/src/qorme/utils/async_worker.py.             *)
(*                                                                         *)
(* Application threads submit coroutines to a loop that is started on      *)
(* demand; one actor, the closer, stops it.  A loop is created by its      *)
(* thread, so one identity stands for both.  asyncio itself is external:   *)
(* a loop runs the callbacks of its inbox in order, and cancelling a task  *)
(* ends it at its next step.  What a task does while it runs is left to    *)
(* the module that extends this one.                                       *)
(*                                                                         *)
(* startup_timeout and shutdown_timeout are assumed not to elapse.         *)
(***************************************************************************)
EXTENDS Naturals, SequencesExt

CONSTANTS
  Threads,    \* application threads
  Closer,     \* the thread that closes the dependencies
  Loops,      \* identities of event loops and of their threads, each used once
  Coros,      \* coroutines, each submitted at most once
  Faults,     \* {"start"} when Thread.start may raise
  NoLoop, NoThread, NoCoro,
  Stop        \* the callback loop.stop

ASSUME WorkerAssumption ==
  /\ Closer \notin Threads
  /\ NoLoop \notin Loops
  /\ NoThread \notin Threads \cup {Closer}
  /\ NoCoro \notin Coros
  /\ Stop \notin Coros

Actors == Threads \cup {Closer}

VARIABLES
  running,    \* _running
  loopRef,    \* _loop
  loopThread, \* _thread
  lock,       \* _lock: its holder
  pc,         \* where each actor is in submit or close
  job,        \* the coroutine it submits
  got,        \* the loop that the loop property has returned to it
  lpc,        \* where each loop thread is in _run
  stopping,   \* loops that have run the callback Stop
  inbox,      \* the callbacks scheduled on a loop
  cstate,     \* what has become of each coroutine
  home,       \* the loop a coroutine was scheduled on
  cancelled,  \* tasks that will get a CancelledError
  late        \* history: coroutines scheduled on a loop after Stop was

workerVars == <<running, loopRef, loopThread, lock, pc, job, got,
                lpc, stopping, inbox, cstate, home, cancelled, late>>
attributes == <<running, loopRef, loopThread, lock>>
callerVars == <<pc, job, got>>
loopVars   == <<lpc, stopping, inbox>>
taskVars   == <<cstate, home, cancelled, late>>

ActorPc == {"idle", "ensure", "lock", "start", "wait", "assert", "return", "schedule",
            "result", "unset", "stopping", "stopLock", "stop", "join", "closed"}
LoopPc  == {"unused", "new", "set", "run", "stopped", "cleared", "drain", "wind", "closed", "ended"}

\* What a coroutine's future has, in the end: a result, an exception or a
\* cancellation; "error" is a coroutine whose submit raised.
Settled == {"ok", "failed", "cancelled"}
CoroStates == {"unused", "queued", "task", "error"} \cup Settled

\* The identity of a new loop or client; which one it is does not matter.
Fresh(S) == CHOOSE x \in S : TRUE

Goto(t, p)  == pc' = [pc EXCEPT ![t] = p]
Unused      == {l \in Loops : lpc[l] = "unused"}
Alive(l)    == lpc[l] \notin {"unused", "ended"}
Runs(l)     == lpc[l] \in {"run", "drain", "wind"}
TasksOf(l)  == {c \in Coros : cstate[c] = "task" /\ home[c] = l}
-----------------------------------------------------------------------------
(* submit and the loop property.                                            *)

BeginSubmit(t, c) ==
  /\ cstate[c] = "unused"
  /\ \A u \in Actors : job[u] # c
  /\ job' = [job EXCEPT ![t] = c]
  /\ Goto(t, "ensure")
  /\ UNCHANGED <<attributes, got, loopVars, taskVars>>

\* The first look at is_running, without the lock.
EnsureRunning(t) ==
  /\ pc[t] = "ensure"
  /\ Goto(t, IF running THEN "assert" ELSE "lock")
  /\ UNCHANGED <<attributes, job, got, loopVars, taskVars>>

AcquireLock(t) ==
  /\ pc[t] \in {"lock", "stopLock"} /\ lock = NoThread
  /\ lock' = t
  /\ Goto(t, IF pc[t] = "lock" THEN "start" ELSE "stop")
  /\ UNCHANGED <<running, loopRef, loopThread, job, got, loopVars, taskVars>>

\* The second look, under the lock.
AlreadyRunning(t) ==
  /\ pc[t] = "start" /\ running
  /\ lock' = NoThread
  /\ Goto(t, "assert")
  /\ UNCHANGED <<running, loopRef, loopThread, job, got, loopVars, taskVars>>

\* Variant for a mutation: no second look.
StartUnchecked(t) ==
  /\ pc[t] = "start" /\ Unused # {}
  /\ loopThread' = Fresh(Unused)
  /\ lpc' = [lpc EXCEPT ![loopThread'] = "new"]
  /\ Goto(t, "wait")
  /\ UNCHANGED <<running, loopRef, lock, job, got, stopping, inbox, taskVars>>

StartLoop(t) ==
  /\ pc[t] = "start" /\ ~running /\ Unused # {}
  /\ loopThread' = Fresh(Unused)
  /\ lpc' = [lpc EXCEPT ![loopThread'] = "new"]
  /\ Goto(t, "wait")
  /\ UNCHANGED <<running, loopRef, lock, job, got, stopping, inbox, taskVars>>

\* Thread.start raises RuntimeError.
StartFails(t) ==
  /\ "start" \in Faults
  /\ pc[t] = "start" /\ ~running
  /\ lock' = NoThread
  /\ Goto(t, "assert")
  /\ UNCHANGED <<running, loopRef, loopThread, job, got, loopVars, taskVars>>

LoopIsReady(t) ==
  /\ pc[t] = "wait" /\ running
  /\ lock' = NoThread
  /\ Goto(t, "assert")
  /\ UNCHANGED <<running, loopRef, loopThread, job, got, loopVars, taskVars>>

\* submit leaves with an exception, which Client.close and Flusher.flush catch.
Raise(t) ==
  /\ cstate' = [cstate EXCEPT ![job[t]] = "error"]
  /\ job' = [job EXCEPT ![t] = NoCoro]
  /\ Goto(t, IF t = Closer THEN "unset" ELSE "idle")

\* assert self._loop is not None
AssertLoop(t) ==
  /\ pc[t] = "assert"
  /\ IF loopRef = NoLoop
     THEN Raise(t)
     ELSE Goto(t, "return") /\ UNCHANGED <<cstate, job>>
  /\ UNCHANGED <<attributes, got, loopVars, home, cancelled, late>>

\* return self._loop, a second read.
ReturnLoop(t) ==
  /\ pc[t] = "return"
  /\ got' = [got EXCEPT ![t] = loopRef]
  /\ Goto(t, "schedule")
  /\ UNCHANGED <<attributes, job, loopVars, taskVars>>

\* A loop that has run Stop, or will before anything scheduled now.
StopAsked(l) == l \in stopping \/ Stop \in Range(inbox[l])

\* asyncio.run_coroutine_threadsafe, which raises for None and for a closed loop.
Schedule(t) ==
  /\ pc[t] = "schedule"
  /\ LET l == got[t] IN
     IF l = NoLoop \/ (l \in Loops /\ lpc[l] \in {"closed", "ended"})
     THEN Raise(t) /\ UNCHANGED <<inbox, home, late>>
     ELSE /\ inbox' = [inbox EXCEPT ![l] = Append(@, job[t])]
          /\ cstate' = [cstate EXCEPT ![job[t]] = "queued"]
          /\ home' = [home EXCEPT ![job[t]] = l]
          /\ late' = IF StopAsked(l) THEN late \cup {job[t]} ELSE late
          /\ job' = [job EXCEPT ![t] = NoCoro]
          /\ Goto(t, IF t = Closer THEN "result" ELSE "idle")
  /\ got' = [got EXCEPT ![t] = NoLoop]
  /\ UNCHANGED <<attributes, lpc, stopping, cancelled>>
-----------------------------------------------------------------------------
(* close, called by the closer.                                             *)

BeginStop ==
  /\ pc[Closer] = "stopping"
  /\ Goto(Closer, IF running THEN "stopLock" ELSE "closed")
  /\ UNCHANGED <<attributes, job, got, loopVars, taskVars>>

AlreadyStopped ==
  /\ pc[Closer] = "stop" /\ ~running
  /\ lock' = NoThread
  /\ Goto(Closer, "closed")
  /\ UNCHANGED <<running, loopRef, loopThread, job, got, loopVars, taskVars>>

\* Variant for a mutation: loop.stop called from the wrong thread is not heard.
SignalUnheard ==
  /\ pc[Closer] = "stop" /\ running
  /\ Goto(Closer, "join")
  /\ UNCHANGED <<attributes, job, got, loopVars, taskVars>>

\* loop.call_soon_threadsafe(loop.stop)
SignalLoop ==
  /\ pc[Closer] = "stop" /\ running
  /\ inbox' = IF loopRef = NoLoop THEN inbox
              ELSE [inbox EXCEPT ![loopRef] = Append(@, Stop)]
  /\ Goto(Closer, "join")
  /\ UNCHANGED <<attributes, job, got, lpc, stopping, taskVars>>

\* Variant for a mutation: close does not wait for the thread.
JoinNobody ==
  /\ pc[Closer] = "join"
  /\ loopThread' = NoLoop
  /\ lock' = NoThread
  /\ Goto(Closer, "closed")
  /\ UNCHANGED <<running, loopRef, job, got, loopVars, taskVars>>

JoinLoop ==
  /\ pc[Closer] = "join"
  /\ loopThread # NoLoop => lpc[loopThread] = "ended"
  /\ loopThread' = NoLoop
  /\ lock' = NoThread
  /\ Goto(Closer, "closed")
  /\ UNCHANGED <<running, loopRef, job, got, loopVars, taskVars>>
-----------------------------------------------------------------------------
(* The loop thread: _run, _close and _cancel_all_tasks.                     *)

Move(l, p) == lpc' = [lpc EXCEPT ![l] = p]

LoopBegins(l) ==
  /\ lpc[l] = "new"
  /\ loopRef' = l
  /\ Move(l, "set")
  /\ UNCHANGED <<running, loopThread, lock, callerVars, stopping, inbox, taskVars>>

SetRunning(l) ==
  /\ lpc[l] = "set"
  /\ running' = TRUE
  /\ Move(l, "run")
  /\ UNCHANGED <<loopRef, loopThread, lock, callerVars, stopping, inbox, taskVars>>

\* The loop runs the next callback: it makes a task of a coroutine, or notes
\* that it has to stop.
RunCallback(l) ==
  /\ Runs(l) /\ inbox[l] # <<>>
  /\ inbox' = [inbox EXCEPT ![l] = Tail(@)]
  /\ IF Head(inbox[l]) = Stop
     THEN stopping' = stopping \cup {l} /\ UNCHANGED cstate
     ELSE cstate' = [cstate EXCEPT ![Head(inbox[l])] = "task"] /\ UNCHANGED stopping
  /\ UNCHANGED <<attributes, callerVars, lpc, home, cancelled, late>>

\* run_forever returns at the end of the round in which it ran Stop.
LoopStops(l) ==
  /\ lpc[l] = "run" /\ l \in stopping
  /\ Move(l, "stopped")
  /\ UNCHANGED <<attributes, callerVars, stopping, inbox, taskVars>>

ClearRunning(l) ==
  /\ lpc[l] = "stopped"
  /\ running' = FALSE
  /\ Move(l, "cleared")
  /\ UNCHANGED <<loopRef, loopThread, lock, callerVars, stopping, inbox, taskVars>>

\* Every task that exists now gets a CancelledError; _close reads _loop anew.
CancelAllTasks(l) ==
  /\ lpc[l] = "cleared"
  /\ cancelled' = cancelled \cup TasksOf(loopRef)
  /\ Move(l, "drain")
  /\ UNCHANGED <<attributes, callerVars, stopping, inbox, cstate, home, late>>

\* Variant for a mutation: nobody waits for the tasks that were cancelled.
DrainedAtOnce(l) ==
  /\ lpc[l] = "drain"
  /\ Move(l, "wind")
  /\ UNCHANGED <<attributes, callerVars, stopping, inbox, taskVars>>

\* gather has waited for the tasks that were cancelled.
Drained(l) ==
  /\ lpc[l] = "drain"
  /\ TasksOf(l) \cap cancelled = {}
  /\ Move(l, "wind")
  /\ UNCHANGED <<attributes, callerVars, stopping, inbox, taskVars>>

\* loop.close, after the generators and the executor have been shut down.
LoopCloses(l) ==
  /\ lpc[l] = "wind"
  /\ Move(l, "closed")
  /\ UNCHANGED <<attributes, callerVars, stopping, inbox, taskVars>>

ForgetLoop(l) ==
  /\ lpc[l] = "closed"
  /\ loopRef' = NoLoop
  /\ Move(l, "ended")
  /\ UNCHANGED <<running, loopThread, lock, callerVars, stopping, inbox, taskVars>>

\* A task makes its next step, to which the extending module adds what it does:
\* it goes on, or it ends and its future is settled.
Steps(c) ==
  /\ cstate[c] = "task" /\ Runs(home[c])
  /\ UNCHANGED <<attributes, callerVars, loopVars, home, late>>
GoesOn(c)    == Steps(c) /\ c \notin cancelled /\ UNCHANGED <<cstate, cancelled>>
Ends(c, how) ==
  /\ Steps(c) /\ c \notin cancelled
  /\ cstate' = [cstate EXCEPT ![c] = how]
  /\ UNCHANGED cancelled
EndsCancelled(c) ==
  /\ Steps(c) /\ c \in cancelled
  /\ cstate' = [cstate EXCEPT ![c] = "cancelled"]
  /\ cancelled' = cancelled \ {c}
-----------------------------------------------------------------------------
WorkerInit ==
  /\ running = FALSE /\ loopRef = NoLoop /\ loopThread = NoLoop /\ lock = NoThread
  /\ pc = [t \in Actors |-> "idle"]
  /\ job = [t \in Actors |-> NoCoro]
  /\ got = [t \in Actors |-> NoLoop]
  /\ lpc = [l \in Loops |-> "unused"]
  /\ stopping = {}
  /\ inbox = [l \in Loops |-> <<>>]
  /\ cstate = [c \in Coros |-> "unused"]
  /\ home = [c \in Coros |-> NoLoop]
  /\ cancelled = {} /\ late = {}

SubmitStep(t) ==
  \/ EnsureRunning(t) \/ AlreadyRunning(t) \/ StartLoop(t) \/ StartFails(t)
  \/ LoopIsReady(t) \/ AssertLoop(t) \/ ReturnLoop(t) \/ Schedule(t)

StopStep == BeginStop \/ AlreadyStopped \/ SignalLoop \/ JoinLoop

LoopStep(l) ==
  \/ LoopBegins(l) \/ SetRunning(l) \/ RunCallback(l) \/ LoopStops(l)
  \/ ClearRunning(l) \/ CancelAllTasks(l) \/ Drained(l) \/ LoopCloses(l) \/ ForgetLoop(l)
-----------------------------------------------------------------------------
WorkerTypeOK ==
  /\ running \in BOOLEAN
  /\ loopRef \in Loops \cup {NoLoop}
  /\ loopThread \in Loops \cup {NoLoop}
  /\ lock \in Actors \cup {NoThread}
  /\ pc \in [Actors -> ActorPc]
  /\ job \in [Actors -> Coros \cup {NoCoro}]
  /\ got \in [Actors -> Loops \cup {NoLoop}]
  /\ lpc \in [Loops -> LoopPc]
  /\ stopping \subseteq Loops
  /\ inbox \in [Loops -> Seq(Coros \cup {Stop})]
  /\ cstate \in [Coros -> CoroStates]
  /\ home \in [Coros -> Loops \cup {NoLoop}]
  /\ \A c \in Coros : cstate[c] \in {"queued", "task"} => home[c] \in Loops
  /\ cancelled \subseteq Coros
  /\ late \subseteq Coros

\* However submissions and a close race, at most one event loop thread exists.
SingleLoop == \A k, l \in Loops : Alive(k) /\ Alive(l) => k = l

\* What a submitter relies on when it finds the worker running: _loop is set, to
\* a loop that accepts callbacks.
RunningMeansLoop ==
  running => loopRef # NoLoop /\ lpc[loopRef] \in {"run", "stopped"}

\* Nobody waits under the lock of the worker for a loop that will not answer: whoever
\* waits for _running has a thread on its way to set it, and the thread that close
\* joins has got past that and has ended, ends, or has Stop in its inbox
\* (async_worker.py:70-91 and 140-153).  The waits are without a time limit here.
WaitsAreAnswered ==
  /\ \A t \in Actors :
       pc[t] = "wait" => running \/ \E l \in Loops : lpc[l] \in {"new", "set"}
  /\ pc[Closer] = "join" /\ loopThread # NoLoop =>
       /\ lpc[loopThread] \notin {"unused", "new", "set"}
       /\ lpc[loopThread] = "run" => StopAsked(loopThread)

\* A coroutine that no thread will run any more.
Stranded(c) ==
  /\ cstate[c] \in {"queued", "task"}
  /\ lpc[home[c]] \in {"closed", "ended"}

\* The end of a loop loses nothing that was submitted in time: a coroutine that no
\* thread will run any more was scheduled after the stop, which the loop has taken
\* from its inbox behind all earlier ones; their tasks it has cancelled and waited
\* for (async_worker.py:111-120 and 165-175).
OnlyLateAreStranded == \A c \in Coros : Stranded(c) => c \in late

\* The same as a promise: a coroutine scheduled before the stop settles.  Only a
\* coroutine that was scheduled after the stop and died with its loop can be in
\* the way, because it keeps the locks it held.
SubmittedSettles ==
  \A c \in Coros :
    cstate[c] = "queued" /\ c \notin late
      ~> cstate[c] \in Settled \/ \E d \in late : Stranded(d)
=============================================================================
