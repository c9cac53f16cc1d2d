----------------------------- MODULE HttpClient -----------------------------
(***************************************************************************)
(* Requests and their end: Client.request, post and close                  *)
(* (src/src/qorme/client/client.py), Auth.async_auth_flow (client/auth.py) *)
(* and Deps.close (src/src/qorme/deps.py), on the event loop of            *)
(* AsyncWorker.                                                            *)
(*                                                                         *)
(* Application threads, the worker of the ingest queue among them, post;   *)
(* the closer runs Deps.close once, without the ML store, whose close is   *)
(* in MLStore.  httpx and the server are external: a request is answered   *)
(* or fails.                                                               *)
(***************************************************************************)
EXTENDS AsyncWorker

CONSTANTS
  AClose,       \* the coroutine client.aclose()
  Clients,      \* identities of httpx clients, each with its Auth
  MaxExpiries,  \* bound: how often a token expires
  NoClient

Posts == Coros \ {AClose}

ASSUME ClientAssumption ==
  /\ AClose \in Coros
  /\ NoClient \notin Clients
  /\ MaxExpiries \in Nat

VARIABLES
  httpx,      \* _httpx_client
  made,       \* httpx clients created so far
  aclosed,    \* those whose aclose has run
  target,     \* the client that Client.close closes
  uses,       \* the client a request runs on
  stage,      \* where a request is
  token,      \* whether the token of a client's Auth is expired
  tokenLock,  \* token_lock of a client's Auth: the request that holds it
  expiries,   \* how often the token of a client has expired
  refreshes   \* history: successful refreshes per client

clientVars == <<httpx, made, aclosed, target>>
authVars   == <<token, tokenLock, expiries, refreshes>>
requestVars == <<uses, stage>>
vars == <<workerVars, clientVars, authVars, requestVars>>
-----------------------------------------------------------------------------
(* A request, a task of the event loop.                                     *)

\* The httpx_client property, read when the coroutine runs: the client is
\* created on its first use; one that has been closed refuses.
StartRequest(c) ==
  /\ c \in Posts /\ stage[c] = "new"
  /\ \/ /\ httpx = NoClient
        /\ \E h \in Clients \ made :
             /\ httpx' = h
             /\ made' = made \cup {h}
             /\ uses' = [uses EXCEPT ![c] = h]
        /\ GoesOn(c)
        /\ stage' = [stage EXCEPT ![c] = "token"]
     \/ /\ httpx \in Clients \ aclosed
        /\ uses' = [uses EXCEPT ![c] = httpx]
        /\ GoesOn(c)
        /\ stage' = [stage EXCEPT ![c] = "token"]
        /\ UNCHANGED <<httpx, made>>
     \/ /\ httpx \in aclosed
        /\ Ends(c, "failed")
        /\ UNCHANGED <<httpx, made, uses, stage>>
  /\ UNCHANGED <<aclosed, target, authVars>>

\* Variant for a mutation: expiry is looked at before the lock is asked for.
TakeTokenUnchecked(c) ==
  /\ stage[c] = "token"
  /\ GoesOn(c)
  /\ tokenLock[uses[c]] = NoCoro
  /\ tokenLock' = [tokenLock EXCEPT ![uses[c]] = c]
  /\ stage' = [stage EXCEPT ![c] = "auth"]
  /\ UNCHANGED <<token, expiries, refreshes, clientVars, uses>>

\* async with token_lock: the expiry is looked at under the lock, and without a
\* refresh nothing is awaited until the request is on its way.
TakeToken(c) ==
  /\ stage[c] = "token"
  /\ GoesOn(c)
  /\ tokenLock[uses[c]] = NoCoro
  /\ IF token[uses[c]] = "valid"
     THEN /\ stage' = [stage EXCEPT ![c] = "sent"]
          /\ UNCHANGED tokenLock
     ELSE /\ tokenLock' = [tokenLock EXCEPT ![uses[c]] = c]
          /\ stage' = [stage EXCEPT ![c] = "auth"]
  /\ UNCHANGED <<token, expiries, refreshes, clientVars, uses>>

\* The token is updated and the lock released; the request goes out with it.
Refreshed(c) ==
  /\ stage[c] = "auth"
  /\ GoesOn(c)
  /\ token' = [token EXCEPT ![uses[c]] = "valid"]
  /\ refreshes' = [refreshes EXCEPT ![uses[c]] = @ + 1]
  /\ tokenLock' = [tokenLock EXCEPT ![uses[c]] = NoCoro]
  /\ stage' = [stage EXCEPT ![c] = "sent"]
  /\ UNCHANGED <<expiries, clientVars, uses>>

\* Leaving async with releases the lock.
Release(c) ==
  tokenLock' = [h \in Clients |-> IF tokenLock[h] = c THEN NoCoro ELSE tokenLock[h]]

\* Variant for a mutation: the lock is only released after a refresh.
RequestFailsLocked(c) ==
  /\ stage[c] \in {"auth", "sent"}
  /\ Ends(c, "failed")
  /\ UNCHANGED <<authVars, clientVars, requestVars>>

\* The refresh or the request itself fails, its retries used up, or the answer
\* to the refresh cannot be read.
RequestFails(c) ==
  /\ stage[c] \in {"auth", "sent"}
  /\ Ends(c, "failed")
  /\ Release(c)
  /\ UNCHANGED <<token, expiries, refreshes, clientVars, requestVars>>

\* asyncio.Lock belongs to the loop on which somebody first had to wait for it:
\* waiting for it on another loop raises.
WrongLoop(c) ==
  /\ stage[c] = "token"
  /\ tokenLock[uses[c]] # NoCoro
  /\ \E d \in Posts : uses[d] = uses[c] /\ home[d] # home[c]
  /\ Ends(c, "failed")
  /\ UNCHANGED <<authVars, clientVars, requestVars>>

Answered(c) ==
  /\ stage[c] = "sent"
  /\ Ends(c, "ok")
  /\ UNCHANGED <<authVars, clientVars, requestVars>>

\* CancelledError, wherever the task awaits.
Cancelled(c) ==
  /\ EndsCancelled(c)
  /\ Release(c)
  /\ UNCHANGED <<token, expiries, refreshes, clientVars, requestVars>>

ClosesClient ==
  /\ Ends(AClose, "ok")
  /\ aclosed' = aclosed \cup {target}
  /\ UNCHANGED <<httpx, made, target, authVars, requestVars>>

Expire(h) ==
  /\ token[h] = "valid" /\ expiries[h] < MaxExpiries
  /\ token' = [token EXCEPT ![h] = "expired"]
  /\ expiries' = [expiries EXCEPT ![h] = @ + 1]
  /\ UNCHANGED <<workerVars, tokenLock, refreshes, clientVars, requestVars>>
-----------------------------------------------------------------------------
(* Deps.close: Client.close, then AsyncWorker.close.                        *)

\* Without a client or without a loop there is nothing to close.
CloseClient ==
  /\ pc[Closer] = "idle"
  /\ target' = httpx
  /\ \/ /\ httpx # NoClient /\ running
        /\ BeginSubmit(Closer, AClose)
        /\ UNCHANGED httpx
     \/ /\ httpx = NoClient \/ ~running
        /\ httpx' = NoClient
        /\ Goto(Closer, "stopping")
        /\ UNCHANGED <<attributes, job, got, loopVars, taskVars>>
  /\ UNCHANGED <<made, aclosed, authVars, requestVars>>

\* fut.result returns or times out; then the future is cancelled.
AwaitAClose ==
  /\ pc[Closer] = "result"
  /\ \/ cstate[AClose] \in Settled /\ UNCHANGED cancelled
     \/ cstate[AClose] \notin Settled /\ cancelled' = cancelled \cup {AClose}
  /\ Goto(Closer, "unset")
  /\ UNCHANGED <<attributes, job, got, loopVars, cstate, home, late,
                 clientVars, authVars, requestVars>>

UnsetClient ==
  /\ pc[Closer] = "unset"
  /\ httpx' = NoClient
  /\ Goto(Closer, "stopping")
  /\ UNCHANGED <<attributes, job, got, loopVars, taskVars,
                 made, aclosed, target, authVars, requestVars>>
-----------------------------------------------------------------------------
Init ==
  /\ WorkerInit
  /\ httpx = NoClient /\ made = {} /\ aclosed = {} /\ target = NoClient
  /\ uses = [c \in Coros |-> NoClient]
  /\ stage = [c \in Coros |-> "new"]
  /\ token = [h \in Clients |-> "expired"]
  /\ tokenLock = [h \in Clients |-> NoCoro]
  /\ expiries = [h \in Clients |-> 0]
  /\ refreshes = [h \in Clients |-> 0]

Post(t, c) ==
  /\ pc[t] = "idle" /\ c \in Posts
  /\ BeginSubmit(t, c)
  /\ UNCHANGED <<clientVars, authVars, requestVars>>

\* An actor goes on with its call.
Continue(t) ==
  /\ SubmitStep(t) \/ (t = Closer /\ StopStep)
  /\ UNCHANGED <<clientVars, authVars, requestVars>>

Acquire(t) ==
  /\ AcquireLock(t)
  /\ UNCHANGED <<clientVars, authVars, requestVars>>

CloserStep == AwaitAClose \/ UnsetClient

LoopThread(l) ==
  /\ LoopStep(l)
  /\ UNCHANGED <<clientVars, authVars, requestVars>>

Task(c) ==
  \/ StartRequest(c) \/ TakeToken(c) \/ Refreshed(c) \/ RequestFails(c)
  \/ WrongLoop(c) \/ Answered(c)
  \/ c = AClose /\ ClosesClient
  \/ Cancelled(c)

Next ==
  \/ \E t \in Threads, c \in Posts : Post(t, c)
  \/ CloseClient \/ CloserStep
  \/ \E t \in Actors : Continue(t) \/ Acquire(t)
  \/ \E l \in Loops : LoopThread(l)
  \/ \E c \in Coros : Task(c)
  \/ \E h \in Clients : Expire(h)

Spec == Init /\ [][Next]_vars

\* Threads are scheduled; the loop runs its tasks, the server answers or the
\* request times out.  Requests are finitely many, so that weak fairness also
\* gets everybody who waits for a lock his turn.
Fairness ==
  /\ \A t \in Actors : WF_vars(Continue(t) \/ Acquire(t))
  /\ WF_vars(CloserStep)
  /\ \A l \in Loops : WF_vars(LoopThread(l))
  /\ \A c \in Coros : WF_vars(Task(c))

FairSpec == Spec /\ Fairness
-----------------------------------------------------------------------------
(* Properties.                                                              *)

\* The type of every variable.
TypeOK ==
  /\ WorkerTypeOK
  /\ httpx \in Clients \cup {NoClient}
  /\ made \subseteq Clients
  /\ aclosed \subseteq Clients
  /\ target \in Clients \cup {NoClient}
  /\ uses \in [Coros -> Clients \cup {NoClient}]
  /\ stage \in [Coros -> {"new", "token", "auth", "sent"}]
  /\ token \in [Clients -> {"expired", "valid"}]
  /\ tokenLock \in [Clients -> Coros \cup {NoCoro}]
  /\ expiries \in [Clients -> 0..MaxExpiries]
  /\ refreshes \in [Clients -> Nat]

\* One successful refresh serves every request that waits for it: the token is
\* refreshed at most once at the start and once for each time it expires.
RefreshedOncePerExpiry == \A h \in Clients : refreshes[h] <= expiries[h] + 1

\* Deps.close returns, whatever the requests and their server do.
CloseReturns == pc[Closer] # "idle" ~> pc[Closer] = "closed"
=============================================================================
