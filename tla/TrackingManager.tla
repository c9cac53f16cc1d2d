--------------------------- MODULE TrackingManager ---------------------------
(***************************************************************************)
(* TrackingManager.install and uninstall (src/src/qorme/manager.py), with  *)
(* Domain.enable and disable (src/src/qorme/domain.py) and Wrapper.wrap,   *)
(* unwrap and clear (src/src/qorme/utils/wrapper.py), called by several    *)
(* threads.                                                                *)
(*                                                                         *)
(* A member of a patched object is what its __dict__ holds: nothing, when  *)
(* the member is inherited, or a chain of wrappers around the original,    *)
(* the last one on top.  Wrapping reads the __dict__ in one step and       *)
(* writes it in another; so does unwrapping.  wrapt is external: applying  *)
(* a wrapper is one step.                                                  *)
(***************************************************************************)
EXTENDS Naturals, Sequences, SequencesExt, FiniteSets

CONSTANTS
  Threads,
  Domains,
  Ingest,       \* the domain with a queue to close, see Events
  Order,        \* the configured domains, in the order of the set's iteration
  Members,
  Inherited,    \* the members that the patched object inherits
  Wraps,        \* the members that install_wrappers of a domain wraps, in order
  MaxInstalls,  \* bound: managers created
  Faults,       \* subset of {"import", "wrap", "register"}
  NoThread,
  Absent        \* the __dict__ has no entry

Managers == 1..MaxInstalls

\* A wrapper in place: the manager and the domain that put it there.
Layers == [mgr : Managers, dom : Domains]

ASSUME ManagerAssumption ==
  /\ NoThread \notin Threads
  /\ Ingest \in Domains /\ IsFiniteSet(Domains)
  /\ Absent \notin Seq(Layers)
  /\ Order \in Seq(Domains) /\ IsInjective(Order)
  /\ Inherited \subseteq Members
  /\ Wraps \in [Domains -> Seq(Members)]
  /\ \A d \in Domains : IsInjective(Wraps[d])
  /\ MaxInstalls \in Nat
  /\ Faults \subseteq {"import", "wrap", "register"}

VARIABLES
  instance,    \* TrackingManager._instance, 0 for None
  lock,        \* TrackingManager._lock
  created,     \* managers created so far
  enabled,     \* domain_handlers of a manager, their enabled flags
  registered,  \* the domains whose handlers a manager's Events holds
  records,     \* Wrapper._wrapped of a domain: "owned", "kept" or "none"
  entry,       \* the __dict__ entry of a member
  call,        \* where a thread is in its call
  overlapped   \* history: an install began while a manager was being stopped

managerVars == <<instance, lock, created, overlapped>>
domainVars == <<enabled, registered, records, entry>>
trackingVars == <<managerVars, domainVars, call>>
-----------------------------------------------------------------------------
NoTop == [member |-> Absent, owned |-> FALSE, below |-> <<>>]

Idle == [mode |-> "none", pc |-> "idle", mgr |-> 0, todo |-> <<>>, k |-> 0, top |-> NoTop]

At(t, mode, pc) == call[t].mode = mode /\ call[t].pc = pc

Goto(t, pc) == call' = [call EXCEPT ![t].pc = pc]

NextDomain(t) ==
  call' = [call EXCEPT ![t].pc = "next", ![t].todo = Tail(@), ![t].k = 0, ![t].top = NoTop]

\* The manager and the domain that a thread is working on.
Mgr(t) == call[t].mgr
Dom(t) == Head(call[t].todo)

Original(x) == IF x \in Inherited THEN Absent ELSE <<>>

Chain(x) == IF entry[x] = Absent THEN <<>> ELSE entry[x]

Layer(m, d) == [mgr |-> m, dom |-> d]

Stopping(t) == call[t].mode = "uninstall" /\ call[t].pc # "lock"
-----------------------------------------------------------------------------
(* TrackingManager.install.                                                 *)

\* The first look at _instance, without the lock.
BeginInstall(t) ==
  /\ call[t] = Idle
  /\ instance = 0 /\ created < MaxInstalls
  /\ call' = [call EXCEPT ![t].mode = "install", ![t].pc = "lock"]
  /\ UNCHANGED <<managerVars, domainVars>>

StartManager(t) ==
  /\ created < MaxInstalls
  /\ lock' = t
  /\ created' = created + 1
  /\ overlapped' = (overlapped \/ \E u \in Threads : Stopping(u))
  /\ call' = [call EXCEPT ![t].pc = "next", ![t].mgr = created + 1, ![t].todo = Order]
  /\ UNCHANGED <<instance, domainVars>>

\* The second look, under the lock (the bound on managers ends the call too).
LockInstall(t) ==
  /\ At(t, "install", "lock") /\ lock = NoThread
  /\ \/ instance = 0 /\ StartManager(t)
     \/ /\ instance # 0 \/ created = MaxInstalls
        /\ call' = [call EXCEPT ![t] = Idle]
        /\ UNCHANGED <<managerVars, domainVars>>

\* The handler class of a domain cannot be imported or constructed.
SkipDomain(t) ==
  /\ "import" \in Faults
  /\ At(t, "install", "next") /\ call[t].todo # <<>>
  /\ NextDomain(t)
  /\ UNCHANGED <<managerVars, domainVars>>

\* The manager becomes the instance when all its domains have been started.
EndStart(t) ==
  /\ At(t, "install", "next") /\ call[t].todo = <<>>
  /\ instance' = Mgr(t)
  /\ lock' = NoThread
  /\ call' = [call EXCEPT ![t] = Idle]
  /\ UNCHANGED <<created, overlapped, domainVars>>
-----------------------------------------------------------------------------
(* Domain.enable.                                                           *)

AfterWrap(t, k) == IF k > Len(Wraps[Dom(t)]) THEN "register" ELSE "wrap"

BeginEnable(t) ==
  /\ At(t, "install", "next") /\ call[t].todo # <<>>
  /\ call' = [call EXCEPT ![t].pc = AfterWrap(t, 1), ![t].k = 1]
  /\ UNCHANGED <<managerVars, domainVars>>

Wrapped(t) == Wraps[Dom(t)][call[t].k]

\* Variant for a mutation: a member of an ancestor counts as the object's own.
WrapLookKept(t) ==
  /\ At(t, "install", "wrap")
  /\ records' = [records EXCEPT ![Mgr(t)][Dom(t)][Wrapped(t)] = "kept"]
  /\ Goto(t, "apply")
  /\ UNCHANGED <<managerVars, enabled, registered, entry>>

\* wrap: the entry is owned when the __dict__ had none, and recorded.
WrapLook(t) ==
  /\ At(t, "install", "wrap")
  /\ records' = [records EXCEPT ![Mgr(t)][Dom(t)][Wrapped(t)] =
                   IF entry[Wrapped(t)] = Absent THEN "owned" ELSE "kept"]
  /\ Goto(t, "apply")
  /\ UNCHANGED <<managerVars, enabled, registered, entry>>

\* wrap_function_wrapper.
WrapApply(t) ==
  /\ At(t, "install", "apply")
  /\ entry' = [entry EXCEPT ![Wrapped(t)] = Append(Chain(Wrapped(t)), Layer(Mgr(t), Dom(t)))]
  /\ call' = [call EXCEPT ![t].pc = AfterWrap(t, call[t].k + 1), ![t].k = @ + 1]
  /\ UNCHANGED <<managerVars, enabled, registered, records>>

\* Variant for a mutation: the members wrapped before the one that fails stay.
WrapFailsAlone(t) ==
  /\ "wrap" \in Faults
  /\ At(t, "install", "apply")
  /\ records' = [records EXCEPT ![Mgr(t)][Dom(t)][Wrapped(t)] = "none"]
  /\ NextDomain(t)
  /\ UNCHANGED <<managerVars, enabled, registered, entry>>

\* The member cannot be wrapped: unwrap forgets the record and finds another
\* wrapper, or none, on top; the error sends enable to uninstall_wrappers.
WrapFails(t) ==
  /\ "wrap" \in Faults
  /\ At(t, "install", "apply")
  /\ records' = [records EXCEPT ![Mgr(t)][Dom(t)][Wrapped(t)] = "none"]
  /\ Goto(t, "clear")
  /\ UNCHANGED <<managerVars, enabled, registered, entry>>

\* register_event_handlers, the enabled flag and the entry in domain_handlers.
Register(t) ==
  /\ At(t, "install", "register")
  /\ registered' = [registered EXCEPT ![Mgr(t)] = @ \cup {Dom(t)}]
  /\ enabled' = [enabled EXCEPT ![Mgr(t)] = @ \cup {Dom(t)}]
  /\ NextDomain(t)
  /\ UNCHANGED <<managerVars, records, entry>>

\* Variant for a mutation: what was registered before the failure stays.
RegisterFailsHalf(t) ==
  /\ "register" \in Faults
  /\ At(t, "install", "register")
  /\ registered' = [registered EXCEPT ![Mgr(t)] = @ \cup {Dom(t)}]
  /\ Goto(t, "clear")
  /\ UNCHANGED <<managerVars, enabled, records, entry>>

\* register_event_handlers raises: its handlers are unregistered again.
RegisterFails(t) ==
  /\ "register" \in Faults
  /\ At(t, "install", "register")
  /\ registered' = [registered EXCEPT ![Mgr(t)] = @ \ {Dom(t)}]
  /\ Goto(t, "clear")
  /\ UNCHANGED <<managerVars, enabled, records, entry>>
-----------------------------------------------------------------------------
(* Wrapper.clear, at the end of disable and in the roll back of enable.     *)

Recorded(t) == {k \in DOMAIN Wraps[Dom(t)] : records[Mgr(t)][Dom(t)][Wraps[Dom(t)][k]] # "none"}

\* unwrap: the record is popped, then the member read.  With another wrapper on
\* top it answers False and leaves its own where it is.
ClearLook(t) ==
  /\ call[t].pc = "clear"
  /\ \E k \in Recorded(t) :
       LET x == Wraps[Dom(t)][k]
           mine == Chain(x) # <<>> /\ Last(Chain(x)) = Layer(Mgr(t), Dom(t))
       IN /\ \A j \in Recorded(t) : k <= j
          /\ records' = [records EXCEPT ![Mgr(t)][Dom(t)][x] = "none"]
          /\ IF mine
             THEN call' = [call EXCEPT
                    ![t].pc = "restore",
                    ![t].top = [member |-> x,
                                owned  |-> records[Mgr(t)][Dom(t)][x] = "owned",
                                below  |-> Front(Chain(x))]]
             ELSE UNCHANGED call
  /\ UNCHANGED <<managerVars, enabled, registered, entry>>

\* delattr when owned, else setattr of what the wrapper read before wraps.
ClearRestore(t) ==
  /\ call[t].pc = "restore"
  /\ entry' = [entry EXCEPT ![call[t].top.member] =
                 IF call[t].top.owned THEN Absent ELSE call[t].top.below]
  /\ call' = [call EXCEPT ![t].pc = "clear", ![t].top = NoTop]
  /\ UNCHANGED <<managerVars, enabled, registered, records>>

\* Ingest goes on to close its queue; the domain of a failed enable has none.
ClearEnds(t) ==
  /\ call[t].pc = "clear" /\ Recorded(t) = {}
  /\ IF call[t].mode = "uninstall" /\ Dom(t) = Ingest THEN Goto(t, "close") ELSE NextDomain(t)
  /\ UNCHANGED <<managerVars, domainVars>>
-----------------------------------------------------------------------------
(* TrackingManager.uninstall, stop and Domain.disable.                      *)

\* _instance is looked at without the lock.
BeginUninstall(t) ==
  /\ call[t] = Idle
  /\ instance # 0
  /\ call' = [call EXCEPT ![t].mode = "uninstall", ![t].pc = "lock"]
  /\ UNCHANGED <<managerVars, domainVars>>

\* The instance is taken under the lock, and stopped after its release.
TakeInstance(t) ==
  /\ At(t, "uninstall", "lock") /\ lock = NoThread
  /\ instance # 0
  /\ instance' = 0
  /\ call' = [call EXCEPT ![t].pc = "next", ![t].mgr = instance, ![t].todo = Order]
  /\ UNCHANGED <<lock, created, overlapped, domainVars>>

\* Another thread was faster: None has no stop, AttributeError.
TakeNothing(t) ==
  /\ At(t, "uninstall", "lock") /\ lock = NoThread
  /\ instance = 0
  /\ call' = [call EXCEPT ![t] = Idle]
  /\ UNCHANGED <<managerVars, domainVars>>

\* A domain that is not in domain_handlers is passed over.
BeginDisable(t) ==
  /\ At(t, "uninstall", "next") /\ call[t].todo # <<>>
  /\ enabled' = [enabled EXCEPT ![Mgr(t)] = @ \ {Dom(t)}]
  /\ registered' = [registered EXCEPT ![Mgr(t)] = @ \ {Dom(t)}]
  /\ IF Dom(t) \in enabled[Mgr(t)] THEN Goto(t, "clear") ELSE NextDomain(t)
  /\ UNCHANGED <<managerVars, records, entry>>

EndStop(t) ==
  /\ At(t, "uninstall", "next") /\ call[t].todo = <<>>
  /\ call' = [call EXCEPT ![t] = Idle]
  /\ UNCHANGED <<managerVars, domainVars>>
-----------------------------------------------------------------------------
TrackingInit ==
  /\ instance = 0 /\ lock = NoThread /\ created = 0 /\ overlapped = FALSE
  /\ enabled = [m \in Managers |-> {}]
  /\ registered = [m \in Managers |-> {}]
  /\ records = [m \in Managers |-> [d \in Domains |-> [x \in Members |-> "none"]]]
  /\ entry = [x \in Members |-> Original(x)]
  /\ call = [t \in Threads |-> Idle]

Install(t) ==
  BeginInstall(t) \/ LockInstall(t) \/ SkipDomain(t) \/ EndStart(t)

Enable(t) ==
  BeginEnable(t) \/ WrapLook(t) \/ WrapApply(t) \/ WrapFails(t) \/ Register(t) \/ RegisterFails(t)

Clear(t) == ClearLook(t) \/ ClearRestore(t) \/ ClearEnds(t)

Uninstall(t) ==
  BeginUninstall(t) \/ TakeInstance(t) \/ TakeNothing(t) \/ BeginDisable(t) \/ EndStop(t)

Manage(t) == Install(t) \/ Enable(t) \/ Clear(t) \/ Uninstall(t)
-----------------------------------------------------------------------------
Installing(m) == \E t \in Threads : call[t].mode = "install" /\ Mgr(t) = m

LayersOf(m, d, x) == {i \in DOMAIN Chain(x) : Chain(x)[i] = Layer(m, d)}

\* While a manager is the instance, each of its domains is wholly there or not
\* at all: enabled with one wrapper on each of its members and its handlers, or
\* failed with no wrapper, no record and no handler (the "atomic operation" of
\* Domain.enable).  A manager that overlapped with the stop of another may lose
\* wrappers, see the README.
EnabledMeansInstalled ==
  (instance # 0 /\ ~overlapped) =>
    \A d \in Domains :
      LET members == IF d \in enabled[instance] THEN ToSet(Wraps[d]) ELSE {}
      IN /\ d \in registered[instance] <=> d \in enabled[instance]
         /\ \A x \in Members :
              /\ Cardinality(LayersOf(instance, d, x)) = IF x \in members THEN 1 ELSE 0
              /\ records[instance][d][x] # "none" <=> x \in members

Quiet == instance = 0 /\ \A t \in Threads : call[t] = Idle

SharedBy(x) == {d \in Domains : x \in ToSet(Wraps[d])}

\* Does d come before e in the order in which domains are started and stopped?
Before(d, e) ==
  \E i, j \in DOMAIN Order : i < j /\ Order[i] = d /\ Order[j] = e

\* When all is uninstalled, a member that one domain wraps is what it was, owned
\* entries gone and the original in place (wrapper.py:147-151); on a member that
\* several wrap only wrappers of those stopped before another may be left, for
\* domains stop in the order they started in.
UninstallRestores ==
  (Quiet /\ ~overlapped) =>
    \A x \in Members :
      /\ Cardinality(SharedBy(x)) <= 1 => entry[x] = Original(x)
      /\ \A i \in DOMAIN Chain(x) : \E e \in SharedBy(x) : Before(Chain(x)[i].dom, e)
=============================================================================
