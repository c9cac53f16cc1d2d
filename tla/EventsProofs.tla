---------------------------- MODULE EventsProofs ----------------------------
(***************************************************************************)
(* Theorems about TrackingManager and Events, for any number of threads,   *)
(* domains, members, managers and queues.                                  *)
(***************************************************************************)
EXTENDS Events, FiniteSetTheorems, TLAPS

Modes == {"none", "install", "uninstall"}

Places ==
  {"idle", "lock", "next", "wrap", "apply", "register", "clear", "restore", "close", "unset"}

Tops == [member : Members \cup {Absent}, owned : BOOLEAN, below : Seq(Layers)]

Calls == [mode : Modes, pc : Places, mgr : 0..MaxInstalls, todo : Seq(Domains), k : Nat, top : Tops]

CallTypes == call \in [Threads -> Calls]

\* A thread is inside start or stop of a manager.
Busy(t) == call[t].pc \notin {"idle", "lock"}

\* The todo of a thread is a rest of Order.
RestOfOrder(todo) ==
  /\ Len(todo) <= Len(Order)
  /\ \A i \in 1..Len(todo) : todo[i] = Order[Len(Order) - Len(todo) + i]

\* The places that belong to a call, and what a thread knows there.
Located(t) ==
  /\ call[t].pc = "idle" => call[t] = Idle
  /\ call[t].pc = "lock" => call[t].mgr = 0
  /\ call[t].mode = "none" => call[t].pc = "idle"
  /\ call[t].mode = "install" => call[t].pc \notin {"idle", "close", "unset"}
  /\ call[t].mode = "uninstall" => call[t].pc \notin {"idle", "wrap", "apply", "register"}
  /\ Busy(t) => RestOfOrder(call[t].todo)
  /\ call[t].pc \notin {"idle", "lock", "next"} => call[t].todo # <<>>
  /\ call[t].pc \in {"wrap", "apply"} => call[t].k \in 1..Len(Wraps[Dom(t)])
  /\ call[t].pc = "register" => call[t].k = Len(Wraps[Dom(t)]) + 1

\* The lock is that of the thread that starts a manager, which is not the instance yet.
LockOK ==
  /\ \A t \in Threads : lock = t <=> call[t].mode = "install" /\ Busy(t)
  /\ lock # NoThread => instance = 0
  /\ instance \in {0, created}

\* A manager is started or stopped by one thread, while it is not the instance.
OwnerOK ==
  /\ \A t \in Threads : Busy(t) =>
       /\ call[t].mgr \in 1..created /\ call[t].mgr # instance
       /\ call[t].mode = "install" => call[t].mgr = created
  /\ \A t, u \in Threads : Busy(t) /\ Busy(u) /\ call[t].mgr = call[u].mgr => t = u

\* Without an overlap one thread works at a time, on the last manager.
SoloOK ==
  ~overlapped =>
    \A t \in Threads : Busy(t) =>
      /\ instance = 0 /\ call[t].mgr = created
      /\ \A u \in Threads : Busy(u) => t = u

\* Domains are enabled in the order of todo and disabled in the same order.
EnabledFor(t) ==
  /\ call[t].mode = "install" => enabled[call[t].mgr] \cap ToSet(call[t].todo) = {}
  /\ call[t].mode = "uninstall" => enabled[call[t].mgr] \subseteq ToSet(call[t].todo)
  /\ call[t].pc # "next" => Dom(t) \notin enabled[call[t].mgr]

\* Handlers are registered for the enabled domains, which a manager has as the
\* instance or while a thread starts or stops it.
EnabledOK ==
  /\ \A m \in Managers :
       /\ registered[m] = enabled[m]
       /\ enabled[m] \subseteq ToSet(Order)
       /\ enabled[m] # {} => m = instance \/ \E t \in Threads : Busy(t) /\ call[t].mgr = m
       /\ m > created => enabled[m] = {}
  /\ \A t \in Threads : Busy(t) => EnabledFor(t)

ManageTypes ==
  /\ CallTypes
  /\ created \in 0..MaxInstalls
  /\ lock \in Threads \cup {NoThread}
  /\ enabled \in [Managers -> SUBSET Domains]
  /\ registered \in [Managers -> SUBSET Domains]
  /\ overlapped \in BOOLEAN

ManageInv ==
  /\ ManageTypes
  /\ \A t \in Threads : Located(t)
  /\ LockOK
  /\ OwnerOK
  /\ SoloOK
  /\ EnabledOK

\* What a step of t leaves alone of the others' calls.
OthersKept(t) == \A u \in Threads \ {t} : call'[u] = call[u]

\* Idle is a call.
LEMMA IdleCall == Idle \in Calls
<1>1. MaxInstalls \in Nat
  BY ManagerAssumption
<1>2. 0 \in 0..MaxInstalls /\ <<>> \in Seq(Domains) /\ NoTop \in Tops
  BY <1>1 DEF NoTop, Tops
<1> QED
  BY <1>2 DEF Idle, Calls, Modes, Places

\* The whole record of a thread is replaced.
LEMMA CallReplaced ==
  ASSUME CallTypes, NEW t \in Threads, NEW c \in Calls, call' = [call EXCEPT ![t] = c]
  PROVE  CallTypes' /\ call'[t] = c /\ OthersKept(t)
  BY DEF CallTypes, OthersKept

\* The effect of Goto.
LEMMA GotoEffect ==
  ASSUME CallTypes, NEW t \in Threads, NEW p \in Places, Goto(t, p)
  PROVE  /\ CallTypes' /\ OthersKept(t)
         /\ call'[t].mode = call[t].mode /\ call'[t].pc = p /\ call'[t].mgr = call[t].mgr
         /\ call'[t].todo = call[t].todo /\ call'[t].k = call[t].k /\ call'[t].top = call[t].top
  BY DEF CallTypes, OthersKept, Goto, Calls

\* The effect of NextDomain.
LEMMA NextDomainEffect ==
  ASSUME CallTypes, NEW t \in Threads, call[t].todo # <<>>, NextDomain(t)
  PROVE  /\ CallTypes' /\ OthersKept(t)
         /\ call'[t].mode = call[t].mode /\ call'[t].pc = "next" /\ call'[t].mgr = call[t].mgr
         /\ call'[t].todo = Tail(call[t].todo)
<1>1. call[t] \in Calls /\ Tail(call[t].todo) \in Seq(Domains)
  BY DEF CallTypes, Calls
<1>2. NoTop \in Tops
  BY DEF NoTop, Tops
<1> QED
  BY <1>1, <1>2 DEF CallTypes, OthersKept, NextDomain, Calls, Places

\* A thread goes on to the next domain of a rest of Order.
LEMMA RestTail ==
  ASSUME NEW todo \in Seq(Domains), todo # <<>>, RestOfOrder(todo)
  PROVE  /\ Tail(todo) \in Seq(Domains) /\ RestOfOrder(Tail(todo))
         /\ ToSet(todo) = {Head(todo)} \cup ToSet(Tail(todo))
         /\ Head(todo) \notin ToSet(Tail(todo))
         /\ Head(todo) \in Domains /\ Head(todo) \in ToSet(Order)
<1>1. /\ Order \in Seq(Domains) /\ IsInjective(Order)
      /\ Len(Order) \in Nat /\ DOMAIN Order = 1..Len(Order)
  BY ManagerAssumption
<1>2. /\ Len(todo) \in Nat \ {0} /\ DOMAIN todo = 1..Len(todo) /\ Head(todo) = todo[1]
      /\ Tail(todo) \in Seq(Domains) /\ Len(Tail(todo)) = Len(todo) - 1
      /\ DOMAIN Tail(todo) = 1..(Len(todo) - 1)
      /\ \A i \in 1..(Len(todo) - 1) : Tail(todo)[i] = todo[i + 1]
      /\ Head(todo) \in Domains
  OBVIOUS
<1>3. \A i \in 1..Len(todo) : todo[i] = Order[Len(Order) - Len(todo) + i]
  BY DEF RestOfOrder
<1>4. Len(todo) <= Len(Order)
  BY DEF RestOfOrder
<1>5. RestOfOrder(Tail(todo))
  <2>1. ASSUME NEW i \in 1..(Len(todo) - 1)
        PROVE  Tail(todo)[i] = Order[Len(Order) - (Len(todo) - 1) + i]
    <3>1. i + 1 \in 1..Len(todo) /\ Tail(todo)[i] = todo[i + 1]
      BY <1>2
    <3>2. Len(Order) - Len(todo) + (i + 1) = Len(Order) - (Len(todo) - 1) + i
      BY <1>1, <1>2
    <3> QED
      BY <1>3, <3>1, <3>2
  <2> QED
    BY <1>1, <1>2, <1>4, <2>1 DEF RestOfOrder
<1>6. ToSet(todo) = {Head(todo)} \cup ToSet(Tail(todo))
  <2>1. ASSUME NEW i \in 1..Len(todo) PROVE todo[i] \in {Head(todo)} \cup ToSet(Tail(todo))
    <3>1. CASE i = 1
      BY <1>2, <3>1
    <3>2. CASE i # 1
      <4>1. i - 1 \in 1..(Len(todo) - 1) /\ (i - 1) + 1 = i
        BY <1>2, <3>2
      <4> QED
        BY <1>2, <4>1 DEF ToSet
    <3> QED
      BY <3>1, <3>2
  <2>2. ASSUME NEW i \in 1..(Len(todo) - 1) PROVE Tail(todo)[i] \in ToSet(todo)
    <3>1. i + 1 \in 1..Len(todo)
      BY <1>2
    <3> QED
      BY <1>2, <3>1 DEF ToSet
  <2>3. Head(todo) \in ToSet(todo)
    BY <1>2 DEF ToSet
  <2> QED
    BY <1>2, <2>1, <2>2, <2>3 DEF ToSet
<1>7. Head(todo) \notin ToSet(Tail(todo))
  <2> SUFFICES ASSUME NEW i \in 1..(Len(todo) - 1), Tail(todo)[i] = Head(todo) PROVE FALSE
    BY <1>2 DEF ToSet
  <2>1. i + 1 \in 1..Len(todo) /\ 1 \in 1..Len(todo)
    BY <1>2
  <2>2. Order[Len(Order) - Len(todo) + (i + 1)] = Order[Len(Order) - Len(todo) + 1]
    BY <1>2, <1>3, <2>1
  <2>3. /\ Len(Order) - Len(todo) + (i + 1) \in 1..Len(Order)
        /\ Len(Order) - Len(todo) + 1 \in 1..Len(Order)
        /\ Len(Order) - Len(todo) + (i + 1) # Len(Order) - Len(todo) + 1
    BY <1>1, <1>2, <1>4
  <2> QED
    BY <1>1, <2>2, <2>3 DEF IsInjective
<1>8. Head(todo) \in ToSet(Order)
  <2>1. Len(Order) - Len(todo) + 1 \in 1..Len(Order) /\ 1 \in 1..Len(todo)
    BY <1>1, <1>2, <1>4
  <2>2. Head(todo) = Order[Len(Order) - Len(todo) + 1]
    BY <1>2, <1>3, <2>1
  <2> QED
    BY <1>1, <2>1, <2>2 DEF ToSet
<1> QED
  BY <1>2, <1>5, <1>6, <1>7, <1>8

\* A step of a busy thread on the domain it is at.
LEMMA Worked ==
  ASSUME ManageInv, NEW t \in Threads, Busy(t), Busy(t)', CallTypes', OthersKept(t),
         call'[t].mode = call[t].mode, call'[t].mgr = call[t].mgr, Located(t)',
         instance' = instance, lock' = lock, created' = created, overlapped' = overlapped,
         enabled' \in [Managers -> SUBSET Domains], registered' = enabled',
         \A m \in Managers \ {call[t].mgr} : enabled'[m] = enabled[m],
         enabled'[call[t].mgr] \subseteq ToSet(Order),
         EnabledFor(t)'
  PROVE  ManageInv'
<1> USE DEF ManageInv
<1>1. ManageTypes'
  BY DEF ManageTypes
<1>2. \A u \in Threads : /\ Busy(u)' <=> Busy(u)
                         /\ call'[u].mode = call[u].mode /\ call'[u].mgr = call[u].mgr
  BY DEF Busy, OthersKept
<1>3. \A u \in Threads : Located(u)'
  <2>1. ASSUME NEW u \in Threads, u # t PROVE Located(u)'
    <3>1. call'[u] = call[u] /\ Located(u)
      BY <2>1 DEF OthersKept
    <3> QED
      BY <3>1 DEF Located, Busy, Dom, RestOfOrder
  <2> QED
    BY <2>1
<1>4. LockOK' /\ OwnerOK' /\ SoloOK'
  BY <1>2 DEF LockOK, OwnerOK, SoloOK
<1>5. call[t].mgr \in Managers /\ call[t].mgr <= created
  <2>1. created \in Nat /\ MaxInstalls \in Nat /\ created <= MaxInstalls
    BY ManagerAssumption DEF ManageTypes
  <2> QED
    BY <2>1 DEF OwnerOK, Managers
<1>6. ASSUME NEW m \in Managers
      PROVE  /\ enabled'[m] \subseteq ToSet(Order)
             /\ enabled'[m] # {} => m = instance' \/ \E u \in Threads : Busy(u)' /\ call'[u].mgr = m
             /\ m > created' => enabled'[m] = {}
  <2>1. CASE m = call[t].mgr
    <3>1. ~(m > created)
      BY <1>5, <2>1, ManagerAssumption DEF ManageTypes, Managers
    <3> QED
      BY <1>2, <2>1, <3>1
  <2>2. CASE m # call[t].mgr
    BY <1>2, <2>2 DEF EnabledOK
  <2> QED
    BY <2>1, <2>2
<1>7. ASSUME NEW u \in Threads, Busy(u), u # t PROVE EnabledFor(u)'
  <2>1. call[u].mgr \in Managers /\ call[u].mgr # call[t].mgr /\ call'[u] = call[u]
    <3>1. created \in Nat /\ MaxInstalls \in Nat /\ created <= MaxInstalls
      BY ManagerAssumption DEF ManageTypes
    <3> QED
      BY <1>7, <3>1 DEF OwnerOK, Managers, OthersKept
  <2> QED
    BY <1>7, <2>1 DEF EnabledOK, EnabledFor, Dom
<1>8. EnabledOK'
  BY <1>2, <1>6, <1>7 DEF EnabledOK
<1> QED
  BY <1>1, <1>3, <1>4, <1>8

\* A busy thread goes on to the next domain.
LEMMA PassedDomain ==
  ASSUME ManageInv, NEW t \in Threads, Busy(t), call[t].todo # <<>>, NextDomain(t),
         instance' = instance, lock' = lock, created' = created, overlapped' = overlapped,
         enabled' \in [Managers -> SUBSET Domains], registered' = enabled',
         \A m \in Managers \ {call[t].mgr} : enabled'[m] = enabled[m],
         call[t].mode = "install" => enabled'[call[t].mgr] \subseteq enabled[call[t].mgr] \cup {Dom(t)},
         call[t].mode = "uninstall" => enabled'[call[t].mgr] \subseteq enabled[call[t].mgr] \ {Dom(t)}
  PROVE  ManageInv' /\ CallTypes' /\ OthersKept(t) /\ call'[t].pc = "next"
         /\ call'[t].mode = call[t].mode /\ call'[t].mgr = call[t].mgr
<1> USE DEF ManageInv
<1>1. /\ CallTypes' /\ OthersKept(t)
      /\ call'[t].mode = call[t].mode /\ call'[t].pc = "next" /\ call'[t].mgr = call[t].mgr
      /\ call'[t].todo = Tail(call[t].todo)
  BY NextDomainEffect DEF ManageTypes
<1>2. call[t].todo \in Seq(Domains) /\ RestOfOrder(call[t].todo)
  BY DEF ManageTypes, CallTypes, Calls, Located
<1>3. /\ RestOfOrder(Tail(call[t].todo))
      /\ ToSet(call[t].todo) = {Dom(t)} \cup ToSet(Tail(call[t].todo))
      /\ Dom(t) \notin ToSet(Tail(call[t].todo))
      /\ Dom(t) \in ToSet(Order)
  BY <1>2, RestTail DEF Dom
<1>4. call[t].mode \in {"install", "uninstall"}
  BY <1>2 DEF Located, Busy, ManageTypes, CallTypes, Calls, Modes
<1>5. Located(t)' /\ Busy(t)'
  <2>1. RestOfOrder(call'[t].todo)
    BY <1>1, <1>3
  <2>2. RestOfOrder(call[t].todo)'
    BY <2>1 DEF RestOfOrder
  <2> QED
    BY <1>1, <1>4, <2>2 DEF Located, Busy
<1>6. EnabledFor(t) /\ enabled[call[t].mgr] \subseteq ToSet(Order)
  <2>1. call[t].mgr \in Managers
    BY ManagerAssumption DEF OwnerOK, Managers, ManageTypes
  <2> QED
    BY <2>1 DEF EnabledOK
<1>7. EnabledFor(t)'
  <2> DEFINE E == enabled[call[t].mgr]
             F == enabled'[call[t].mgr]
             rest == ToSet(Tail(call[t].todo))
  <2>1. call[t].mode = "install" => F \cap rest = {}
    BY <1>3, <1>6 DEF EnabledFor
  <2>2. call[t].mode = "uninstall" => F \subseteq rest
    BY <1>3, <1>6 DEF EnabledFor
  <2>3. (enabled[call[t].mgr])' = F /\ ToSet(call[t].todo)' = rest
    BY <1>1 DEF ToSet
  <2> HIDE DEF F, rest
  <2> QED
    BY <1>1, <2>1, <2>2, <2>3 DEF EnabledFor
<1>8. enabled'[call[t].mgr] \subseteq ToSet(Order)
  BY <1>3, <1>4, <1>6
<1> QED
  BY <1>1, <1>5, <1>7, <1>8, Worked

\* A busy thread stays at its domain, which is not enabled afterwards.
LEMMA StayedAtDomain ==
  ASSUME ManageInv, NEW t \in Threads, Busy(t), Busy(t)', CallTypes', OthersKept(t),
         call'[t].mode = call[t].mode, call'[t].mgr = call[t].mgr, call'[t].todo = call[t].todo,
         Located(t)',
         instance' = instance, lock' = lock, created' = created, overlapped' = overlapped,
         enabled' \in [Managers -> SUBSET Domains], registered' = enabled',
         \A m \in Managers \ {call[t].mgr} : enabled'[m] = enabled[m],
         enabled'[call[t].mgr] \subseteq enabled[call[t].mgr],
         Dom(t) \notin enabled'[call[t].mgr]
  PROVE  ManageInv'
<1> USE DEF ManageInv
<1>1. EnabledFor(t) /\ enabled[call[t].mgr] \subseteq ToSet(Order)
  <2>1. call[t].mgr \in Managers
    BY ManagerAssumption DEF OwnerOK, Managers, ManageTypes
  <2> QED
    BY <2>1 DEF EnabledOK
<1>2. EnabledFor(t)'
  BY <1>1 DEF EnabledFor, ToSet, Dom
<1> QED
  BY <1>1, <1>2, Worked

\* A thread leaves a call that holds nothing.
LEMMA Rested ==
  ASSUME ManageInv, NEW t \in Threads, ~Busy(t)', CallTypes', OthersKept(t), Located(t)',
         lock # t, Busy(t) => enabled[call[t].mgr] = {},
         instance' = instance, lock' = lock, created' = created, overlapped' = overlapped,
         enabled' = enabled, registered' = registered
  PROVE  ManageInv'
<1> USE DEF ManageInv
<1>1. ManageTypes'
  BY DEF ManageTypes
<1>2. ASSUME NEW u \in Threads, u # t
      PROVE /\ Busy(u)' <=> Busy(u)
            /\ call'[u] = call[u] /\ Located(u)' /\ (Busy(u) => EnabledFor(u)')
  <2>1. call'[u] = call[u] /\ Located(u)
    BY <1>2 DEF OthersKept
  <2>2. Busy(u) => EnabledFor(u)
    BY DEF EnabledOK
  <2> QED
    BY <2>1, <2>2 DEF Located, Busy, Dom, RestOfOrder, EnabledFor
<1>3. LockOK' /\ OwnerOK' /\ SoloOK'
  BY <1>2 DEF LockOK, OwnerOK, SoloOK
<1>4. EnabledOK'
  <2>1. ASSUME NEW m \in Managers, enabled[m] # {}
        PROVE  m = instance' \/ \E u \in Threads : Busy(u)' /\ call'[u].mgr = m
    <3>1. CASE m = instance
      BY <3>1
    <3>2. ASSUME NEW u \in Threads, Busy(u), call[u].mgr = m
          PROVE  u # t /\ Busy(u)' /\ call'[u].mgr = m
      BY <1>2, <2>1, <3>2
    <3> QED
      BY <2>1, <3>1, <3>2 DEF EnabledOK
  <2> QED
    BY <1>2, <2>1 DEF EnabledOK
<1> QED
  BY <1>1, <1>2, <1>3, <1>4

\* No manager has been created.
LEMMA ManageInit == Init => ManageInv
<1> SUFFICES ASSUME Init PROVE ManageInv
  OBVIOUS
<1>1. ManageTypes
  <2>1. 0 \in 0..MaxInstalls
    BY ManagerAssumption
  <2>2. CallTypes
    BY IdleCall DEF Init, TrackingInit, CallTypes
  <2>3. enabled \in [Managers -> SUBSET Domains] /\ registered \in [Managers -> SUBSET Domains]
    BY DEF Init, TrackingInit
  <2> QED
    BY <2>1, <2>2, <2>3 DEF Init, TrackingInit, ManageTypes
<1>2. \A t \in Threads : call[t] = Idle /\ Located(t) /\ ~Busy(t)
  BY DEF Init, TrackingInit, Idle, Located, Busy
<1>3. LockOK /\ OwnerOK /\ SoloOK
  BY <1>2, ManagerAssumption DEF Init, TrackingInit, LockOK, OwnerOK, SoloOK
<1>4. EnabledOK
  BY <1>2 DEF Init, TrackingInit, EnabledOK
<1> QED
  BY <1>1, <1>2, <1>3, <1>4 DEF ManageInv

\* start takes the lock and a new manager.
LEMMA StartKept ==
  ASSUME ManageInv, NEW t \in Threads, At(t, "install", "lock"), lock = NoThread,
         instance = 0, StartManager(t)
  PROVE  /\ ManageInv' /\ OthersKept(t) /\ CallTypes'
         /\ call'[t].mode = "install" /\ call'[t].pc = "next" /\ call'[t].mgr = created + 1
<1> USE DEF ManageInv
<1>1. /\ created \in Nat /\ MaxInstalls \in Nat /\ created + 1 \in 1..MaxInstalls
      /\ Order \in Seq(Domains)
  BY ManagerAssumption DEF StartManager, ManageTypes
<1>2. /\ CallTypes' /\ OthersKept(t)
      /\ call'[t].mode = "install" /\ call'[t].pc = "next" /\ call'[t].mgr = created + 1
      /\ call'[t].todo = Order
  <2>1. created + 1 \in 0..MaxInstalls /\ "next" \in Places /\ call \in [Threads -> Calls]
    BY <1>1 DEF ManageTypes, CallTypes, Places
  <2>2. call' = [call EXCEPT ![t].pc = "next", ![t].mgr = created + 1, ![t].todo = Order]
    BY DEF StartManager
  <2>3. CallTypes' /\ OthersKept(t)
    BY <1>1, <2>1, <2>2 DEF Calls, CallTypes, OthersKept
  <2> QED
    BY <2>1, <2>2, <2>3 DEF Calls, At
<1>3. /\ instance' = 0 /\ created' = created + 1 /\ lock' = t
      /\ enabled' = enabled /\ registered' = registered
      /\ overlapped' = (overlapped \/ \E u \in Threads : Stopping(u))
  BY DEF StartManager, domainVars
<1>4. ManageTypes'
  BY <1>1, <1>2, <1>3 DEF ManageTypes
<1>5. ASSUME NEW u \in Threads, u # t
      PROVE  call'[u] = call[u] /\ Located(u)' /\ (Busy(u)' <=> Busy(u))
  <2>1. call'[u] = call[u] /\ Located(u)
    BY <1>2, <1>5 DEF OthersKept
  <2> QED
    BY <2>1 DEF Located, Busy, Dom, RestOfOrder
<1>6. Located(t)' /\ Busy(t)'
  <2>1. RestOfOrder(call'[t].todo)
    BY <1>1, <1>2 DEF RestOfOrder
  <2>2. RestOfOrder(call[t].todo)'
    BY <2>1 DEF RestOfOrder
  <2> QED
    BY <1>2, <2>2 DEF Located, Busy
<1>7. \A u \in Threads : Busy(u) => call[u].mode = "uninstall" /\ u # t
  BY ManagerAssumption DEF LockOK, At, Busy, Located, ManageTypes, CallTypes, Calls, Modes
<1>8. LockOK'
  BY <1>2, <1>3, <1>5, <1>6, <1>7, ManagerAssumption DEF LockOK
<1>9. OwnerOK'
  <2>1. \A u \in Threads : Busy(u) => call[u].mgr \in 1..created
    BY DEF OwnerOK
  <2>2. \A u \in Threads : Busy(u) => call[u].mgr \in 1..(created + 1) /\ call[u].mgr # created + 1
    BY <1>1, <2>1
  <2>3. created + 1 \in 1..(created + 1) /\ created + 1 # 0
    BY <1>1
  <2>4. ASSUME NEW u \in Threads, Busy(u)'
        PROVE  /\ call'[u].mgr \in 1..created' /\ call'[u].mgr # instance'
               /\ call'[u].mode = "install" => call'[u].mgr = created'
    <3>1. CASE u = t
      BY <1>2, <1>3, <2>3, <3>1
    <3>2. CASE u # t
      <4>1. call'[u] = call[u] /\ Busy(u) /\ call[u].mode = "uninstall"
        BY <1>5, <1>7, <2>4, <3>2
      <4>2. call[u].mgr \in 1..(created + 1) /\ call[u].mgr # 0
        BY <1>1, <2>1, <2>2, <4>1
      <4> QED
        BY <1>3, <4>1, <4>2
    <3> QED
      BY <3>1, <3>2
  <2>5. ASSUME NEW u \in Threads, NEW v \in Threads, Busy(u)', Busy(v)', call'[u].mgr = call'[v].mgr
        PROVE  u = v
    <3>1. CASE u = t /\ v # t
      BY <1>2, <1>5, <2>2, <2>5, <3>1
    <3>2. CASE u # t /\ v = t
      BY <1>2, <1>5, <2>2, <2>5, <3>2
    <3>3. CASE u # t /\ v # t
      <4>1. Busy(u) /\ Busy(v) /\ call[u].mgr = call[v].mgr
        BY <1>5, <2>5, <3>3
      <4> QED
        BY <4>1 DEF OwnerOK
    <3> QED
      BY <3>1, <3>2, <3>3
  <2> QED
    BY <2>4, <2>5 DEF OwnerOK
<1>10. SoloOK'
  <2>1. ASSUME ~overlapped' PROVE \A u \in Threads : ~Busy(u)
    BY <1>3, <1>7, <2>1 DEF Stopping, Busy
  <2>2. ASSUME ~overlapped', NEW u \in Threads, Busy(u)' PROVE u = t
    BY <1>5, <2>1, <2>2
  <2> QED
    BY <1>2, <1>3, <2>2 DEF SoloOK
<1>11. EnabledOK'
  <2>1. ASSUME NEW m \in Managers
        PROVE  /\ enabled[m] # {} => m = instance' \/ \E u \in Threads : Busy(u)' /\ call'[u].mgr = m
               /\ m > created' => enabled[m] = {}
    <3>1. ASSUME enabled[m] # {} PROVE \E u \in Threads : Busy(u) /\ call[u].mgr = m
      <4>1. m # instance
        BY <1>1 DEF Managers
      <4> QED
        BY <3>1, <4>1 DEF EnabledOK
    <3>2. m > created + 1 => m > created
      BY <1>1 DEF Managers
    <3> QED
      BY <1>3, <1>5, <1>7, <3>1, <3>2 DEF EnabledOK
  <2>2. enabled[created + 1] = {}
    <3>1. created + 1 \in Managers /\ created + 1 > created
      BY <1>1 DEF Managers
    <3> QED
      BY <3>1 DEF EnabledOK
  <2>3. EnabledFor(t)'
    BY <1>2, <1>3, <2>2 DEF EnabledFor
  <2>4. ASSUME NEW u \in Threads, Busy(u)', u # t PROVE EnabledFor(u)'
    <3>1. EnabledFor(u) /\ call'[u] = call[u]
      BY <1>5, <2>4 DEF EnabledOK
    <3> QED
      BY <1>3, <3>1 DEF EnabledFor, Dom
  <2> QED
    BY <1>3, <2>1, <2>3, <2>4 DEF EnabledOK
<1> QED
  BY <1>2, <1>4, <1>5, <1>6, <1>8, <1>9, <1>10, <1>11

\* start ends: the manager becomes the instance, the lock is free.
LEMMA StartEnds ==
  ASSUME ManageInv, NEW t \in Threads, EndStart(t)
  PROVE  ManageInv' /\ OthersKept(t) /\ call'[t] = Idle
<1> USE DEF ManageInv
<1>1. /\ call[t].mode = "install" /\ call[t].pc = "next" /\ call[t].todo = <<>>
      /\ instance' = call[t].mgr /\ lock' = NoThread /\ created' = created
      /\ overlapped' = overlapped /\ enabled' = enabled /\ registered' = registered
  BY DEF EndStart, At, Mgr, domainVars
<1>2. CallTypes' /\ call'[t] = Idle /\ OthersKept(t)
  BY IdleCall, CallReplaced DEF EndStart, ManageTypes
<1>3. Busy(t) /\ lock = t /\ instance = 0 /\ call[t].mgr = created /\ created # 0
  BY <1>1, ManagerAssumption DEF Busy, LockOK, OwnerOK
<1>4. ManageTypes'
  BY <1>1, <1>2 DEF ManageTypes
<1>5. ASSUME NEW u \in Threads, u # t
      PROVE  call'[u] = call[u] /\ Located(u)' /\ (Busy(u)' <=> Busy(u))
  <2>1. call'[u] = call[u] /\ Located(u)
    BY <1>2, <1>5 DEF OthersKept
  <2> QED
    BY <2>1 DEF Located, Busy, Dom, RestOfOrder
<1>6. Located(t)' /\ ~Busy(t)'
  BY <1>2 DEF Located, Busy, Idle
<1>7. LockOK'
  <2>1. \A u \in Threads : u # t => ~(call[u].mode = "install" /\ Busy(u))
    BY <1>3 DEF LockOK
  <2> QED
    BY <1>1, <1>3, <1>5, <1>6, <2>1, ManagerAssumption DEF LockOK
<1>8. OwnerOK'
  <2>1. ASSUME NEW u \in Threads, Busy(u)' PROVE u # t /\ Busy(u) /\ call[u].mgr # created
    BY <1>3, <1>5, <1>6, <2>1 DEF OwnerOK
  <2> QED
    BY <1>1, <1>3, <1>5, <2>1 DEF OwnerOK
<1>9. SoloOK'
  <2>1. ASSUME ~overlapped', NEW u \in Threads PROVE ~Busy(u)'
    BY <1>1, <1>3, <1>5, <1>6, <2>1 DEF SoloOK
  <2> QED
    BY <2>1 DEF SoloOK
<1>10. EnabledOK'
  <2>1. ASSUME NEW m \in Managers, enabled[m] # {}
        PROVE  m = instance' \/ \E u \in Threads : Busy(u)' /\ call'[u].mgr = m
    <3>1. m # 0
      BY ManagerAssumption DEF Managers
    <3>2. ASSUME NEW u \in Threads, Busy(u), call[u].mgr = m, u # t
          PROVE  Busy(u)' /\ call'[u].mgr = m
      BY <1>5, <3>2
    <3> QED
      BY <1>1, <1>3, <2>1, <3>1, <3>2 DEF EnabledOK
  <2>2. ASSUME NEW u \in Threads, Busy(u)' PROVE EnabledFor(u)'
    <3>1. EnabledFor(u) /\ call'[u] = call[u]
      BY <1>5, <1>6, <2>2 DEF EnabledOK
    <3> QED
      BY <1>1, <3>1 DEF EnabledFor, Dom
  <2> QED
    BY <1>1, <2>1, <2>2 DEF EnabledOK
<1> QED
  BY <1>2, <1>4, <1>5, <1>6, <1>7, <1>8, <1>9, <1>10

\* uninstall takes the instance, which nobody else starts or stops.
LEMMA TakeKept ==
  ASSUME ManageInv, NEW t \in Threads, TakeInstance(t)
  PROVE  /\ ManageInv' /\ OthersKept(t) /\ CallTypes' /\ instance = created
         /\ call'[t].mode = "uninstall" /\ call'[t].pc = "next" /\ call'[t].mgr = instance
<1> USE DEF ManageInv
<1>1. /\ call[t].mode = "uninstall" /\ call[t].pc = "lock" /\ lock = NoThread
      /\ instance = created /\ instance # 0 /\ instance' = 0
      /\ lock' = lock /\ created' = created
      /\ overlapped' = overlapped /\ enabled' = enabled /\ registered' = registered
  BY DEF TakeInstance, At, domainVars, LockOK
<1>2. /\ CallTypes' /\ OthersKept(t)
      /\ call'[t].mode = "uninstall" /\ call'[t].pc = "next" /\ call'[t].mgr = instance
      /\ call'[t].todo = Order
  <2>1. /\ instance \in 0..MaxInstalls /\ Order \in Seq(Domains)
        /\ "next" \in Places /\ call \in [Threads -> Calls]
    BY <1>1, ManagerAssumption DEF ManageTypes, CallTypes, Places
  <2>2. call' = [call EXCEPT ![t].pc = "next", ![t].mgr = instance, ![t].todo = Order]
    BY DEF TakeInstance
  <2>3. CallTypes' /\ OthersKept(t)
    BY <2>1, <2>2 DEF Calls, CallTypes, OthersKept
  <2> QED
    BY <1>1, <2>1, <2>2, <2>3 DEF Calls
<1>3. ManageTypes'
  BY <1>1, <1>2 DEF ManageTypes
<1>4. ASSUME NEW u \in Threads, u # t
      PROVE  call'[u] = call[u] /\ Located(u)' /\ (Busy(u)' <=> Busy(u))
  <2>1. call'[u] = call[u] /\ Located(u)
    BY <1>2, <1>4 DEF OthersKept
  <2> QED
    BY <2>1 DEF Located, Busy, Dom, RestOfOrder
<1>5. Located(t)' /\ Busy(t)' /\ ~Busy(t)
  <2>1. RestOfOrder(call'[t].todo)
    BY <1>2, ManagerAssumption DEF RestOfOrder
  <2>2. RestOfOrder(call[t].todo)'
    BY <2>1 DEF RestOfOrder
  <2> QED
    BY <1>1, <1>2, <2>2 DEF Located, Busy
<1>6. LockOK'
  BY <1>1, <1>2, <1>4, <1>5, ManagerAssumption DEF LockOK
<1>7. OwnerOK'
  <2>1. \A u \in Threads : Busy(u) => /\ call[u].mgr \in 1..created /\ call[u].mgr # instance
                                     /\ call[u].mgr # 0 /\ call[u].mode # "install"
    BY <1>1, ManagerAssumption DEF OwnerOK, LockOK
  <2>2. instance \in 1..created
    BY <1>1 DEF ManageTypes
  <2> QED
    BY <1>1, <1>2, <1>4, <1>5, <2>1, <2>2 DEF OwnerOK
<1>8. SoloOK'
  <2>1. ASSUME ~overlapped', NEW u \in Threads PROVE ~Busy(u)
    BY <1>1, <2>1 DEF SoloOK
  <2>2. ASSUME ~overlapped', NEW u \in Threads, Busy(u)' PROVE u = t
    BY <1>4, <2>1, <2>2
  <2> QED
    BY <1>1, <1>2, <2>2 DEF SoloOK
<1>9. EnabledOK'
  <2>1. ASSUME NEW m \in Managers, enabled[m] # {}
        PROVE  m = instance' \/ \E u \in Threads : Busy(u)' /\ call'[u].mgr = m
    <3>1. CASE m = instance
      BY <1>2, <1>5, <3>1
    <3>2. ASSUME NEW u \in Threads, Busy(u), call[u].mgr = m
          PROVE  Busy(u)' /\ call'[u].mgr = m
      BY <1>4, <1>5, <3>2
    <3> QED
      BY <2>1, <3>1, <3>2 DEF EnabledOK
  <2>2. EnabledFor(t)'
    <3>1. enabled[instance] \subseteq ToSet(Order)
      BY <1>1 DEF EnabledOK, ManageTypes, Managers
    <3>2. (enabled[call[t].mgr])' = enabled[instance] /\ ToSet(call[t].todo)' = ToSet(Order)
      BY <1>1, <1>2 DEF ToSet
    <3> QED
      BY <1>2, <3>1, <3>2 DEF EnabledFor
  <2>3. ASSUME NEW u \in Threads, Busy(u)', u # t PROVE EnabledFor(u)'
    <3>1. EnabledFor(u) /\ call'[u] = call[u]
      BY <1>4, <2>3 DEF EnabledOK
    <3> QED
      BY <1>1, <3>1 DEF EnabledFor, Dom
  <2> QED
    BY <1>1, <2>1, <2>2, <2>3 DEF EnabledOK
<1> QED
  BY <1>1, <1>2, <1>3, <1>4, <1>5, <1>6, <1>7, <1>8, <1>9

\* A call begins, or ends without a manager or with one that is stopped.
LEMMA CallBegins ==
  ASSUME ManageInv, NEW t \in Threads, BeginInstall(t) \/ BeginUninstall(t)
  PROVE  ManageInv' /\ OthersKept(t) /\ ~Busy(t) /\ ~Busy(t)' /\ call'[t].mgr = 0
<1>1. /\ call[t] = Idle /\ UNCHANGED <<managerVars, domainVars>>
      /\ \E mode \in {"install", "uninstall"} :
           call' = [call EXCEPT ![t].mode = mode, ![t].pc = "lock"]
  BY DEF BeginInstall, BeginUninstall
<1>2. /\ CallTypes' /\ OthersKept(t)
      /\ call'[t].mode \in {"install", "uninstall"} /\ call'[t].pc = "lock" /\ call'[t].mgr = 0
  <2>1. PICK mode \in {"install", "uninstall"} :
          call' = [call EXCEPT ![t].mode = mode, ![t].pc = "lock"]
    BY <1>1
  <2>2. call \in [Threads -> Calls] /\ mode \in Modes /\ "lock" \in Places /\ call[t].mgr = 0
    BY <1>1 DEF ManageInv, ManageTypes, CallTypes, Modes, Places, Idle
  <2>3. CallTypes' /\ OthersKept(t)
    BY <2>1, <2>2 DEF Calls, CallTypes, OthersKept
  <2> QED
    BY <2>1, <2>2, <2>3 DEF Calls
<1>3. ~Busy(t) /\ ~Busy(t)' /\ Located(t)'
  BY <1>1, <1>2 DEF Busy, Located, Idle
<1>4. lock # t
  BY <1>3 DEF ManageInv, LockOK
<1> QED
  BY <1>1, <1>2, <1>3, <1>4, Rested DEF managerVars, domainVars

LEMMA CallEnds ==
  ASSUME ManageInv, NEW t \in Threads, call' = [call EXCEPT ![t] = Idle],
         \/ At(t, "install", "lock") \/ At(t, "uninstall", "lock")
         \/ At(t, "uninstall", "next") /\ call[t].todo = <<>>,
         UNCHANGED <<managerVars, domainVars>>
  PROVE  ManageInv' /\ OthersKept(t) /\ ~Busy(t)' /\ call'[t].mgr = 0
<1>1. CallTypes' /\ call'[t] = Idle /\ OthersKept(t)
  BY IdleCall, CallReplaced DEF ManageInv, ManageTypes
<1>2. ~Busy(t)' /\ Located(t)' /\ call'[t].mgr = 0
  BY <1>1 DEF Busy, Located, Idle
<1>3. lock # t
  BY DEF At, Busy, ManageInv, LockOK
<1>4. Busy(t) => enabled[call[t].mgr] = {}
  <2> SUFFICES ASSUME Busy(t) PROVE enabled[call[t].mgr] = {}
    OBVIOUS
  <2>1. call[t].mode = "uninstall" /\ call[t].todo = <<>> /\ EnabledFor(t)
    BY DEF At, Busy, ManageInv, EnabledOK
  <2> QED
    BY <2>1 DEF EnabledFor, ToSet
<1> QED
  BY <1>1, <1>2, <1>3, <1>4, Rested DEF managerVars, domainVars

\* What a busy thread knows of its domain.
LEMMA AtDomain ==
  ASSUME ManageInv, NEW t \in Threads, Busy(t)
  PROVE  /\ call[t].mode \in {"install", "uninstall"} /\ call[t].mgr \in Managers
         /\ call[t].mgr \in 1..created
         /\ call[t].todo # <<>> =>
              /\ Dom(t) \in Domains /\ Wraps[Dom(t)] \in Seq(Members)
              /\ Dom(t) \in ToSet(call[t].todo)
              /\ IsInjective(Wraps[Dom(t)]) /\ Len(Wraps[Dom(t)]) \in Nat
              /\ DOMAIN Wraps[Dom(t)] = 1..Len(Wraps[Dom(t)])
<1>1. call[t] \in Calls /\ Located(t)
  BY DEF ManageInv, ManageTypes, CallTypes
<1>2. call[t].mode \in {"install", "uninstall"}
  BY <1>1 DEF Calls, Modes, Located, Busy
<1>3. call[t].mgr \in Managers /\ call[t].mgr \in 1..created
  BY ManagerAssumption DEF ManageInv, OwnerOK, Managers, ManageTypes
<1>4. ASSUME call[t].todo # <<>> PROVE Dom(t) \in Domains /\ Dom(t) \in ToSet(call[t].todo)
  <2>1. call[t].todo \in Seq(Domains) /\ RestOfOrder(call[t].todo)
    BY <1>1 DEF Calls, Located
  <2> QED
    BY <1>4, <2>1, RestTail DEF Dom
<1>5. ASSUME NEW d \in Domains
      PROVE  /\ Wraps[d] \in Seq(Members) /\ IsInjective(Wraps[d]) /\ Len(Wraps[d]) \in Nat
             /\ DOMAIN Wraps[d] = 1..Len(Wraps[d])
  BY <1>5, ManagerAssumption
<1> QED
  BY <1>2, <1>3, <1>4, <1>5

\* The effect of BeginEnable and WrapApply: on to the k-th member.
LEMMA NextMember ==
  ASSUME ManageInv, NEW t \in Threads, Busy(t), call[t].todo # <<>>, NEW k \in Nat \ {0},
         k <= Len(Wraps[Dom(t)]) + 1,
         call' = [call EXCEPT ![t].pc = AfterWrap(t, k), ![t].k = k],
         call[t].mode = "install"
  PROVE  /\ CallTypes' /\ OthersKept(t)
         /\ call'[t].mode = "install" /\ call'[t].mgr = call[t].mgr /\ call'[t].todo = call[t].todo
         /\ call'[t].k = k /\ call'[t].pc = AfterWrap(t, k)
         /\ Busy(t)' /\ Located(t)'
<1>1. call \in [Threads -> Calls] /\ AfterWrap(t, k) \in Places /\ k \in Nat /\ Located(t)
  BY DEF ManageInv, ManageTypes, CallTypes, AfterWrap, Places
<1>2. /\ CallTypes' /\ OthersKept(t)
  BY <1>1 DEF Calls, CallTypes, OthersKept
<1>3. /\ call'[t].mode = "install" /\ call'[t].mgr = call[t].mgr /\ call'[t].todo = call[t].todo
      /\ call'[t].k = k /\ call'[t].pc = AfterWrap(t, k)
  BY <1>1 DEF Calls
<1>4. Len(Wraps[Dom(t)]) \in Nat
  BY AtDomain
<1>5. Dom(t)' = Dom(t) /\ (RestOfOrder(call[t].todo) => RestOfOrder(call[t].todo)')
  BY <1>3 DEF Dom, RestOfOrder
<1>6. CASE k > Len(Wraps[Dom(t)])
  <2>1. call'[t].pc = "register" /\ call'[t].k = Len(Wraps[Dom(t)]) + 1
    BY <1>3, <1>4, <1>6 DEF AfterWrap
  <2>2. Busy(t)' /\ RestOfOrder(call[t].todo)'
    BY <1>1, <1>5, <2>1 DEF Busy, Located
  <2> QED
    BY <1>2, <1>3, <1>5, <2>1, <2>2 DEF Located
<1>7. CASE ~(k > Len(Wraps[Dom(t)]))
  <2>1. call'[t].pc = "wrap" /\ call'[t].k \in 1..Len(Wraps[Dom(t)])
    BY <1>3, <1>4, <1>7 DEF AfterWrap
  <2>2. Busy(t)' /\ RestOfOrder(call[t].todo)'
    BY <1>1, <1>5, <2>1 DEF Busy, Located
  <2> QED
    BY <1>2, <1>3, <1>5, <2>1, <2>2 DEF Located
<1> QED
  BY <1>2, <1>3, <1>6, <1>7

\* Goto a place of the same domain.
LEMMA GotoKept ==
  ASSUME ManageInv, NEW t \in Threads, Busy(t), call[t].todo # <<>>,
         NEW p \in {"clear", "close", "unset", "apply"}, Goto(t, p),
         p = "apply" => call[t].pc = "wrap",
         p \in {"close", "unset"} => call[t].mode = "uninstall"
  PROVE  /\ CallTypes' /\ OthersKept(t)
         /\ call'[t].mode = call[t].mode /\ call'[t].pc = p /\ call'[t].mgr = call[t].mgr
         /\ call'[t].todo = call[t].todo /\ call'[t].k = call[t].k /\ call'[t].top = call[t].top
         /\ Busy(t)' /\ Located(t)'
<1>1. p \in Places
  BY DEF Places
<1>2. /\ CallTypes' /\ OthersKept(t)
      /\ call'[t].mode = call[t].mode /\ call'[t].pc = p /\ call'[t].mgr = call[t].mgr
      /\ call'[t].todo = call[t].todo /\ call'[t].k = call[t].k /\ call'[t].top = call[t].top
  BY <1>1, GotoEffect DEF ManageInv, ManageTypes
<1>3. Dom(t)' = Dom(t) /\ (RestOfOrder(call[t].todo) => RestOfOrder(call[t].todo)')
  BY <1>2 DEF Dom, RestOfOrder
<1>4. Located(t)
  BY DEF ManageInv
<1>5. Busy(t)' /\ RestOfOrder(call[t].todo)'
  BY <1>2, <1>3, <1>4 DEF Busy, Located
<1>6. Located(t)'
  <2>1. call[t].mode \in {"install", "uninstall"}
    BY AtDomain
  <2>2. call[t].pc = "wrap" => call[t].mode = "install"
    BY <2>1, <1>4 DEF Located
  <2>3. p = "apply" => call'[t].k \in 1..Len(Wraps[Dom(t)'])
    BY <1>2, <1>3, <1>4 DEF Located
  <2> QED
    BY <1>2, <1>5, <2>1, <2>2, <2>3 DEF Located
<1> QED
  BY <1>2, <1>5, <1>6

\* A step of enable.
LEMMA EnableKept ==
  ASSUME ManageInv, NEW t \in Threads, Enable(t)
  PROVE  /\ ManageInv' /\ OthersKept(t)
         /\ call'[t].mode = call[t].mode /\ call'[t].mgr = call[t].mgr
<1> USE DEF ManageInv
<1>0. Located(t)
  OBVIOUS
<1>1. At(t, "install", "next") /\ call[t].todo # <<>> => Dom(t) \notin enabled[call[t].mgr] /\ Busy(t)
  BY AtDomain DEF At, Busy, EnabledOK, EnabledFor
<1>2. Busy(t) /\ call[t].pc # "next" => Dom(t) \notin enabled[call[t].mgr] /\ call[t].todo # <<>>
  BY <1>0 DEF EnabledOK, EnabledFor, Located, Busy
<1>3. Busy(t) => call[t].mgr \in Managers
  BY AtDomain
<1>4. /\ enabled \in [Managers -> SUBSET Domains] /\ registered \in [Managers -> SUBSET Domains]
      /\ registered = enabled
  BY DEF ManageTypes, EnabledOK
<1>5. CASE BeginEnable(t)
  <2>1. /\ call[t].mode = "install" /\ Busy(t) /\ call[t].todo # <<>>
        /\ Dom(t) \notin enabled[call[t].mgr] /\ Len(Wraps[Dom(t)]) \in Nat
    BY <1>1, <1>5, AtDomain DEF BeginEnable, At
  <2>2. call' = [call EXCEPT ![t].pc = AfterWrap(t, 1), ![t].k = 1] /\ UNCHANGED <<managerVars, domainVars>>
    BY <1>5 DEF BeginEnable
  <2>3. 1 \in Nat \ {0} /\ 1 <= Len(Wraps[Dom(t)]) + 1
    BY <2>1
  <2>4. /\ CallTypes' /\ OthersKept(t)
        /\ call'[t].mode = "install" /\ call'[t].mgr = call[t].mgr /\ call'[t].todo = call[t].todo
        /\ Busy(t)' /\ Located(t)'
    BY <2>1, <2>2, <2>3, NextMember
  <2> QED
    BY <1>4, <2>1, <2>2, <2>4, StayedAtDomain DEF managerVars, domainVars
<1>6. CASE WrapApply(t)
  <2>1. /\ call[t].mode = "install" /\ call[t].pc = "apply" /\ Busy(t) /\ call[t].todo # <<>>
        /\ Dom(t) \notin enabled[call[t].mgr]
        /\ Len(Wraps[Dom(t)]) \in Nat /\ call[t].k \in 1..Len(Wraps[Dom(t)])
    BY <1>0, <1>2, <1>6, AtDomain DEF WrapApply, At, Located, Busy
  <2>2. /\ call' = [call EXCEPT ![t].pc = AfterWrap(t, call[t].k + 1), ![t].k = @ + 1]
        /\ UNCHANGED <<managerVars, enabled, registered, records>>
    BY <1>6 DEF WrapApply
  <2>3. call[t].k + 1 \in Nat \ {0} /\ call[t].k + 1 <= Len(Wraps[Dom(t)]) + 1
    BY <2>1
  <2>4. call' = [call EXCEPT ![t].pc = AfterWrap(t, call[t].k + 1), ![t].k = call[t].k + 1]
    BY <2>2 DEF ManageTypes, CallTypes, Calls
  <2>5. /\ CallTypes' /\ OthersKept(t)
        /\ call'[t].mode = "install" /\ call'[t].mgr = call[t].mgr /\ call'[t].todo = call[t].todo
        /\ Busy(t)' /\ Located(t)'
    BY <2>1, <2>3, <2>4, NextMember
  <2> QED
    BY <1>4, <2>1, <2>2, <2>5, StayedAtDomain DEF managerVars
<1>7. CASE WrapLook(t) \/ WrapFails(t)
  <2>1. /\ call[t].mode = "install" /\ Busy(t) /\ call[t].todo # <<>>
        /\ Dom(t) \notin enabled[call[t].mgr]
        /\ UNCHANGED <<managerVars, enabled, registered, entry>>
        /\ \E p \in {"clear", "apply"} : Goto(t, p) /\ (p = "apply" => call[t].pc = "wrap")
    BY <1>2, <1>7 DEF WrapLook, WrapFails, At, Busy
  <2>2. /\ CallTypes' /\ OthersKept(t)
        /\ call'[t].mode = call[t].mode /\ call'[t].mgr = call[t].mgr /\ call'[t].todo = call[t].todo
        /\ Busy(t)' /\ Located(t)'
    BY <2>1, GotoKept
  <2> QED
    BY <1>4, <2>1, <2>2, StayedAtDomain DEF managerVars
<1>8. CASE Register(t)
  <2>1. /\ call[t].mode = "install" /\ Busy(t) /\ call[t].todo # <<>> /\ NextDomain(t)
        /\ UNCHANGED <<managerVars, records, entry>>
    BY <1>2, <1>8 DEF Register, At, Busy
  <2>2. Dom(t) \in Domains
    BY <2>1, AtDomain
  <2>3. /\ enabled' = [enabled EXCEPT ![call[t].mgr] = @ \cup {Dom(t)}]
        /\ registered' = [registered EXCEPT ![call[t].mgr] = @ \cup {Dom(t)}]
    BY <1>8 DEF Register, Mgr
  <2>4. /\ enabled' \in [Managers -> SUBSET Domains] /\ registered' = enabled'
        /\ \A m \in Managers \ {call[t].mgr} : enabled'[m] = enabled[m]
        /\ enabled'[call[t].mgr] = enabled[call[t].mgr] \cup {Dom(t)}
    BY <1>3, <1>4, <2>1, <2>2, <2>3
  <2> QED
    BY <2>1, <2>4, PassedDomain DEF managerVars
<1>9. CASE RegisterFails(t)
  <2>1. /\ call[t].mode = "install" /\ Busy(t) /\ call[t].todo # <<>>
        /\ Dom(t) \notin enabled[call[t].mgr]
        /\ UNCHANGED <<managerVars, enabled, records, entry>> /\ Goto(t, "clear")
        /\ registered' = [registered EXCEPT ![call[t].mgr] = @ \ {Dom(t)}]
    BY <1>2, <1>9 DEF RegisterFails, At, Busy, Mgr
  <2>2. /\ CallTypes' /\ OthersKept(t)
        /\ call'[t].mode = call[t].mode /\ call'[t].mgr = call[t].mgr /\ call'[t].todo = call[t].todo
        /\ Busy(t)' /\ Located(t)'
    BY <2>1, GotoKept
  <2>3. registered' = registered
    <3>1. registered[call[t].mgr] \ {Dom(t)} = registered[call[t].mgr]
      BY <1>4, <2>1
    <3> QED
      BY <1>4, <2>1, <3>1
  <2> QED
    BY <1>4, <2>1, <2>2, <2>3, StayedAtDomain DEF managerVars
<1> QED
  BY <1>5, <1>6, <1>7, <1>8, <1>9 DEF Enable
-----------------------------------------------------------------------------
(* The members: types first.                                                *)

WrapTypes ==
  /\ records \in [Managers -> [Domains -> [Members -> {"none", "owned", "kept"}]]]
  /\ entry \in [Members -> Seq(Layers) \cup {Absent}]

\* What a sequence has below its last element.
LEMMA FrontFacts ==
  ASSUME NEW S, NEW s \in Seq(S), s # <<>>
  PROVE  /\ Front(s) \in Seq(S) /\ Len(s) \in Nat \ {0} /\ DOMAIN s = 1..Len(s)
         /\ Len(Front(s)) = Len(s) - 1 /\ DOMAIN Front(s) = 1..(Len(s) - 1)
         /\ \A i \in 1..(Len(s) - 1) : Front(s)[i] = s[i]
         /\ Last(s) = s[Len(s)] /\ Last(s) \in S
<1>1. /\ Len(s) \in Nat \ {0} /\ DOMAIN s = 1..Len(s) /\ s[Len(s)] \in S
  OBVIOUS
<1>2. /\ SubSeq(s, 1, Len(s) - 1) \in Seq(S) /\ Len(SubSeq(s, 1, Len(s) - 1)) = Len(s) - 1
      /\ DOMAIN SubSeq(s, 1, Len(s) - 1) = 1..(Len(s) - 1)
      /\ \A i \in 1..(Len(s) - 1) : SubSeq(s, 1, Len(s) - 1)[i] = s[i]
  BY <1>1
<1> QED
  BY <1>1, <1>2 DEF Front, Last

\* A chain is a sequence of layers.
LEMMA ChainType ==
  ASSUME WrapTypes, NEW x \in Members
  PROVE  /\ Chain(x) \in Seq(Layers)
         /\ Len(Chain(x)) \in Nat /\ DOMAIN Chain(x) = 1..Len(Chain(x))
         /\ Chain(x) = <<>> <=> Len(Chain(x)) = 0
         /\ \A i \in DOMAIN Chain(x) : Chain(x)[i] \in Layers
<1>1. Chain(x) \in Seq(Layers)
  <2>1. CASE entry[x] = Absent
    BY <2>1 DEF Chain
  <2>2. CASE entry[x] # Absent
    BY <2>2 DEF Chain, WrapTypes
  <2> QED
    BY <2>1, <2>2
<1> HIDE DEF Chain
<1> QED
  BY <1>1

\* Between clear and restore a thread changes what it remembers of the top.
LEMMA TopEffect ==
  ASSUME ManageInv, NEW t \in Threads, Busy(t), call[t].pc \in {"clear", "restore"},
         NEW p \in {"clear", "restore"}, NEW top \in Tops,
         call' = [call EXCEPT ![t].pc = p, ![t].top = top]
  PROVE  /\ CallTypes' /\ OthersKept(t)
         /\ call'[t].mode = call[t].mode /\ call'[t].pc = p /\ call'[t].mgr = call[t].mgr
         /\ call'[t].todo = call[t].todo /\ call'[t].top = top
         /\ Busy(t)' /\ Located(t)'
<1>1. call \in [Threads -> Calls] /\ p \in Places /\ Located(t)
  BY DEF ManageInv, ManageTypes, CallTypes, Places
<1>2. CallTypes' /\ OthersKept(t)
  BY <1>1 DEF Calls, CallTypes, OthersKept
<1>3. /\ call'[t].mode = call[t].mode /\ call'[t].pc = p /\ call'[t].mgr = call[t].mgr
      /\ call'[t].todo = call[t].todo /\ call'[t].top = top
  BY <1>1 DEF Calls
<1>4. Busy(t)' /\ Located(t)'
  <2>1. RestOfOrder(call[t].todo) => RestOfOrder(call[t].todo)'
    BY <1>3 DEF RestOfOrder
  <2> QED
    BY <1>1, <1>3, <2>1 DEF Located, Busy
<1> QED
  BY <1>2, <1>3, <1>4

\* The two outcomes of ClearLook, for the member that it looks at.
LEMMA ClearLooks ==
  ASSUME ManageInv, WrapTypes, NEW t \in Threads, ClearLook(t)
  PROVE  \E x \in ToSet(Wraps[Dom(t)]) :
           /\ x \in Members /\ records[Mgr(t)][Dom(t)][x] # "none"
           /\ records' = [records EXCEPT ![Mgr(t)][Dom(t)][x] = "none"]
           /\ \/ /\ Chain(x) # <<>> /\ Last(Chain(x)) = Layer(Mgr(t), Dom(t))
                 /\ call' = [call EXCEPT
                      ![t].pc = "restore",
                      ![t].top = [member |-> x, owned |-> records[Mgr(t)][Dom(t)][x] = "owned",
                                  below |-> Front(Chain(x))]]
              \/ /\ ~(Chain(x) # <<>> /\ Last(Chain(x)) = Layer(Mgr(t), Dom(t)))
                 /\ call' = call
<1>1. Busy(t) /\ call[t].todo # <<>>
  BY DEF ClearLook, Busy, ManageInv, Located
<1>2. Wraps[Dom(t)] \in Seq(Members) /\ DOMAIN Wraps[Dom(t)] = 1..Len(Wraps[Dom(t)])
  BY <1>1, AtDomain
<1>3. PICK k \in Recorded(t) :
        LET x == Wraps[Dom(t)][k]
            mine == Chain(x) # <<>> /\ Last(Chain(x)) = Layer(Mgr(t), Dom(t))
        IN /\ records' = [records EXCEPT ![Mgr(t)][Dom(t)][x] = "none"]
           /\ IF mine
              THEN call' = [call EXCEPT
                     ![t].pc = "restore",
                     ![t].top = [member |-> x,
                                 owned  |-> records[Mgr(t)][Dom(t)][x] = "owned",
                                 below  |-> Front(Chain(x))]]
              ELSE UNCHANGED call
  BY DEF ClearLook
<1>4. /\ k \in DOMAIN Wraps[Dom(t)]
      /\ records[Mgr(t)][Dom(t)][Wraps[Dom(t)][k]] # "none"
  BY DEF Recorded
<1>5. Wraps[Dom(t)][k] \in ToSet(Wraps[Dom(t)]) /\ Wraps[Dom(t)][k] \in Members
  BY <1>2, <1>4 DEF ToSet
<1> QED
  BY <1>3, <1>4, <1>5

\* A step of clear.
LEMMA ClearKept ==
  ASSUME ManageInv, WrapTypes, NEW t \in Threads, Clear(t)
  PROVE  /\ ManageInv' /\ OthersKept(t)
         /\ call'[t].mode = call[t].mode /\ call'[t].mgr = call[t].mgr
<1> USE DEF ManageInv
<1>1. /\ call[t].pc \in {"clear", "restore"} /\ Busy(t) /\ call[t].todo # <<>>
      /\ UNCHANGED <<managerVars, enabled, registered>>
  <2>1. call[t].pc \in {"clear", "restore"} /\ UNCHANGED <<managerVars, enabled, registered>>
    BY DEF Clear, ClearLook, ClearRestore, ClearEnds, domainVars
  <2> QED
    BY <2>1 DEF Located, Busy
<1>2. /\ enabled \in [Managers -> SUBSET Domains] /\ registered = enabled
      /\ Dom(t) \notin enabled[call[t].mgr]
  BY <1>1 DEF ManageTypes, EnabledOK, EnabledFor
<1>3. /\ instance' = instance /\ lock' = lock /\ created' = created /\ overlapped' = overlapped
      /\ enabled' = enabled /\ registered' = registered
  BY <1>1 DEF managerVars
<1>4. ASSUME NEW p \in {"clear", "restore"}, NEW top \in Tops,
             call' = [call EXCEPT ![t].pc = p, ![t].top = top]
      PROVE  /\ ManageInv' /\ OthersKept(t)
             /\ call'[t].mode = call[t].mode /\ call'[t].mgr = call[t].mgr
  <2>1. /\ CallTypes' /\ OthersKept(t)
        /\ call'[t].mode = call[t].mode /\ call'[t].mgr = call[t].mgr /\ call'[t].todo = call[t].todo
        /\ Busy(t)' /\ Located(t)'
    BY <1>1, <1>4, TopEffect
  <2> QED
    BY <1>1, <1>2, <1>3, <2>1, StayedAtDomain
<1>5. CASE ClearLook(t)
  <2>1. PICK x \in Members :
          \/ /\ Chain(x) # <<>>
             /\ call' = [call EXCEPT
                  ![t].pc = "restore",
                  ![t].top = [member |-> x, owned |-> records[Mgr(t)][Dom(t)][x] = "owned",
                              below |-> Front(Chain(x))]]
          \/ call' = call
    BY <1>5, ClearLooks
  <2>2. CASE Chain(x) # <<>> /\ call' # call
    <3> DEFINE top == [member |-> x, owned |-> records[Mgr(t)][Dom(t)][x] = "owned",
                       below |-> Front(Chain(x))]
    <3>1. Front(Chain(x)) \in Seq(Layers)
      BY <2>2, ChainType, FrontFacts
    <3>2. top \in Tops
      BY <3>1 DEF Tops
    <3>3. call' = [call EXCEPT ![t].pc = "restore", ![t].top = top]
      BY <2>1, <2>2
    <3> HIDE DEF top
    <3> QED
      BY <1>4, <3>2, <3>3
  <2>3. CASE call' = call
    <3>1. /\ CallTypes' /\ OthersKept(t)
          /\ call'[t].mode = call[t].mode /\ call'[t].mgr = call[t].mgr /\ call'[t].todo = call[t].todo
          /\ Busy(t)' /\ Located(t)'
      BY <1>1, <2>3 DEF ManageTypes, CallTypes, OthersKept, Located, Busy, Dom, RestOfOrder
    <3> QED
      BY <1>1, <1>2, <1>3, <3>1, StayedAtDomain
  <2> QED
    BY <2>1, <2>2, <2>3
<1>6. CASE ClearRestore(t)
  <2>1. NoTop \in Tops
    BY DEF Tops, NoTop
  <2> QED
    BY <1>4, <1>6, <2>1 DEF ClearRestore
<1>7. CASE ClearEnds(t)
  <2>1. CASE call[t].mode = "uninstall" /\ Dom(t) = Ingest
    <3>1. Goto(t, "close")
      BY <1>7, <2>1 DEF ClearEnds
    <3>2. /\ CallTypes' /\ OthersKept(t)
          /\ call'[t].mode = call[t].mode /\ call'[t].mgr = call[t].mgr /\ call'[t].todo = call[t].todo
          /\ Busy(t)' /\ Located(t)'
      BY <1>1, <2>1, <3>1, GotoKept
    <3> QED
      BY <1>1, <1>2, <1>3, <3>2, StayedAtDomain
  <2>2. CASE ~(call[t].mode = "uninstall" /\ Dom(t) = Ingest)
    <3>1. NextDomain(t)
      BY <1>7, <2>2 DEF ClearEnds
    <3> QED
      BY <1>1, <1>2, <1>3, <3>1, PassedDomain
  <2> QED
    BY <2>1, <2>2
<1> QED
  BY <1>5, <1>6, <1>7 DEF Clear

\* disable unregisters and resets the flag first.
LEMMA DisableKept ==
  ASSUME ManageInv, NEW t \in Threads, BeginDisable(t)
  PROVE  /\ ManageInv' /\ Busy(t) /\ call[t].todo # <<>> /\ OthersKept(t)
         /\ call'[t].mode = "uninstall" /\ call'[t].mgr = call[t].mgr
         /\ IF Dom(t) \in enabled[call[t].mgr]
            THEN call'[t].pc = "clear" /\ call'[t].todo = call[t].todo
            ELSE call'[t].pc = "next" /\ enabled' = enabled
         /\ enabled' = [enabled EXCEPT ![call[t].mgr] = @ \ {Dom(t)}]
<1> USE DEF ManageInv
<1>1. /\ call[t].mode = "uninstall" /\ Busy(t) /\ call[t].todo # <<>>
      /\ UNCHANGED <<managerVars, records, entry>>
  BY DEF BeginDisable, At, Busy
<1>2. /\ enabled' = [enabled EXCEPT ![call[t].mgr] = @ \ {Dom(t)}]
      /\ registered' = [registered EXCEPT ![call[t].mgr] = @ \ {Dom(t)}]
  BY DEF BeginDisable, Mgr
<1>3. call[t].mgr \in Managers
  BY <1>1, AtDomain
<1>4. /\ enabled \in [Managers -> SUBSET Domains] /\ registered = enabled
  BY DEF ManageTypes, EnabledOK
<1>5. /\ enabled' \in [Managers -> SUBSET Domains] /\ registered' = enabled'
      /\ \A m \in Managers \ {call[t].mgr} : enabled'[m] = enabled[m]
      /\ enabled'[call[t].mgr] = enabled[call[t].mgr] \ {Dom(t)}
  BY <1>2, <1>3, <1>4
<1>6. CASE Dom(t) \in enabled[call[t].mgr]
  <2>1. Goto(t, "clear")
    BY <1>6 DEF BeginDisable, Mgr
  <2>2. /\ CallTypes' /\ OthersKept(t)
        /\ call'[t].mode = call[t].mode /\ call'[t].mgr = call[t].mgr /\ call'[t].todo = call[t].todo
        /\ Busy(t)' /\ Located(t)' /\ call'[t].pc = "clear"
    BY <1>1, <2>1, GotoKept
  <2> QED
    BY <1>1, <1>2, <1>5, <1>6, <2>2, StayedAtDomain DEF managerVars
<1>7. CASE Dom(t) \notin enabled[call[t].mgr]
  <2>1. NextDomain(t)
    BY <1>7 DEF BeginDisable, Mgr
  <2>2. enabled' = enabled
    <3>1. enabled[call[t].mgr] \ {Dom(t)} = enabled[call[t].mgr]
      BY <1>7
    <3> QED
      BY <1>2, <1>4, <3>1
  <2> QED
    BY <1>1, <1>2, <1>5, <1>7, <2>1, <2>2, PassedDomain DEF managerVars
<1> QED
  BY <1>6, <1>7

\* The end of disable.
LEMMA CloseKept ==
  ASSUME ManageInv, NEW t \in Threads, CloseQueue(t) \/ UnsetQueue(t)
  PROVE  /\ ManageInv' /\ Busy(t) /\ OthersKept(t) /\ call[t].mode = "uninstall"
         /\ call[t].pc \in {"close", "unset"} /\ call'[t].pc \in {"unset", "next"}
         /\ call'[t].mode = "uninstall" /\ call'[t].mgr = call[t].mgr
<1> USE DEF ManageInv
<1>1. /\ call[t].pc \in {"close", "unset"} /\ UNCHANGED <<managerVars, domainVars>>
      /\ NextDomain(t) \/ Goto(t, "unset")
  BY DEF CloseQueue, UnsetQueue
<1>2. Busy(t) /\ call[t].todo # <<>> /\ call[t].mode = "uninstall"
  BY <1>1, AtDomain DEF Busy, Located
<1>3. /\ enabled \in [Managers -> SUBSET Domains] /\ registered = enabled
      /\ Dom(t) \notin enabled[call[t].mgr]
  BY <1>1, <1>2 DEF ManageTypes, EnabledOK, EnabledFor
<1>4. /\ instance' = instance /\ lock' = lock /\ created' = created /\ overlapped' = overlapped
      /\ enabled' = enabled /\ registered' = registered
  BY <1>1 DEF managerVars, domainVars
<1>5. CASE NextDomain(t)
  BY <1>1, <1>2, <1>3, <1>4, <1>5, PassedDomain
<1>6. CASE Goto(t, "unset")
  <2>1. /\ CallTypes' /\ OthersKept(t)
        /\ call'[t].mode = call[t].mode /\ call'[t].mgr = call[t].mgr /\ call'[t].todo = call[t].todo
        /\ Busy(t)' /\ Located(t)' /\ call'[t].pc = "unset"
    BY <1>2, <1>6, GotoKept
  <2> QED
    BY <1>1, <1>2, <1>3, <1>4, <2>1, StayedAtDomain
<1> QED
  BY <1>1, <1>5, <1>6

\* A step sets the record of one member to r, and no other.
SetsRecord(m, d, x, r) == records' = [records EXCEPT ![m][d][x] = r]

OnlyRecord(m, d, x, r) ==
  /\ records'[m][d][x] = r
  /\ \A n \in Managers, e \in Domains, y \in Members :
       n # m \/ e # d \/ y # x => records'[n][e][y] = records[n][e][y]

LEMMA RecordSet ==
  ASSUME WrapTypes, NEW m \in Managers, NEW d \in Domains, NEW x \in Members,
         NEW r \in {"none", "owned", "kept"}, SetsRecord(m, d, x, r)
  PROVE  /\ records' \in [Managers -> [Domains -> [Members -> {"none", "owned", "kept"}]]]
         /\ OnlyRecord(m, d, x, r)
<1>1. /\ records \in [Managers -> [Domains -> [Members -> {"none", "owned", "kept"}]]]
      /\ records' = [records EXCEPT ![m][d][x] = r]
  BY DEF WrapTypes, SetsRecord
<1>2. records[m][d] \in [Members -> {"none", "owned", "kept"}]
  BY <1>1
<1>3. [records[m][d] EXCEPT ![x] = r] \in [Members -> {"none", "owned", "kept"}]
  BY <1>2
<1>4. [records[m] EXCEPT ![d][x] = r] \in [Domains -> [Members -> {"none", "owned", "kept"}]]
  BY <1>1, <1>3
<1>5. records' \in [Managers -> [Domains -> [Members -> {"none", "owned", "kept"}]]]
  BY <1>1, <1>4
<1>6. records'[m][d][x] = r
  BY <1>1, <1>2
<1>7. ASSUME NEW n \in Managers, NEW e \in Domains, NEW y \in Members, n # m \/ e # d \/ y # x
      PROVE  records'[n][e][y] = records[n][e][y]
  <2>1. CASE n # m
    BY <1>1, <2>1
  <2>2. CASE n = m /\ e # d
    BY <1>1, <2>2
  <2>3. CASE n = m /\ e = d /\ y # x
    BY <1>1, <1>2, <2>3
  <2> QED
    BY <1>7, <2>1, <2>2, <2>3
<1> QED
  BY <1>5, <1>6, <1>7 DEF OnlyRecord

\* The member that a thread wraps.
LEMMA WrappedMember ==
  ASSUME ManageInv, NEW t \in Threads, call[t].pc \in {"wrap", "apply"}
  PROVE  /\ Busy(t) /\ call[t].mode = "install" /\ Mgr(t) \in Managers /\ Dom(t) \in Domains
         /\ call[t].todo # <<>>
         /\ call[t].k \in 1..Len(Wraps[Dom(t)]) /\ Len(Wraps[Dom(t)]) \in Nat
         /\ Wrapped(t) \in Members /\ Wrapped(t) \in ToSet(Wraps[Dom(t)])
         /\ Wrapped(t) = Wraps[Dom(t)][call[t].k]
<1>1. Busy(t) /\ call[t].todo # <<>> /\ call[t].k \in 1..Len(Wraps[Dom(t)])
  BY DEF Busy, ManageInv, Located
<1>2. call[t].mode = "install"
  BY <1>1, AtDomain DEF ManageInv, Located
<1>3. /\ Mgr(t) \in Managers /\ Dom(t) \in Domains /\ Wraps[Dom(t)] \in Seq(Members)
      /\ DOMAIN Wraps[Dom(t)] = 1..Len(Wraps[Dom(t)]) /\ Len(Wraps[Dom(t)]) \in Nat
  BY <1>1, AtDomain DEF Mgr
<1> QED
  BY <1>1, <1>2, <1>3 DEF Wrapped, ToSet

\* Every step preserves the types of the members.
LEMMA WrapTypesNext ==
  ASSUME ManageInv, WrapTypes, [Next]_vars
  PROVE  WrapTypes'
<1>1. ASSUME UNCHANGED <<records, entry>> PROVE WrapTypes'
  BY <1>1 DEF WrapTypes
<1>2. ASSUME NEW t \in Threads, WrapLook(t) \/ WrapFails(t) PROVE WrapTypes'
  <2>1. Mgr(t) \in Managers /\ Dom(t) \in Domains /\ Wrapped(t) \in Members
    BY <1>2, WrappedMember DEF WrapLook, WrapFails, At
  <2>2. entry' = entry
    BY <1>2 DEF WrapLook, WrapFails
  <2>3. PICK r \in {"none", "owned", "kept"} :
          SetsRecord(Mgr(t), Dom(t), Wrapped(t), r)
    BY <1>2 DEF WrapLook, WrapFails, SetsRecord
  <2> QED
    BY <2>1, <2>2, <2>3, RecordSet DEF WrapTypes
<1>3. ASSUME NEW t \in Threads, WrapApply(t) PROVE WrapTypes'
  <2>1. Mgr(t) \in Managers /\ Dom(t) \in Domains /\ Wrapped(t) \in Members
    BY <1>3, WrappedMember DEF WrapApply, At
  <2>2. Chain(Wrapped(t)) \in Seq(Layers) /\ Layer(Mgr(t), Dom(t)) \in Layers
    BY <2>1, ChainType DEF Layer, Layers
  <2>3. Append(Chain(Wrapped(t)), Layer(Mgr(t), Dom(t))) \in Seq(Layers)
    BY <2>2
  <2>4. /\ entry' = [entry EXCEPT ![Wrapped(t)] = Append(Chain(Wrapped(t)), Layer(Mgr(t), Dom(t)))]
        /\ records' = records
    BY <1>3 DEF WrapApply
  <2> QED
    BY <2>1, <2>3, <2>4 DEF WrapTypes
<1>4. ASSUME NEW t \in Threads, ClearLook(t) PROVE WrapTypes'
  <2>1. PICK x \in Members : SetsRecord(Mgr(t), Dom(t), x, "none")
    BY <1>4, ClearLooks DEF SetsRecord
  <2>2. Busy(t) /\ call[t].todo # <<>> /\ entry' = entry
    BY <1>4 DEF ClearLook, Busy, ManageInv, Located
  <2>3. Mgr(t) \in Managers /\ Dom(t) \in Domains
    BY <2>2, AtDomain DEF Mgr
  <2> QED
    BY <2>1, <2>2, <2>3, RecordSet DEF WrapTypes
<1>5. ASSUME NEW t \in Threads, ClearRestore(t) PROVE WrapTypes'
  <2>1. call[t].top \in Tops
    BY DEF ManageInv, ManageTypes, CallTypes, Calls
  <2>2. call[t].top.below \in Seq(Layers)
    BY <2>1 DEF Tops
  <2>3. /\ records' = records
        /\ entry' = [entry EXCEPT ![call[t].top.member] =
                       IF call[t].top.owned THEN Absent ELSE call[t].top.below]
    BY <1>5 DEF ClearRestore
  <2> QED
    BY <2>2, <2>3 DEF WrapTypes
<1>6. ASSUME NEW t \in Threads,
             \/ ManageStep(t) /\ (\/ Install(t) \/ Uninstall(t) \/ BeginEnable(t) \/ Register(t)
                                  \/ RegisterFails(t) \/ ClearEnds(t))
             \/ CloseQueue(t) \/ UnsetQueue(t)
      PROVE  UNCHANGED <<records, entry>>
  BY <1>6 DEF Install, BeginInstall, LockInstall, StartManager, SkipDomain, EndStart, Uninstall,
       BeginUninstall, TakeInstance, TakeNothing, BeginDisable, EndStop, BeginEnable, Register,
       RegisterFails, ClearEnds, CloseQueue, UnsetQueue, domainVars
<1>7. ASSUME NEW a \in Apps, Fire(a) PROVE UNCHANGED <<records, entry>>
  BY <1>7 DEF Fire, FireBegin, FireNext, FireEnds, FireRaises, CreateQueue, ReadQueue, Enqueue,
       trackingVars, domainVars
<1>8. UNCHANGED vars => UNCHANGED <<records, entry>>
  BY DEF vars, trackingVars, domainVars
<1>9. ASSUME NEW t \in Threads, ManageStep(t) PROVE WrapTypes'
  BY <1>1, <1>2, <1>3, <1>4, <1>5, <1>6, <1>9 DEF ManageStep, Manage, Enable, Clear
<1> QED
  BY <1>1, <1>6, <1>7, <1>8, <1>9 DEF Next

\* A step that leaves managers and calls alone.
LEMMA ManageUnchanged ==
  ASSUME ManageInv, UNCHANGED <<instance, lock, created, overlapped, enabled, registered, call>>
  PROVE  ManageInv'
<1>1. ManageTypes' /\ LockOK' /\ OwnerOK' /\ SoloOK'
  BY DEF ManageInv, ManageTypes, CallTypes, LockOK, OwnerOK, SoloOK, Busy
<1>2. \A t \in Threads : Located(t)'
  BY DEF ManageInv, Located, Busy, Dom, RestOfOrder
<1>3. EnabledOK'
  BY DEF ManageInv, EnabledOK, EnabledFor, Busy, Dom
<1> QED
  BY <1>1, <1>2, <1>3 DEF ManageInv

\* Every step preserves ManageInv.
LEMMA ManageNext ==
  ASSUME ManageInv, WrapTypes, [Next]_vars
  PROVE  ManageInv'
<1>1. ASSUME NEW t \in Threads, ManageStep(t) PROVE ManageInv'
  <2>1. CASE Install(t)
    <3>1. CASE BeginInstall(t)
      BY <3>1, CallBegins
    <3>2. CASE LockInstall(t)
      <4>1. CASE instance = 0 /\ StartManager(t)
        BY <3>2, <4>1, StartKept DEF LockInstall
      <4>2. CASE ~(instance = 0 /\ StartManager(t))
        BY <3>2, <4>2, CallEnds DEF LockInstall
      <4> QED
        BY <4>1, <4>2
    <3>3. CASE SkipDomain(t)
      <4>1. Busy(t) /\ call[t].todo # <<>> /\ NextDomain(t) /\ UNCHANGED <<managerVars, domainVars>>
        BY <3>3 DEF SkipDomain, At, Busy
      <4>2. enabled \in [Managers -> SUBSET Domains] /\ registered = enabled /\ call[t].mode = "install"
        BY <3>3 DEF ManageInv, ManageTypes, EnabledOK, SkipDomain, At
      <4> QED
        BY <4>1, <4>2, PassedDomain DEF managerVars, domainVars
    <3>4. CASE EndStart(t)
      BY <3>4, StartEnds
    <3> QED
      BY <2>1, <3>1, <3>2, <3>3, <3>4 DEF Install
  <2>2. CASE Enable(t)
    BY <2>2, EnableKept
  <2>3. CASE Clear(t)
    BY <2>3, ClearKept
  <2>4. CASE Uninstall(t)
    <3>1. CASE BeginUninstall(t)
      BY <3>1, CallBegins
    <3>2. CASE TakeInstance(t)
      BY <3>2, TakeKept
    <3>3. CASE TakeNothing(t) \/ EndStop(t)
      BY <3>3, CallEnds DEF TakeNothing, EndStop
    <3>4. CASE BeginDisable(t)
      BY <3>4, DisableKept
    <3> QED
      BY <2>4, <3>1, <3>2, <3>3, <3>4 DEF Uninstall
  <2> QED
    BY <1>1, <2>1, <2>2, <2>3, <2>4 DEF ManageStep, Manage
<1>2. ASSUME NEW t \in Threads, CloseQueue(t) \/ UnsetQueue(t) PROVE ManageInv'
  BY <1>2, CloseKept
<1>3. ASSUME NEW a \in Apps, Fire(a) PROVE ManageInv'
  <2>1. UNCHANGED <<instance, lock, created, overlapped, enabled, registered, call>>
    BY <1>3 DEF Fire, FireBegin, FireNext, FireEnds, FireRaises, CreateQueue, ReadQueue, Enqueue,
       trackingVars, domainVars, managerVars
  <2> QED
    BY <2>1, ManageUnchanged
<1>4. CASE UNCHANGED vars
  BY <1>4, ManageUnchanged DEF vars, trackingVars, domainVars, managerVars
<1> QED
  BY <1>1, <1>2, <1>3, <1>4 DEF Next

\* Every step is one of a thread that keeps its manager, takes one or leaves one.
LEMMA CallSteps ==
  ASSUME ManageInv, WrapTypes, NEW t \in Threads, ManageStep(t) \/ CloseQueue(t) \/ UnsetQueue(t)
  PROVE  /\ OthersKept(t)
         /\ \/ call'[t].mode = call[t].mode /\ call'[t].mgr = call[t].mgr
            \/ ~Busy(t)' /\ call'[t].mgr = 0
            \/ ~Busy(t) /\ StartManager(t) /\ call'[t].mgr = created + 1 /\ Busy(t)' /\ call'[t].pc = "next"
            \/ call'[t].mode = "uninstall" /\ call'[t].mgr = created /\ Busy(t)' /\ call'[t].pc = "next"
<1>1. CASE CloseQueue(t) \/ UnsetQueue(t)
  BY <1>1, CloseKept
<1>2. CASE Install(t)
  <2>1. CASE BeginInstall(t)
    BY <2>1, CallBegins
  <2>2. CASE LockInstall(t)
    <3>1. CASE instance = 0 /\ StartManager(t)
      BY <2>2, <3>1, StartKept DEF LockInstall, At, Busy
    <3>2. CASE ~(instance = 0 /\ StartManager(t))
      BY <2>2, <3>2, CallEnds DEF LockInstall
    <3> QED
      BY <3>1, <3>2
  <2>3. CASE SkipDomain(t)
    BY <2>3, NextDomainEffect DEF SkipDomain, ManageInv, ManageTypes
  <2>4. CASE EndStart(t)
    BY <2>4, StartEnds DEF Idle, Busy
  <2> QED
    BY <1>2, <2>1, <2>2, <2>3, <2>4 DEF Install
<1>3. CASE Enable(t)
  BY <1>3, EnableKept
<1>4. CASE Clear(t)
  BY <1>4, ClearKept
<1>5. CASE Uninstall(t)
  <2>1. CASE BeginUninstall(t)
    BY <2>1, CallBegins
  <2>2. CASE TakeInstance(t)
    BY <2>2, TakeKept DEF Busy
  <2>3. CASE TakeNothing(t) \/ EndStop(t)
    BY <2>3, CallEnds DEF TakeNothing, EndStop
  <2>4. CASE BeginDisable(t)
    BY <2>4, DisableKept DEF BeginDisable, At
  <2> QED
    BY <1>5, <2>1, <2>2, <2>3, <2>4 DEF Uninstall
<1> QED
  BY <1>1, <1>2, <1>3, <1>4, <1>5 DEF ManageStep, Manage

\* No step starts a manager that was created before.
LEMMA NotInstalledAgain ==
  ASSUME ManageInv, WrapTypes, [Next]_vars, NEW m \in Managers, m <= created, ~Installing(m)
  PROVE  ~Installing(m)'
<1>1. m # 0 /\ m # created + 1
  BY ManagerAssumption DEF Managers, ManageInv, ManageTypes
<1>2. \A u \in Threads : ~(call[u].mode = "install" /\ call[u].mgr = m)
  BY DEF Installing, Mgr
<1>3. ASSUME NEW t \in Threads, ManageStep(t) \/ CloseQueue(t) \/ UnsetQueue(t)
      PROVE  ~Installing(m)'
  <2>1. \A u \in Threads \ {t} : call'[u] = call[u]
    BY <1>3, CallSteps DEF OthersKept
  <2>2. ~(call'[t].mode = "install" /\ call'[t].mgr = m)
    BY <1>1, <1>2, <1>3, CallSteps
  <2> QED
    BY <1>2, <2>1, <2>2 DEF Installing, Mgr
<1>4. UNCHANGED call => ~Installing(m)'
  BY DEF Installing, Mgr
<1>5. ASSUME NEW a \in Apps, Fire(a) PROVE UNCHANGED call
  BY <1>5 DEF Fire, FireBegin, FireNext, FireEnds, FireRaises, CreateQueue, ReadQueue, Enqueue,
       trackingVars
<1>6. UNCHANGED vars => UNCHANGED call
  BY DEF vars, trackingVars
<1> QED
  BY <1>3, <1>4, <1>5, <1>6 DEF Next

\* Only start enables a domain.
LEMMA EnabledByInstall ==
  ASSUME ManageInv, [Next]_vars, NEW m \in Managers, NEW d \in enabled'[m]
  PROVE  d \in enabled[m] \/ \E t \in Threads : Register(t) /\ Mgr(t) = m /\ Dom(t) = d
<1>0. enabled \in [Managers -> SUBSET Domains]
  BY DEF ManageInv, ManageTypes
<1>1. CASE \E t \in Threads : Register(t)
  <2>1. PICK t \in Threads : Register(t)
    BY <1>1
  <2>2. enabled' = [enabled EXCEPT ![Mgr(t)] = @ \cup {Dom(t)}]
    BY <2>1 DEF Register
  <2> QED
    BY <1>0, <2>1, <2>2
<1>2. CASE \E t \in Threads : BeginDisable(t)
  <2>1. PICK t \in Threads : BeginDisable(t)
    BY <1>2
  <2>2. enabled' = [enabled EXCEPT ![Mgr(t)] = @ \ {Dom(t)}]
    BY <2>1 DEF BeginDisable
  <2> QED
    BY <1>0, <2>2
<1>3. ASSUME NEW t \in Threads, ManageStep(t) \/ CloseQueue(t) \/ UnsetQueue(t),
             ~Register(t), ~BeginDisable(t)
      PROVE  enabled' = enabled
  BY <1>3 DEF ManageStep, Manage, Install, BeginInstall, LockInstall, StartManager, SkipDomain, EndStart,
       Uninstall, BeginUninstall, TakeInstance, TakeNothing, EndStop, Enable, BeginEnable, WrapLook,
       WrapApply, WrapFails, RegisterFails, Clear, ClearLook, ClearRestore, ClearEnds, CloseQueue,
       UnsetQueue, domainVars
<1>4. ASSUME NEW a \in Apps, Fire(a) PROVE enabled' = enabled
  BY <1>4 DEF Fire, FireBegin, FireNext, FireEnds, FireRaises, CreateQueue, ReadQueue, Enqueue,
       trackingVars, domainVars
<1>5. UNCHANGED vars => enabled' = enabled
  BY DEF vars, trackingVars, domainVars
<1> QED
  BY <1>1, <1>2, <1>3, <1>4, <1>5 DEF Next
-----------------------------------------------------------------------------
(* Firing, and the queue of Ingest.                                         *)

FirePlaces == {"idle", "next", "create", "read", "enqueue"}

Firings == [pc : FirePlaces, mgr : Managers \cup {0}, size : Nat, seen : SUBSET Domains,
            queue : 0..MaxQueues]

FireTypes ==
  /\ fire \in [Apps -> Firings]
  /\ queue \in [Managers -> 0..MaxQueues]
  /\ made \in [Managers -> SUBSET Queues]
  /\ late \in BOOLEAN
  /\ \A a \in Apps : fire[a].pc # "idle" => fire[a].mgr \in Managers

InsideBy(a, m) == fire[a].mgr = m /\ fire[a].pc \in {"create", "read", "enqueue"}

\* The effect of a step of Events.fire on the other threads and on its own.
OtherFires(a) == \A b \in Apps \ {a} : fire'[b] = fire[b]

LEMMA FireSteps ==
  ASSUME ManageInv, FireTypes, NEW a \in Apps, Fire(a)
  PROVE  /\ FireTypes' /\ OtherFires(a)
         /\ \A m \in Managers : InsideBy(a, m)' =>
              \/ InsideBy(a, m)
              \/ Ingest \in registered[m]
<1> USE DEF FireTypes
<1>1. fire[a] \in Firings /\ MaxQueues \in Nat /\ 0 \in 0..MaxQueues
  BY EventsAssumption
<1>2. CASE FireBegin(a)
  <2>1. PICK m \in Managers :
          fire' = [fire EXCEPT ![a] = [NotFiring EXCEPT !.pc = "next", !.mgr = m,
                                         !.size = Cardinality(registered[m])]]
    BY <1>2 DEF FireBegin
  <2>2. Cardinality(registered[m]) \in Nat
    <3>1. registered[m] \subseteq Domains /\ IsFiniteSet(Domains)
      BY ManagerAssumption DEF ManageInv, ManageTypes
    <3>2. IsFiniteSet(registered[m])
      BY <3>1, FS_Subset
    <3> QED
      BY <3>2, FS_CardinalityType
  <2> DEFINE f == [NotFiring EXCEPT !.pc = "next", !.mgr = m, !.size = Cardinality(registered[m])]
  <2>3. f \in Firings /\ f.pc = "next" /\ f.mgr = m
    BY <1>1, <2>2 DEF NotFiring, Firings, FirePlaces
  <2>4. fire' = [fire EXCEPT ![a] = f]
    BY <2>1
  <2> HIDE DEF f
  <2>5. fire' \in [Apps -> Firings] /\ fire'[a] = f /\ OtherFires(a)
    BY <2>3, <2>4 DEF OtherFires
  <2>6. queue' = queue /\ made' = made /\ late' = late
    BY <1>2 DEF FireBegin
  <2> QED
    BY <2>3, <2>5, <2>6 DEF InsideBy, OtherFires
<1>3. CASE FireNext(a)
  <2>1. fire[a].pc = "next" /\ fire[a].mgr \in Managers /\ queue' = queue /\ made' = made /\ late' = late
    BY <1>3 DEF FireNext
  <2>2. PICK d \in registered[fire[a].mgr] \ fire[a].seen :
          fire' = IF d = Ingest
                  THEN [fire EXCEPT ![a].pc = IF queue[fire[a].mgr] = 0 THEN "create" ELSE "read"]
                  ELSE [fire EXCEPT ![a].seen = @ \cup {d}]
    BY <1>3 DEF FireNext
  <2>3. CASE d = Ingest
    <3>1. /\ fire' \in [Apps -> Firings] /\ OtherFires(a)
          /\ fire'[a].mgr = fire[a].mgr /\ fire'[a].pc \in {"create", "read"}
      BY <1>1, <2>2, <2>3 DEF Firings, FirePlaces, OtherFires
    <3> QED
      BY <2>1, <2>2, <2>3, <3>1 DEF InsideBy, OtherFires
  <2>4. CASE d # Ingest
    <3>1. d \in Domains
      BY <2>1, <2>2 DEF ManageInv, ManageTypes
    <3>2. /\ fire' \in [Apps -> Firings] /\ OtherFires(a)
          /\ fire'[a].mgr = fire[a].mgr /\ fire'[a].pc = "next"
      BY <1>1, <2>1, <2>2, <2>4, <3>1 DEF Firings, OtherFires
    <3> QED
      BY <2>1, <3>2 DEF InsideBy, OtherFires
  <2> QED
    BY <2>3, <2>4
<1>4. CASE FireEnds(a) \/ FireRaises(a)
  <2>1. fire' = [fire EXCEPT ![a] = NotFiring] /\ queue' = queue /\ made' = made /\ late' = late
    BY <1>4 DEF FireEnds, FireRaises
  <2>2. NotFiring \in Firings /\ NotFiring.pc = "idle"
    BY <1>1 DEF NotFiring, Firings, FirePlaces
  <2>3. fire' \in [Apps -> Firings] /\ fire'[a].pc = "idle" /\ OtherFires(a)
    BY <2>1, <2>2 DEF OtherFires
  <2> QED
    BY <2>1, <2>3 DEF InsideBy, OtherFires
<1>5. CASE CreateQueue(a)
  <2>1. fire[a].pc = "create" /\ fire[a].mgr \in Managers /\ late' = late
    BY <1>5 DEF CreateQueue
  <2>2. /\ fire' = [fire EXCEPT ![a].pc = "read"]
        /\ \E q \in Queues : /\ made' = [made EXCEPT ![fire[a].mgr] = @ \cup {q}]
                            /\ queue' = [queue EXCEPT ![fire[a].mgr] = q]
    BY <1>5 DEF CreateQueue
  <2>3. made' \in [Managers -> SUBSET Queues] /\ queue' \in [Managers -> 0..MaxQueues]
    <3>1. PICK q \in Queues : /\ made' = [made EXCEPT ![fire[a].mgr] = @ \cup {q}]
                              /\ queue' = [queue EXCEPT ![fire[a].mgr] = q]
      BY <2>2
    <3>2. q \in 0..MaxQueues
      BY <1>1 DEF Queues
    <3>3. queue' \in [Managers -> 0..MaxQueues]
      BY <3>1, <3>2
    <3>4. made[fire[a].mgr] \cup {q} \subseteq Queues
      BY <2>1
    <3> QED
      BY <3>1, <3>3, <3>4
  <2>4. /\ fire' \in [Apps -> Firings] /\ OtherFires(a)
        /\ fire'[a].mgr = fire[a].mgr /\ fire'[a].pc = "read"
    BY <1>1, <2>2 DEF Firings, FirePlaces, OtherFires
  <2> QED
    BY <2>1, <2>3, <2>4 DEF InsideBy, OtherFires
<1>6. ASSUME fire[a].pc \in {"read", "enqueue"}, HandlerEnds(a)
      PROVE  /\ fire' \in [Apps -> Firings] /\ OtherFires(a)
             /\ fire'[a].mgr = fire[a].mgr /\ fire'[a].pc = "next"
  <2>1. Ingest \in Domains
    BY ManagerAssumption
  <2> QED
    BY <1>1, <1>6, <2>1 DEF HandlerEnds, Firings, FirePlaces, OtherFires
<1>7. CASE ReadQueue(a)
  <2>1. fire[a].pc = "read" /\ fire[a].mgr \in Managers /\ queue' = queue /\ made' = made /\ late' = late
    BY <1>7 DEF ReadQueue
  <2>2. CASE queue[fire[a].mgr] = 0
    <3>1. HandlerEnds(a)
      BY <1>7, <2>2 DEF ReadQueue
    <3> QED
      BY <1>6, <2>1, <3>1 DEF InsideBy, OtherFires
  <2>3. CASE queue[fire[a].mgr] # 0
    <3>1. fire' = [fire EXCEPT ![a].pc = "enqueue", ![a].queue = queue[fire[a].mgr]]
      BY <1>7, <2>3 DEF ReadQueue
    <3>2. queue[fire[a].mgr] \in 0..MaxQueues
      BY <2>1
    <3>3. /\ fire' \in [Apps -> Firings] /\ OtherFires(a)
          /\ fire'[a].mgr = fire[a].mgr /\ fire'[a].pc = "enqueue"
      BY <1>1, <3>1, <3>2 DEF Firings, FirePlaces, OtherFires
    <3> QED
      BY <2>1, <3>3 DEF InsideBy, OtherFires
  <2> QED
    BY <2>2, <2>3
<1>8. CASE Enqueue(a)
  <2>1. fire[a].pc = "enqueue" /\ HandlerEnds(a) /\ queue' = queue /\ made' = made /\ late' = late
    BY <1>8 DEF Enqueue
  <2> QED
    BY <1>6, <2>1 DEF InsideBy, OtherFires
<1> QED
  BY <1>2, <1>3, <1>4, <1>5, <1>7, <1>8 DEF Fire

\* A step of a managing thread leaves the firing threads alone.
LEMMA FiresKept ==
  ASSUME FireTypes, NEW t \in Threads, ManageStep(t) \/ CloseQueue(t) \/ UnsetQueue(t), ManageInv
  PROVE  FireTypes' /\ fire' = fire /\ made' = made
<1>1. fire' = fire /\ made' = made /\ (late' = late \/ late' = (late \/ Inside(Mgr(t))))
  BY DEF ManageStep, CloseQueue, UnsetQueue
<1>2. queue' = queue \/ queue' = [queue EXCEPT ![Mgr(t)] = 0]
  BY DEF ManageStep, CloseQueue, UnsetQueue
<1>3. 0 \in 0..MaxQueues
  BY EventsAssumption
<1> QED
  BY <1>1, <1>2, <1>3 DEF FireTypes

\* No thread fires.
LEMMA FireInit == Init => FireTypes
<1> SUFFICES ASSUME Init PROVE FireTypes
  OBVIOUS
<1>1. 0 \in 0..MaxQueues
  BY EventsAssumption
<1>2. NotFiring \in Firings /\ NotFiring.pc = "idle"
  BY <1>1 DEF NotFiring, Firings, FirePlaces
<1>3. /\ fire = [a \in Apps |-> NotFiring]
      /\ queue = [m \in Managers |-> 0] /\ made = [m \in Managers |-> {}] /\ late = FALSE
  BY DEF Init
<1>4. fire \in [Apps -> Firings] /\ \A a \in Apps : fire[a].pc = "idle"
  BY <1>2, <1>3
<1>5. queue \in [Managers -> 0..MaxQueues]
  BY <1>1, <1>3
<1>6. made \in [Managers -> SUBSET Queues] /\ late \in BOOLEAN
  BY <1>3
<1> QED
  BY <1>4, <1>5, <1>6 DEF FireTypes

\* Every step preserves the types of firing.
LEMMA FireTypesNext ==
  ASSUME ManageInv, FireTypes, [Next]_vars
  PROVE  FireTypes'
<1>1. UNCHANGED vars => FireTypes'
  BY DEF vars, FireTypes
<1> QED
  BY <1>1, FireSteps, FiresKept DEF Next

\* No member is wrapped.
LEMMA WrapTypesInit == Init => WrapTypes
<1> SUFFICES ASSUME Init PROVE WrapTypes
  OBVIOUS
<1>1. \A x \in Members : Original(x) \in Seq(Layers) \cup {Absent}
  BY DEF Original
<1>2. [x \in Members |-> Original(x)] \in [Members -> Seq(Layers) \cup {Absent}]
  BY <1>1
<1>3. records = [m \in Managers |-> [d \in Domains |-> [x \in Members |-> "none"]]]
      /\ entry = [x \in Members |-> Original(x)]
  BY DEF Init, TrackingInit
<1> HIDE DEF Original
<1> QED
  BY <1>2, <1>3 DEF WrapTypes

BaseInv == ManageInv /\ WrapTypes /\ FireTypes

\* In every behaviour the calls, managers, locks and flags fit together.
LEMMA BaseHolds == Spec => []BaseInv
<1>1. Init => BaseInv
  BY ManageInit, WrapTypesInit, FireInit DEF BaseInv
<1>2. BaseInv /\ [Next]_vars => BaseInv'
  BY ManageNext, WrapTypesNext, FireTypesNext DEF BaseInv
<1> QED
  BY <1>1, <1>2, PTL DEF Spec

\* Nobody enables Ingest or enters a handler of it once it is disabled.
LEMMA CalmStays ==
  ASSUME BaseInv, [Next]_vars, NEW m \in Managers, Calm(m)
  PROVE  Calm(m)'
<1> USE DEF BaseInv
<1>1. m <= created /\ ~Installing(m) /\ Ingest \notin enabled[m] /\ \A a \in Apps : ~InsideBy(a, m)
  BY DEF Calm, Inside, InsideBy
<1>2. m <= created'
  <2>1. created \in Nat /\ m \in Nat
    BY ManagerAssumption DEF ManageInv, ManageTypes, Managers
  <2>2. created' = created \/ created' = created + 1
    <3>1. ASSUME NEW t \in Threads, ManageStep(t) \/ CloseQueue(t) \/ UnsetQueue(t)
          PROVE  created' = created \/ created' = created + 1
      BY <3>1 DEF ManageStep, Manage, Install, BeginInstall, LockInstall, StartManager, SkipDomain,
           EndStart, Uninstall, BeginUninstall, TakeInstance, TakeNothing, BeginDisable, EndStop, Enable,
           BeginEnable, WrapLook, WrapApply, WrapFails, Register, RegisterFails, Clear, ClearLook,
           ClearRestore, ClearEnds, CloseQueue, UnsetQueue, managerVars
    <3>2. ASSUME NEW a \in Apps, Fire(a) PROVE created' = created
      BY <3>2 DEF Fire, FireBegin, FireNext, FireEnds, FireRaises, CreateQueue, ReadQueue, Enqueue,
           trackingVars, managerVars
    <3>3. UNCHANGED vars => created' = created
      BY DEF vars, trackingVars, managerVars
    <3> QED
      BY <3>1, <3>2, <3>3 DEF Next
  <2> QED
    BY <1>1, <2>1, <2>2
<1>3. ~Installing(m)'
  BY <1>1, NotInstalledAgain
<1>4. Ingest \notin enabled'[m]
  <2> SUFFICES ASSUME Ingest \in enabled'[m] PROVE FALSE
    OBVIOUS
  <2>1. PICK t \in Threads : Register(t) /\ Mgr(t) = m
    BY <1>1, EnabledByInstall
  <2> QED
    BY <1>1, <2>1 DEF Register, At, Installing
<1>5. ASSUME NEW a \in Apps PROVE ~InsideBy(a, m)'
  <2>1. Ingest \notin registered[m]
    BY <1>1 DEF ManageInv, EnabledOK
  <2>2. ASSUME NEW b \in Apps, Fire(b) PROVE ~InsideBy(a, m)'
    <3>1. CASE a = b
      BY <1>1, <2>1, <2>2, <3>1, FireSteps
    <3>2. CASE a # b
      BY <1>1, <2>2, <3>2, FireSteps DEF OtherFires, InsideBy
    <3> QED
      BY <3>1, <3>2
  <2>3. fire' = fire => ~InsideBy(a, m)'
    BY <1>1 DEF InsideBy
  <2>4. ASSUME NEW t \in Threads, ManageStep(t) \/ CloseQueue(t) \/ UnsetQueue(t) PROVE fire' = fire
    BY <2>4, FiresKept
  <2>5. UNCHANGED vars => fire' = fire
    BY DEF vars
  <2> QED
    BY <2>2, <2>3, <2>4, <2>5 DEF Next
<1> QED
  BY <1>2, <1>3, <1>4, <1>5 DEF Calm, Inside, InsideBy

\* Domain.disable, Ingest.disable: once Ingest is disabled, or has failed to start, and
\* its handlers have returned, none runs again for this manager, whatever is installed
\* and uninstalled around it.
THEOREM QuietAfterDisable == Spec => DisabledStaysQuiet
<1>1. BaseInv /\ [Next]_vars => [\A m \in Managers : Calm(m) => Calm(m)']_vars
  BY CalmStays
<1> QED
  BY <1>1, BaseHolds, PTL DEF Spec, DisabledStaysQuiet

\* Ingest is not enabled, and nobody is about to close its queue.
Closing(t, m) ==
  call[t].mode = "uninstall" /\ call[t].pc \in {"clear", "restore", "close"}
    /\ call[t].mgr = m /\ Dom(t) = Ingest

Closed(m) == Ingest \notin enabled[m] /\ \A t \in Threads : ~Closing(t, m)

\* No handler of Ingest can have run: the manager is not created, or Ingest is yet to start.
Starting(t, m) ==
  call[t].mode = "install" /\ Busy(t) /\ call[t].mgr = m /\ Ingest \in ToSet(call[t].todo)

Fresh(m) == m > created \/ \E t \in Threads : Starting(t, m)

QueuesOK ==
  /\ \A m, n \in Managers : m # n => made[m] \cap made[n] = {}
  /\ running \subseteq Created
  /\ \A m \in Managers : queue[m] \in made[m] \cup {0}
  /\ \A a \in Apps : fire[a].pc = "enqueue" => fire[a].queue \in made[fire[a].mgr]
  /\ \A t \in Threads : call[t].pc \in {"close", "unset"} => Dom(t) = Ingest

NobodyIn(m) == \A a \in Apps : ~InsideBy(a, m)

FreshOK == \A m \in Managers : Fresh(m) => made[m] = {} /\ NobodyIn(m)

\* An open domain without a queue has made none; a closed one has no handler left,
\* and a queue of its own that it made alone has ended.
Ended(m) == NobodyIn(m) /\ (Cardinality(made[m]) <= 1 => running \cap made[m] = {})
Unmade(m) == queue[m] = 0 => made[m] = {}

EndOK == ~late => \A m \in Managers : IF Closed(m) THEN Ended(m) ELSE Unmade(m)

QueueInv == QueuesOK /\ FreshOK /\ EndOK

\* Two queues of a manager are more than one.
LEMMA OnlyQueue ==
  ASSUME NEW S, NEW q \in S, IsFiniteSet(S), Cardinality(S) <= 1 PROVE S = {q}
<1> SUFFICES ASSUME NEW r \in S, r # q PROVE FALSE
  OBVIOUS
<1>1. {q, r} \subseteq S
  OBVIOUS
<1>2. Cardinality({q, r}) <= Cardinality(S)
  BY <1>1, FS_Subset
<1>3. Cardinality({q, r}) = 2
  <2>1. IsFiniteSet({q}) /\ Cardinality({q}) = 1
    BY FS_Singleton
  <2>2. Cardinality({q} \cup {r}) = Cardinality({q}) + 1
    BY <2>1, FS_AddElement
  <2>3. {q} \cup {r} = {q, r}
    OBVIOUS
  <2> QED
    BY <2>1, <2>2, <2>3
<1>4. Cardinality(S) \in Nat
  BY FS_CardinalityType
<1> QED
  BY <1>2, <1>3, <1>4

\* No queue has been made.
LEMMA QueueInit == Init => QueueInv
<1> SUFFICES ASSUME Init PROVE QueueInv
  OBVIOUS
<1>1. /\ \A m \in Managers : made[m] = {} /\ queue[m] = 0
      /\ \A a \in Apps : fire[a].pc = "idle"
      /\ \A t \in Threads : call[t].pc = "idle"
      /\ running = {}
  BY DEF Init, TrackingInit, NotFiring, Idle
<1>2. QueuesOK /\ FreshOK
  BY <1>1 DEF QueuesOK, FreshOK, NobodyIn, InsideBy
<1>3. EndOK
  BY <1>1 DEF EndOK, Ended, Unmade, NobodyIn, InsideBy
<1> QED
  BY <1>2, <1>3 DEF QueueInv

\* A manager that is not fresh stays so.
LEMMA FreshBefore ==
  ASSUME BaseInv, NEW t \in Threads, ManageStep(t) \/ CloseQueue(t) \/ UnsetQueue(t),
         NEW m \in Managers, Fresh(m)'
  PROVE  Fresh(m)
<1> USE DEF BaseInv
<1>1. created \in Nat /\ m \in Nat /\ (created' = created \/ created' = created + 1)
  BY ManagerAssumption, SMTT(30) DEF ManageStep, Manage, Install, BeginInstall, LockInstall, StartManager, SkipDomain,
     EndStart, Uninstall, BeginUninstall, TakeInstance, TakeNothing, BeginDisable, EndStop, Enable,
     BeginEnable, WrapLook, WrapApply, WrapFails, Register, RegisterFails, Clear, ClearLook,
     ClearRestore, ClearEnds, CloseQueue, UnsetQueue, managerVars, ManageInv, ManageTypes, Managers
<1>2. m > created' => m > created
  BY <1>1
<1>3. ASSUME NEW u \in Threads, Starting(u, m)' PROVE Fresh(m)
  <2>1. CASE u # t
    <3>1. call'[u] = call[u]
      BY <2>1, CallSteps DEF OthersKept
    <3> QED
      BY <1>3, <3>1 DEF Starting, Fresh, Busy
  <2>2. CASE u = t
    <3>1. CASE StartManager(t) /\ call'[t].mgr = created + 1
      BY <1>1, <1>3, <2>2, <3>1 DEF Starting, Fresh
    <3>2. CASE call'[t].mode = call[t].mode /\ call'[t].mgr = call[t].mgr
      <4>1. Busy(t)
        <5>1. call'[t].mgr # 0
          BY <1>3, <2>2, ManagerAssumption DEF Starting, Managers
        <5>2. Located(t) /\ call[t].mgr # 0
          BY <3>2, <5>1 DEF ManageInv
        <5> QED
          BY <5>2 DEF Located, Busy, Idle
      <4>2. ToSet(call'[t].todo) \subseteq ToSet(call[t].todo)
        <5>1. \/ call'[t].todo = call[t].todo
              \/ call'[t].todo = Tail(call[t].todo) /\ call[t].todo # <<>>
          <6>0. call \in [Threads -> Calls] /\ call[t].mode = "install" /\ Located(t) /\ Busy(t)'
            BY <1>3, <2>2, <3>2 DEF Starting, ManageInv, ManageTypes, CallTypes
          <6>1. CASE NextDomain(t) /\ call[t].todo # <<>>
            BY <6>1, NextDomainEffect DEF ManageInv, ManageTypes
          <6>2. ASSUME NEW p \in Places, Goto(t, p) PROVE call'[t].todo = call[t].todo
            BY <6>2, GotoEffect DEF ManageInv, ManageTypes
          <6>3. CASE BeginEnable(t) \/ WrapApply(t) \/ ClearRestore(t)
            BY <6>0, <6>3 DEF BeginEnable, WrapApply, ClearRestore, Calls
          <6>4. CASE WrapLook(t) \/ WrapFails(t) \/ RegisterFails(t)
            <7>1. Goto(t, "apply") \/ Goto(t, "clear")
              BY <6>4 DEF WrapLook, WrapFails, RegisterFails
            <7>2. "apply" \in Places /\ "clear" \in Places
              BY DEF Places
            <7>3. call'[t].todo = call[t].todo
              BY <6>2, <7>1, <7>2
            <7> QED
              BY <7>3
          <6>8. CASE ClearLook(t)
            <7>1. PICK x \in Members :
                    \/ call' = [call EXCEPT
                         ![t].pc = "restore",
                         ![t].top = [member |-> x, owned |-> records[Mgr(t)][Dom(t)][x] = "owned",
                                     below |-> Front(Chain(x))]]
                    \/ call' = call
              BY <6>8, ClearLooks
            <7>2. call'[t].todo = call[t].todo
              BY <6>0, <7>1 DEF Calls
            <7> QED
              BY <7>2
          <6>5. CASE Register(t) \/ SkipDomain(t) \/ ClearEnds(t)
            BY <6>0, <6>1, <6>5 DEF Register, SkipDomain, ClearEnds, Located, At
          <6>6. CASE BeginInstall(t) \/ LockInstall(t) \/ EndStart(t)
            <7>1. ~(BeginInstall(t) \/ LockInstall(t))
              BY <4>1, <6>6 DEF BeginInstall, LockInstall, At, Busy, Idle
            <7>2. ~EndStart(t)
              BY <6>0, StartEnds DEF Idle, Busy
            <7> QED
              BY <6>6, <7>1, <7>2
          <6>7. ~(Uninstall(t) \/ CloseQueue(t) \/ UnsetQueue(t))
            BY <6>0, CloseKept DEF Uninstall, BeginUninstall, TakeInstance, TakeNothing, BeginDisable,
               EndStop, At, Idle
          <6> QED
            BY <6>3, <6>4, <6>5, <6>6, <6>7, <6>8 DEF ManageStep, Manage, Install, Enable, Clear
        <5>2. call[t].todo \in Seq(Domains) /\ RestOfOrder(call[t].todo)
          BY <4>1 DEF ManageInv, ManageTypes, CallTypes, Calls, Located
        <5> QED
          BY <5>1, <5>2, RestTail
      <4>3. Starting(t, m)
        <5>1. ToSet(call[t].todo)' = ToSet(call'[t].todo)
          BY DEF ToSet
        <5> QED
          BY <1>3, <2>2, <3>2, <4>1, <4>2, <5>1 DEF Starting
      <4> QED
        BY <4>3 DEF Fresh
    <3>3. CASE ~Busy(t)'
      BY <1>3, <2>2, <3>3 DEF Starting
    <3>4. CASE call'[t].mode = "uninstall"
      BY <1>3, <2>2, <3>4 DEF Starting
    <3> QED
      BY <3>1, <3>2, <3>3, <3>4, CallSteps
  <2> QED
    BY <2>1, <2>2
<1> QED
  BY <1>2, <1>3 DEF Fresh

\* How a thread comes to the end of disable, and through it.
StepPlaces(t) ==
  /\ call'[t].mode = "uninstall" /\ call'[t].pc \in {"clear", "restore", "close"} =>
       /\ call[t].mode = "uninstall" /\ call'[t].mgr = call[t].mgr /\ call'[t].todo = call[t].todo
       /\ call[t].pc \in {"clear", "restore"} \/ Dom(t) \in enabled[call[t].mgr]
  /\ call'[t].pc \in {"close", "unset"} =>
       call'[t].todo = call[t].todo /\ (call[t].pc = "close" \/ Dom(t) = Ingest)
  /\ (/\ call[t].mode = "uninstall" /\ call[t].pc \in {"clear", "restore", "close"}
      /\ Dom(t) = Ingest /\ ~CloseQueue(t)) =>
       /\ call'[t].mode = "uninstall" /\ call'[t].pc \in {"clear", "restore", "close"}
       /\ call'[t].mgr = call[t].mgr /\ call'[t].todo = call[t].todo

LEMMA StepPlacesHold ==
  ASSUME BaseInv, NEW t \in Threads, ManageStep(t) \/ CloseQueue(t) \/ UnsetQueue(t)
  PROVE  StepPlaces(t)
<1> USE DEF BaseInv
<1>1. CallTypes /\ Located(t)
  BY DEF ManageInv, ManageTypes
<1>2. ASSUME NEW p \in Places, Goto(t, p)
      PROVE  /\ call'[t].mode = call[t].mode /\ call'[t].pc = p /\ call'[t].mgr = call[t].mgr
             /\ call'[t].todo = call[t].todo
  BY <1>1, <1>2, GotoEffect
<1>3. "apply" \in Places /\ "clear" \in Places /\ "close" \in Places /\ "unset" \in Places
  BY DEF Places
<1>4. ASSUME call[t].pc \notin {"clear", "restore", "close"}, call'[t].pc = "next" \/ ~Busy(t)'
      PROVE  StepPlaces(t)
  BY <1>4 DEF StepPlaces, Busy
<1>5. CASE Install(t)
  <2>1. CASE BeginInstall(t)
    <3>1. call[t].pc = "idle"
      BY <2>1 DEF BeginInstall, Idle
    <3>2. ~Busy(t)'
      BY <2>1, CallBegins
    <3> QED
      BY <1>4, <3>1, <3>2
  <2>2. CASE LockInstall(t)
    <3>1. CASE instance = 0 /\ StartManager(t)
      BY <1>4, <2>2, <3>1, StartKept DEF LockInstall, At
    <3>2. CASE ~(instance = 0 /\ StartManager(t))
      BY <1>4, <2>2, <3>2, CallEnds DEF LockInstall, At
    <3> QED
      BY <3>1, <3>2
  <2>3. CASE SkipDomain(t)
    BY <1>1, <1>4, <2>3, NextDomainEffect DEF SkipDomain, At
  <2>4. CASE EndStart(t)
    BY <1>4, <2>4, StartEnds DEF EndStart, At, Idle, Busy
  <2> QED
    BY <1>5, <2>1, <2>2, <2>3, <2>4 DEF Install
<1>6. CASE Enable(t)
  <2>1. call[t].mode = "install" /\ call'[t].mode = "install" /\ ManageInv'
    BY <1>6, EnableKept DEF Enable, BeginEnable, WrapLook, WrapApply, WrapFails, Register, RegisterFails, At
  <2>2. Located(t)'
    BY <2>1 DEF ManageInv
  <2> QED
    BY <2>1, <2>2 DEF StepPlaces, Located
<1>7. CASE Uninstall(t)
  <2>1. CASE BeginUninstall(t)
    <3>1. call[t].pc = "idle"
      BY <2>1 DEF BeginUninstall, Idle
    <3>2. ~Busy(t)'
      BY <2>1, CallBegins
    <3> QED
      BY <1>4, <3>1, <3>2
  <2>2. CASE TakeInstance(t)
    BY <1>4, <2>2, TakeKept DEF TakeInstance, At
  <2>3. CASE TakeNothing(t) \/ EndStop(t)
    BY <1>4, <2>3, CallEnds DEF TakeNothing, EndStop, At
  <2>4. CASE BeginDisable(t)
    BY <2>4, DisableKept DEF BeginDisable, At, StepPlaces
  <2> QED
    BY <1>7, <2>1, <2>2, <2>3, <2>4 DEF Uninstall
<1>8. CASE ClearLook(t)
  <2>1. PICK x \in Members :
          \/ call' = [call EXCEPT
               ![t].pc = "restore",
               ![t].top = [member |-> x, owned |-> records[Mgr(t)][Dom(t)][x] = "owned",
                           below |-> Front(Chain(x))]]
          \/ call' = call
    BY <1>8, ClearLooks
  <2>2. /\ call[t].pc = "clear" /\ call'[t].pc \in {"clear", "restore"}
        /\ call'[t].todo = call[t].todo /\ call'[t].mode = call[t].mode /\ call'[t].mgr = call[t].mgr
    BY <1>1, <1>8, <2>1 DEF ClearLook, CallTypes, Calls
  <2> QED
    BY <2>2 DEF StepPlaces
<1>9. CASE ClearRestore(t)
  <2>1. call[t].pc = "restore" /\ call' = [call EXCEPT ![t].pc = "clear", ![t].top = NoTop]
    BY <1>9 DEF ClearRestore
  <2>2. /\ call'[t].pc = "clear"
        /\ call'[t].todo = call[t].todo /\ call'[t].mode = call[t].mode /\ call'[t].mgr = call[t].mgr
    BY <1>1, <2>1 DEF CallTypes, Calls
  <2> QED
    BY <2>1, <2>2 DEF StepPlaces
<1>10. CASE ClearEnds(t)
  <2>1. call[t].pc = "clear" /\ call[t].todo # <<>>
    BY <1>1, <1>10 DEF ClearEnds, Located
  <2>2. CASE call[t].mode = "uninstall" /\ Dom(t) = Ingest
    <3>1. Goto(t, "close")
      BY <1>10, <2>2 DEF ClearEnds
    <3> QED
      BY <1>2, <1>3, <2>1, <2>2, <3>1 DEF StepPlaces
  <2>3. CASE ~(call[t].mode = "uninstall" /\ Dom(t) = Ingest)
    <3>1. call'[t].pc = "next"
      BY <1>1, <1>10, <2>1, <2>3, NextDomainEffect DEF ClearEnds
    <3> QED
      BY <2>1, <2>3, <3>1 DEF StepPlaces
  <2> QED
    BY <2>2, <2>3
<1>11. CASE CloseQueue(t)
  <2>1. call[t].pc = "close" /\ call[t].todo # <<>> /\ (Goto(t, "unset") \/ NextDomain(t))
    BY <1>1, <1>11 DEF CloseQueue, Located
  <2>2. CASE Goto(t, "unset")
    BY <1>2, <1>3, <1>11, <2>1, <2>2 DEF StepPlaces
  <2>3. CASE NextDomain(t)
    BY <1>1, <1>11, <2>1, <2>3, NextDomainEffect DEF StepPlaces
  <2> QED
    BY <2>1, <2>2, <2>3
<1>12. CASE UnsetQueue(t)
  <2>1. call[t].pc = "unset" /\ call[t].todo # <<>> /\ NextDomain(t)
    BY <1>1, <1>12 DEF UnsetQueue, Located
  <2> QED
    BY <1>1, <1>4, <2>1, NextDomainEffect
<1> QED
  BY <1>5, <1>6, <1>7, <1>8, <1>9, <1>10, <1>11, <1>12 DEF ManageStep, Manage, Clear

\* The steps of a managing thread preserve QueueInv.
LEMMA ManageQueue ==
  ASSUME BaseInv, QueueInv, NEW t \in Threads, ManageStep(t) \/ CloseQueue(t) \/ UnsetQueue(t),
         [Next]_vars
  PROVE  QueueInv'
<1> USE DEF BaseInv, QueueInv
<1>1. /\ fire' = fire /\ made' = made /\ OthersKept(t) /\ StepPlaces(t) /\ FireTypes'
  BY FiresKept, CallSteps, StepPlacesHold
<1>2. ASSUME NEW m \in Managers PROVE NobodyIn(m)' <=> NobodyIn(m)
  BY <1>1 DEF NobodyIn, InsideBy
<1>3. \/ ManageStep(t) /\ running' = running /\ queue' = queue /\ late' = late
      \/ /\ CloseQueue(t) /\ queue' = queue
         /\ running' = running \ {queue[call[t].mgr]}
         /\ late' = (late \/ Inside(call[t].mgr))
      \/ /\ UnsetQueue(t) /\ running' = running /\ late' = late
         /\ queue' = [queue EXCEPT ![call[t].mgr] = 0]
  BY DEF ManageStep, CloseQueue, UnsetQueue, Mgr
<1>4. ASSUME NEW u \in Threads, u # t
      PROVE  /\ call'[u] = call[u] /\ Dom(u)' = Dom(u)
             /\ \A m \in Managers : Closing(u, m)' <=> Closing(u, m)
  BY <1>1, <1>4 DEF OthersKept, Closing, Dom
<1>5. call'[t].todo = call[t].todo => Dom(t)' = Dom(t)
  BY DEF Dom
<1>6. FreshOK'
  BY <1>1, <1>2, FreshBefore DEF FreshOK
<1>7. QueuesOK'
  <2>1. running' \subseteq Created'
    BY <1>1, <1>3 DEF QueuesOK, Created
  <2>2. \A m \in Managers : queue'[m] \in made'[m] \cup {0}
    BY <1>1, <1>3 DEF QueuesOK, FireTypes
  <2>3. \A u \in Threads : call'[u].pc \in {"close", "unset"} => Dom(u)' = Ingest
    <3>1. ASSUME call'[t].pc \in {"close", "unset"} PROVE Dom(t)' = Ingest
      BY <1>1, <1>5, <3>1 DEF StepPlaces, QueuesOK
    <3> QED
      BY <1>4, <3>1 DEF QueuesOK
  <2> QED
    BY <1>1, <2>1, <2>2, <2>3 DEF QueuesOK
<1>8. ASSUME NEW m \in Managers, Closed(m), ~Closed(m)' PROVE Fresh(m)
  <2>1. CASE Ingest \in enabled'[m]
    <3>1. PICK u \in Threads : Register(u) /\ Mgr(u) = m /\ Dom(u) = Ingest
      BY <1>8, <2>1, EnabledByInstall DEF Closed
    <3>2. Busy(u) /\ call[u].mode = "install" /\ call[u].mgr = m /\ call[u].todo # <<>>
      BY <3>1 DEF Register, At, Busy, Mgr, ManageInv, Located
    <3>3. Ingest \in ToSet(call[u].todo)
      BY <3>1, <3>2, AtDomain
    <3> QED
      BY <3>2, <3>3 DEF Fresh, Starting
  <2>2. ASSUME NEW u \in Threads, Closing(u, m)' PROVE FALSE
    <3>1. CASE u # t
      BY <1>4, <1>8, <2>2, <3>1 DEF Closed
    <3>2. CASE u = t
      <4>1. call'[t].mode = "uninstall" /\ call'[t].pc \in {"clear", "restore", "close"} /\ Dom(t)' = Ingest
            /\ call'[t].mgr = m
        BY <2>2, <3>2 DEF Closing
      <4>2. /\ call[t].mode = "uninstall" /\ call[t].mgr = m /\ Dom(t) = Ingest
            /\ call[t].pc \in {"clear", "restore"} \/ Dom(t) \in enabled[m]
        BY <1>1, <1>5, <4>1 DEF StepPlaces
      <4> QED
        BY <1>8, <4>2 DEF Closed, Closing
    <3> QED
      BY <3>1, <3>2
  <2> QED
    BY <1>8, <2>1, <2>2 DEF Closed
<1>9. ASSUME NEW m \in Managers, ~Closed(m), Closed(m)' PROVE CloseQueue(t) /\ call[t].mgr = m
  <2>1. CASE Ingest \in enabled[m]
    <3>1. Ingest \notin enabled'[m]
      BY <1>9 DEF Closed
    <3>2. PICK u \in Threads : BeginDisable(u) /\ call[u].mgr = m /\ Dom(u) = Ingest
      <4>1. ASSUME NEW u \in Threads, ManageStep(u) \/ CloseQueue(u) \/ UnsetQueue(u), ~BeginDisable(u)
            PROVE  enabled[m] \subseteq enabled'[m]
        <5>1. enabled \in [Managers -> SUBSET Domains]
          BY DEF ManageInv, ManageTypes
        <5>2. enabled' = enabled \/ enabled' = [enabled EXCEPT ![Mgr(u)] = @ \cup {Dom(u)}]
          BY <4>1 DEF ManageStep, Manage, Install, BeginInstall, LockInstall, StartManager, SkipDomain,
             EndStart, Uninstall, BeginUninstall, TakeInstance, TakeNothing, EndStop, Enable, BeginEnable,
             WrapLook, WrapApply, WrapFails, Register, RegisterFails, Clear, ClearLook, ClearRestore,
             ClearEnds, CloseQueue, UnsetQueue, domainVars
        <5> QED
          BY <5>1, <5>2
      <4>2. BeginDisable(t)
        BY <2>1, <3>1, <4>1
      <4>3. enabled' = [enabled EXCEPT ![call[t].mgr] = @ \ {Dom(t)}]
        BY <4>2, DisableKept
      <4>4. enabled \in [Managers -> SUBSET Domains]
        BY DEF ManageInv, ManageTypes
      <4>5. call[t].mgr = m /\ Dom(t) = Ingest
        BY <2>1, <3>1, <4>3, <4>4
      <4> QED
        BY <4>2, <4>5
    <3>3. /\ call'[u].mode = "uninstall" /\ call'[u].mgr = m /\ call'[u].pc = "clear"
          /\ call'[u].todo = call[u].todo
      BY <2>1, <3>2, DisableKept
    <3>4. Dom(u)' = Ingest
      BY <3>2, <3>3 DEF Dom
    <3> QED
      BY <1>9, <3>3, <3>4 DEF Closed, Closing
  <2>2. ASSUME NEW u \in Threads, Closing(u, m) PROVE CloseQueue(t) /\ call[t].mgr = m
    <3>1. CASE u # t
      BY <1>4, <1>9, <2>2, <3>1 DEF Closed
    <3>2. CASE u = t /\ ~CloseQueue(t)
      <4>1. Closing(t, m)'
        BY <1>1, <1>5, <2>2, <3>2 DEF StepPlaces, Closing
      <4> QED
        BY <1>9, <4>1 DEF Closed
    <3>3. CASE u = t /\ CloseQueue(t)
      BY <2>2, <3>3 DEF Closing
    <3> QED
      BY <3>1, <3>2, <3>3
  <2> QED
    BY <1>9, <2>1, <2>2 DEF Closed
<1>10. EndOK'
  <2> SUFFICES ASSUME ~late', NEW m \in Managers
               PROVE  IF Closed(m)' THEN Ended(m)' ELSE Unmade(m)'
    BY DEF EndOK
  <2>1. /\ ~late /\ (IF Closed(m) THEN Ended(m) ELSE Unmade(m))
        /\ running' \subseteq running /\ queue[m] \in made[m] \cup {0}
    <3>1. ~late
      BY <1>3
    <3>2. running' \subseteq running
      BY <1>3
    <3> QED
      BY <3>1, <3>2 DEF EndOK, QueuesOK
  <2>2. CASE Closed(m) /\ Closed(m)'
    BY <1>1, <1>2, <2>1, <2>2 DEF Ended
  <2>3. CASE Closed(m) /\ ~Closed(m)'
    <3>1. made[m] = {}
      BY <1>8, <2>3 DEF FreshOK
    <3> QED
      BY <1>1, <2>3, <3>1 DEF Unmade
  <2>4. CASE ~Closed(m) /\ ~Closed(m)'
    <3>1. CASE queue'[m] = queue[m]
      BY <1>1, <2>1, <2>4, <3>1 DEF Unmade
    <3>2. CASE queue'[m] # queue[m]
      <4>1. UnsetQueue(t) /\ call[t].mgr = m
        BY <1>3, <3>2 DEF FireTypes
      <4>2. call[t].pc = "unset" /\ Busy(t)
        BY <4>1 DEF UnsetQueue, Busy
      <4>3. Dom(t) = Ingest /\ Ingest \notin enabled[m]
        BY <4>1, <4>2 DEF QueuesOK, ManageInv, EnabledOK, EnabledFor
      <4>4. ASSUME NEW u \in Threads, Closing(u, m) PROVE FALSE
        <5>1. Busy(u) /\ call[u].mgr = call[t].mgr
          BY <4>1, <4>4 DEF Closing, Busy
        <5>2. u = t
          BY <4>2, <5>1 DEF ManageInv, OwnerOK
        <5> QED
          BY <4>2, <4>4, <5>2 DEF Closing
      <4> QED
        BY <2>4, <4>3, <4>4 DEF Closed
    <3> QED
      BY <3>1, <3>2
  <2>5. CASE ~Closed(m) /\ Closed(m)'
    <3>1. CloseQueue(t) /\ call[t].mgr = m
      BY <1>9, <2>5
    <3>2. running' = running \ {queue[m]} /\ ~Inside(m)
      <4>1. ~ManageStep(t) \/ CloseQueue(t)
        BY <3>1
      <4>2. running' = running \ {queue[m]} /\ late' = (late \/ Inside(m))
        BY <3>1 DEF CloseQueue, Mgr
      <4> QED
        BY <4>2
    <3>3. NobodyIn(m)'
      BY <1>1, <3>2 DEF Inside, NobodyIn, InsideBy
    <3>4. ASSUME Cardinality(made[m]) <= 1 PROVE running' \cap made[m] = {}
      <4>1. CASE queue[m] = 0
        BY <2>1, <2>5, <4>1 DEF Unmade
      <4>2. CASE queue[m] # 0
        <5>1. queue[m] \in made[m] /\ IsFiniteSet(made[m])
          <6>1. made[m] \subseteq Queues /\ IsFiniteSet(Queues)
            BY FS_Interval, EventsAssumption DEF FireTypes, Queues
          <6> QED
            BY <2>1, <4>2, <6>1, FS_Subset
        <5>2. made[m] = {queue[m]}
          BY <3>4, <5>1, OnlyQueue
        <5> QED
          BY <3>2, <5>2
      <4> QED
        BY <4>1, <4>2
    <3> QED
      BY <1>1, <2>5, <3>3, <3>4 DEF Ended
  <2> QED
    BY <2>2, <2>3, <2>4, <2>5
<1> QED
  BY <1>6, <1>7, <1>10

\* The handlers run only while their domain is enabled, or late.
LEMMA FireQueue ==
  ASSUME BaseInv, QueueInv, NEW a \in Apps, Fire(a)
  PROVE  QueueInv'
<1> USE DEF BaseInv, QueueInv
<1>1. /\ FireTypes' /\ OtherFires(a)
      /\ \A m \in Managers : InsideBy(a, m)' => InsideBy(a, m) \/ Ingest \in registered[m]
  BY FireSteps
<1>2. /\ UNCHANGED trackingVars /\ late' = late
      /\ \A m \in Managers : registered[m] = enabled[m]
  BY DEF Fire, FireBegin, FireNext, FireEnds, FireRaises, CreateQueue, ReadQueue, Enqueue, ManageInv, EnabledOK
<1>3. call' = call /\ enabled' = enabled /\ created' = created
  BY <1>2 DEF trackingVars, domainVars, managerVars
<1>4. ASSUME NEW m \in Managers
      PROVE  (Closed(m)' <=> Closed(m)) /\ (Fresh(m)' <=> Fresh(m))
  BY <1>3 DEF Closed, Closing, Fresh, Starting, Busy, Dom
<1>5. ASSUME NEW m \in Managers, NobodyIn(m), Ingest \notin registered[m] PROVE NobodyIn(m)'
  BY <1>1, <1>5 DEF NobodyIn, InsideBy, OtherFires
<1>6. ASSUME NEW m \in Managers, Fresh(m) PROVE Ingest \notin enabled[m]
  <2>1. CASE m > created
    BY <2>1 DEF ManageInv, EnabledOK
  <2>2. ASSUME NEW t \in Threads, Starting(t, m) PROVE Ingest \notin enabled[m]
    BY <2>2 DEF Starting, ManageInv, EnabledOK, EnabledFor
  <2> QED
    BY <1>6, <2>1, <2>2 DEF Fresh
<1>7. CASE CreateQueue(a)
  <2> DEFINE m == fire[a].mgr
  <2>1. m \in Managers /\ InsideBy(a, m) /\ fire[a].pc = "create" /\ running' = running
    BY <1>7 DEF CreateQueue, InsideBy, FireTypes
  <2>2. PICK q \in Queues \ Created : /\ made' = [made EXCEPT ![m] = @ \cup {q}]
                                       /\ queue' = [queue EXCEPT ![m] = q]
    BY <1>7 DEF CreateQueue
  <2>3. fire' = [fire EXCEPT ![a].pc = "read"]
    BY <1>7 DEF CreateQueue
  <2> HIDE DEF m
  <2>4. q # 0 /\ \A n \in Managers : q \notin made[n]
    BY <2>2 DEF Queues, Created
  <2>5. /\ made'[m] = made[m] \cup {q} /\ queue'[m] = q
        /\ \A n \in Managers \ {m} : made'[n] = made[n] /\ queue'[n] = queue[n]
    BY <2>1, <2>2 DEF FireTypes
  <2>6. fire'[a].mgr = m /\ fire'[a].pc = "read"
    BY <2>3 DEF FireTypes, Firings, m
  <2>7. \A n \in Managers : NobodyIn(n)' <=> NobodyIn(n)
    BY <1>1, <2>1, <2>6 DEF NobodyIn, InsideBy, OtherFires, m
  <2>8. QueuesOK'
    <3>1. \A n, o \in Managers : n # o => made'[n] \cap made'[o] = {}
      BY <2>1, <2>4, <2>5 DEF QueuesOK
    <3>2. running' \subseteq Created'
      <4>1. Created \subseteq Created'
        BY <2>5 DEF Created
      <4> QED
        BY <2>1, <4>1 DEF QueuesOK
    <3>3. \A n \in Managers : queue'[n] \in made'[n] \cup {0}
      BY <2>5 DEF QueuesOK
    <3>4. ASSUME NEW b \in Apps, fire'[b].pc = "enqueue" PROVE fire'[b].queue \in made'[fire'[b].mgr]
      <4>1. b # a /\ fire'[b] = fire[b]
        BY <1>1, <2>6, <3>4 DEF OtherFires
      <4>2. fire[b].queue \in made[fire[b].mgr] /\ fire[b].mgr \in Managers
        BY <3>4, <4>1 DEF QueuesOK, FireTypes
      <4> QED
        BY <2>5, <4>1, <4>2
    <3>5. \A t \in Threads : call'[t].pc \in {"close", "unset"} => Dom(t)' = Ingest
      BY <1>3 DEF QueuesOK, Dom
    <3> QED
      BY <3>1, <3>2, <3>3, <3>4, <3>5 DEF QueuesOK
  <2>9. FreshOK'
    <3>1. ~Fresh(m)
      BY <2>1 DEF FreshOK, NobodyIn
    <3> QED
      BY <1>4, <2>5, <2>7, <3>1 DEF FreshOK
  <2>10. EndOK'
    <3>1. ~late => ~Closed(m)
      BY <2>1 DEF EndOK, Ended, NobodyIn
    <3>2. ASSUME ~late', NEW n \in Managers PROVE IF Closed(n)' THEN Ended(n)' ELSE Unmade(n)'
      <4>1. CASE n = m
        <5>1. ~Closed(n)' /\ queue'[n] # 0
          BY <1>2, <1>4, <2>4, <2>5, <3>1, <3>2, <4>1
        <5> QED
          BY <5>1 DEF Unmade
      <4>2. CASE n # m
        <5>1. made'[n] = made[n] /\ queue'[n] = queue[n] /\ (IF Closed(n) THEN Ended(n) ELSE Unmade(n))
          BY <1>2, <2>5, <3>2, <4>2 DEF EndOK
        <5> QED
          BY <1>4, <2>1, <2>7, <5>1 DEF Ended, Unmade
      <4> QED
        BY <4>1, <4>2
    <3> QED
      BY <3>2 DEF EndOK
  <2> QED
    BY <2>8, <2>9, <2>10
<1>8. CASE /\ made' = made /\ queue' = queue
           /\ \/ running' = running
              \/ fire[a].pc = "enqueue" /\ running' = running \cup {fire[a].queue}
           /\ (fire'[a].pc = "enqueue" => fire'[a].queue \in made[fire'[a].mgr])
  <2>1. QueuesOK'
    <3>1. running' \subseteq Created'
      <4>1. fire[a].pc = "enqueue" => fire[a].queue \in Created
        BY DEF QueuesOK, FireTypes, Created
      <4> QED
        BY <1>8, <4>1 DEF QueuesOK, Created
    <3>2. \A b \in Apps : fire'[b].pc = "enqueue" => fire'[b].queue \in made'[fire'[b].mgr]
      BY <1>1, <1>8 DEF QueuesOK, OtherFires
    <3>3. \A t \in Threads : call'[t].pc \in {"close", "unset"} => Dom(t)' = Ingest
      BY <1>3 DEF QueuesOK, Dom
    <3> QED
      BY <1>8, <3>1, <3>2, <3>3 DEF QueuesOK
  <2>2. FreshOK'
    BY <1>2, <1>4, <1>5, <1>6, <1>8 DEF FreshOK
  <2>3. EndOK'
    <3> SUFFICES ASSUME ~late', NEW m \in Managers PROVE IF Closed(m)' THEN Ended(m)' ELSE Unmade(m)'
      BY DEF EndOK
    <3>1. IF Closed(m) THEN Ended(m) ELSE Unmade(m)
      BY <1>2 DEF EndOK
    <3>2. CASE Closed(m)
      <4>1. NobodyIn(m) /\ Ingest \notin registered[m]
        BY <1>2, <3>1, <3>2 DEF Ended, Closed
      <4>2. running' \cap made[m] = running \cap made[m]
        <5>1. ASSUME fire[a].pc = "enqueue" PROVE fire[a].queue \notin made[m]
          <6>1. fire[a].queue \in made[fire[a].mgr] /\ fire[a].mgr \in Managers /\ fire[a].mgr # m
            BY <4>1, <5>1 DEF QueuesOK, FireTypes, NobodyIn, InsideBy
          <6> QED
            BY <6>1 DEF QueuesOK
        <5> QED
          BY <1>8, <5>1
      <4> QED
        BY <1>4, <1>5, <1>8, <3>1, <3>2, <4>1, <4>2 DEF Ended
    <3>3. CASE ~Closed(m)
      BY <1>4, <1>8, <3>1, <3>3 DEF Unmade
    <3> QED
      BY <3>2, <3>3
  <2> QED
    BY <2>1, <2>2, <2>3
<1>9. CASE ~CreateQueue(a)
  <2>1. made' = made /\ queue' = queue
    BY <1>9 DEF Fire, FireBegin, FireNext, FireEnds, FireRaises, ReadQueue, Enqueue
  <2>2. \/ running' = running
        \/ fire[a].pc = "enqueue" /\ running' = running \cup {fire[a].queue}
    BY <1>9 DEF Fire, FireBegin, FireNext, FireEnds, FireRaises, ReadQueue, Enqueue
  <2>3. fire'[a].pc = "enqueue" => fire'[a].queue \in made[fire'[a].mgr]
    <3>1. CASE FireBegin(a) \/ FireNext(a) \/ FireEnds(a) \/ FireRaises(a) \/ Enqueue(a)
      <4>0. fire \in [Apps -> Firings] /\ fire[a].pc \in FirePlaces
        BY DEF FireTypes, Firings
      <4>1. fire'[a].pc # "enqueue"
        <5>1. CASE FireBegin(a)
          BY <4>0, <5>1 DEF FireBegin, NotFiring
        <5>2. CASE FireNext(a)
          <6>1. fire[a].pc = "next" /\ fire[a] \in Firings
            BY <4>0, <5>2 DEF FireNext
          <6>2. \/ fire' = [fire EXCEPT ![a].pc = "create"]
                \/ fire' = [fire EXCEPT ![a].pc = "read"]
                \/ \E d \in registered[fire[a].mgr] : fire' = [fire EXCEPT ![a].seen = @ \cup {d}]
            BY <5>2 DEF FireNext
          <6> QED
            BY <4>0, <6>1, <6>2 DEF Firings
        <5>3. CASE FireEnds(a) \/ FireRaises(a)
          BY <4>0, <5>3 DEF FireEnds, FireRaises, NotFiring
        <5>4. CASE Enqueue(a)
          BY <4>0, <5>4 DEF Enqueue, HandlerEnds, Firings
        <5> QED
          BY <3>1, <5>1, <5>2, <5>3, <5>4
      <4> QED
        BY <4>1
    <3>2. CASE ReadQueue(a)
      <4>1. CASE queue[fire[a].mgr] = 0
        <5>1. fire'[a].pc = "next"
          BY <3>2, <4>1 DEF ReadQueue, HandlerEnds, FireTypes, Firings
        <5> QED
          BY <5>1
      <4>2. CASE queue[fire[a].mgr] # 0
        <5>1. fire' = [fire EXCEPT ![a].pc = "enqueue", ![a].queue = queue[fire[a].mgr]]
              /\ fire[a].pc = "read"
          BY <3>2, <4>2 DEF ReadQueue
        <5>2. fire'[a].queue = queue[fire[a].mgr] /\ fire'[a].mgr = fire[a].mgr
          BY <5>1 DEF FireTypes, Firings
        <5> QED
          BY <4>2, <5>1, <5>2 DEF QueuesOK, FireTypes
      <4> QED
        BY <4>1, <4>2
    <3> QED
      BY <1>9, <3>1, <3>2 DEF Fire
  <2> QED
    BY <1>8, <2>1, <2>2, <2>3
<1> QED
  BY <1>7, <1>9

\* In every behaviour queues, handlers and domains fit together.
LEMMA QueueHolds == Spec => [](BaseInv /\ QueueInv)
<1>1. BaseInv /\ QueueInv /\ [Next]_vars => QueueInv'
  <2> SUFFICES ASSUME BaseInv, QueueInv, [Next]_vars PROVE QueueInv'
    OBVIOUS
  <2>1. ASSUME UNCHANGED vars PROVE QueueInv'
    <3>1. UNCHANGED <<call, created, enabled, fire, queue, made, running, late>>
      BY <2>1 DEF vars, trackingVars, domainVars, managerVars
    <3>2. QueuesOK'
      BY <3>1 DEF QueueInv, QueuesOK, Created, Dom
    <3>3. FreshOK'
      BY <3>1 DEF QueueInv, FreshOK, Fresh, Starting, Busy, NobodyIn, InsideBy
    <3>4. EndOK'
      BY <3>1 DEF QueueInv, EndOK, Ended, Unmade, Closed, Closing, Dom, NobodyIn, InsideBy
    <3> QED
      BY <3>2, <3>3, <3>4 DEF QueueInv
  <2> QED
    BY <2>1, ManageQueue, FireQueue DEF Next
<1> QED
  BY <1>1, QueueInit, BaseHolds, PTL DEF Spec

\* Ingest.disable: when all is uninstalled no queue is left with a worker, except those
\* that a handler found running when the queue was closed, or of two made at once.
THEOREM QueuesEnd == Spec => []QueueEndsWithDomain
<1>1. BaseInv /\ QueueInv => QueueEndsWithDomain
  <2> SUFFICES ASSUME BaseInv, QueueInv, Quiet, ~late, \A m \in Managers : Cardinality(made[m]) <= 1
               PROVE  running = {}
    BY DEF QueueEndsWithDomain
  <2>1. ASSUME NEW m \in Managers PROVE running \cap made[m] = {}
    <3>1. \A t \in Threads : call[t].pc = "idle"
      BY DEF Quiet, Idle
    <3>2. m # instance
      BY ManagerAssumption DEF Quiet, Managers
    <3>3. enabled[m] = {}
      BY <3>1, <3>2 DEF BaseInv, ManageInv, EnabledOK, Busy
    <3>4. Closed(m)
      BY <3>1, <3>3 DEF Closed, Closing
    <3> QED
      BY <3>4 DEF QueueInv, EndOK, Ended
  <2> QED
    BY <2>1 DEF QueueInv, QueuesOK, Created
<1> QED
  BY <1>1, QueueHolds, PTL

\* The managers, domains, members, handlers and queues keep their types, and a handler
\* and a domain only hold queues that were made for their manager.
THEOREM Typed == Spec => []TypeOK
<1>1. BaseInv /\ QueueInv => TypeOK
  <2> SUFFICES ASSUME BaseInv, QueueInv PROVE TypeOK
    OBVIOUS
  <2>1. /\ created \in 0..MaxInstalls /\ instance \in 0..MaxInstalls
        /\ lock \in Threads \cup {NoThread}
        /\ enabled \in [Managers -> SUBSET Domains]
        /\ registered \in [Managers -> SUBSET Domains]
    <3>1. instance \in {0, created} /\ created \in 0..MaxInstalls /\ MaxInstalls \in Nat
      BY ManagerAssumption DEF BaseInv, ManageInv, ManageTypes, LockOK
    <3> QED
      BY <3>1 DEF BaseInv, ManageInv, ManageTypes
  <2>2. /\ records \in [Managers -> [Domains -> [Members -> {"none", "owned", "kept"}]]]
        /\ \A x \in Members : Chain(x) \in Seq(Layers)
    BY DEF BaseInv, WrapTypes, Chain
  <2>3. ASSUME NEW t \in Threads
        PROVE  /\ call[t].mode \in {"none", "install", "uninstall"}
               /\ call[t].pc \in {"idle", "lock", "next", "wrap", "apply", "register",
                                  "clear", "restore", "close", "unset"}
               /\ Mgr(t) \in 0..MaxInstalls
    <3>1. call[t] \in Calls
      BY DEF BaseInv, ManageInv, ManageTypes, CallTypes
    <3> QED
      BY <3>1 DEF Calls, Modes, Places, Mgr
  <2>4. ASSUME NEW a \in Apps
        PROVE  /\ fire[a].pc \in {"idle", "next", "create", "read", "enqueue"}
               /\ fire[a].seen \subseteq Domains
               /\ fire[a].pc = "enqueue" => fire[a].queue \in made[fire[a].mgr]
    <3>1. fire[a] \in Firings
      BY DEF BaseInv, FireTypes
    <3> QED
      BY <3>1 DEF Firings, FirePlaces, QueueInv, QueuesOK
  <2>5. queue \in [Managers -> 0..MaxQueues] /\ \A m \in Managers : queue[m] \in made[m] \cup {0}
    BY DEF BaseInv, FireTypes, QueueInv, QueuesOK
  <2>6. /\ running \subseteq Created
        /\ late \in BOOLEAN /\ overlapped \in BOOLEAN
    BY DEF BaseInv, FireTypes, ManageInv, ManageTypes, QueueInv, QueuesOK
  <2> QED
    BY <2>1, <2>2, <2>3, <2>4, <2>5, <2>6, Zenon DEF TypeOK
<1> QED
  BY <1>1, QueueHolds, PTL
-----------------------------------------------------------------------------
(* Records, members and wrappers, as long as no install overlaps with a     *)
(* stop.                                                                    *)

Has(m, d, x) == records[m][d][x] # "none"

\* The members of a domain that the last manager has a record of.
Recs(d) == {x \in Members : Has(created, d, x)}

\* A thread is about to wrap, wraps or clears the members of d.
Current(t, d) ==
  call[t].pc \in {"wrap", "apply", "register", "clear", "restore"} /\ Dom(t) = d

WrappedTo(t, n) == {Wraps[Dom(t)][j] : j \in 1..n}

RecsAt(t) ==
  /\ call[t].pc \in {"wrap", "register"} => Recs(Dom(t)) = WrappedTo(t, call[t].k - 1)
  /\ call[t].pc = "apply" => Recs(Dom(t)) = WrappedTo(t, call[t].k)
  /\ call[t].pc \in {"clear", "restore"} => Recs(Dom(t)) \subseteq ToSet(Wraps[Dom(t)])

\* A domain that nobody is at has a record of each of its members, if it is enabled.
AllOrNone(d) ==
  \A x \in Members : Has(created, d, x) <=> d \in enabled[created] /\ x \in ToSet(Wraps[d])

DomOK ==
  /\ created # 0 => \A d \in Domains : (\A t \in Threads : ~Current(t, d)) => AllOrNone(d)
  /\ \A t \in Threads : RecsAt(t)

Pending(d, x) == \E t \in Threads : call[t].pc = "apply" /\ Dom(t) = d /\ Wrapped(t) = x

Restoring(x) == \E t \in Threads : call[t].pc = "restore" /\ call[t].top.member = x

\* A record tells how to restore its member: the wrapper is on it, and the entry is
\* owned when the wrapper is the first on a member that is inherited.
Records(m, d, x) ==
  IF Pending(d, x)
  THEN /\ records[m][d][x] = "owned" <=> entry[x] = Absent
       /\ \A i \in DOMAIN Chain(x) : Chain(x)[i] # Layer(m, d)
  ELSE \E i \in DOMAIN Chain(x) :
         /\ Chain(x)[i] = Layer(m, d)
         /\ records[m][d][x] = "owned" <=> x \in Inherited /\ i = 1

RecOK ==
  \A m \in Managers, d \in Domains, x \in Members :
    Has(m, d, x) => m = created /\ Records(m, d, x)

\* A wrapper without a record is about to go, or was left below that of a domain
\* which comes later in the order.
LeftBehind(l, x) ==
  /\ \E e \in SharedBy(x) : Before(l.dom, e)
  /\ l.mgr = created => instance = 0 /\ lock = NoThread

LayOK ==
  \A x \in Members : \A i \in DOMAIN Chain(x) :
    LET l == Chain(x)[i]
    IN /\ l.mgr <= created /\ x \in ToSet(Wraps[l.dom])
       /\ Has(l.mgr, l.dom, x) \/ (Restoring(x) /\ i = Len(Chain(x))) \/ LeftBehind(l, x)

Under(l, k) == l.mgr < k.mgr \/ (l.mgr = k.mgr /\ Before(l.dom, k.dom))

\* Wrappers are in the order of the managers, and of the domains of each.
SortOK ==
  \A x \in Members : \A i, j \in DOMAIN Chain(x) : i < j => Under(Chain(x)[i], Chain(x)[j])

EntOK == \A x \in Members : Chain(x) = <<>> => entry[x] = Original(x)

\* What a thread remembers of the wrapper that it takes off.
TopAt(t) ==
  LET x == call[t].top.member
  IN /\ x \in Members /\ x \in ToSet(Wraps[Dom(t)]) /\ Chain(x) # <<>>
     /\ Chain(x)[Len(Chain(x))] = Layer(call[t].mgr, Dom(t))
     /\ ~Has(call[t].mgr, Dom(t), x)
     /\ call[t].top.below = Front(Chain(x))
     /\ call[t].top.owned <=> x \in Inherited /\ Len(Chain(x)) = 1

TopOK == \A t \in Threads : call[t].pc = "restore" => TopAt(t)

ChainInv == RecOK /\ LayOK /\ SortOK /\ EntOK /\ TopOK

WrapInv == ~overlapped => DomOK /\ ChainInv

\* The order of the domains is strict.
LEMMA BeforeStrict ==
  /\ \A d \in Domains : ~Before(d, d)
  /\ \A d, e \in Domains : ~(Before(d, e) /\ Before(e, d))
<1>1. /\ Order \in Seq(Domains) /\ IsInjective(Order)
      /\ Len(Order) \in Nat /\ DOMAIN Order = 1..Len(Order)
  BY ManagerAssumption
<1>2. \A i, j \in DOMAIN Order : Order[i] = Order[j] => i = j
  BY <1>1 DEF IsInjective
<1> QED
  BY <1>1, <1>2 DEF Before

\* A domain of Order that is not in the rest of it comes before the first of the rest.
LEMMA PassedBefore ==
  ASSUME NEW todo \in Seq(Domains), todo # <<>>, RestOfOrder(todo),
         NEW d \in ToSet(Order), d \notin ToSet(todo)
  PROVE  Before(d, Head(todo))
<1>1. /\ Order \in Seq(Domains) /\ Len(Order) \in Nat /\ DOMAIN Order = 1..Len(Order)
  BY ManagerAssumption
<1>2. /\ Len(todo) \in Nat \ {0} /\ DOMAIN todo = 1..Len(todo) /\ Head(todo) = todo[1]
      /\ Len(todo) <= Len(Order)
      /\ \A i \in 1..Len(todo) : todo[i] = Order[Len(Order) - Len(todo) + i]
  BY DEF RestOfOrder
<1>3. PICK j \in 1..Len(Order) : d = Order[j]
  BY <1>1 DEF ToSet
<1> DEFINE n == Len(Order) - Len(todo)
<1>4. j <= n
  <2> SUFFICES ASSUME ~(j <= n) PROVE FALSE
    OBVIOUS
  <2>1. j - n \in 1..Len(todo) /\ n + (j - n) = j
    BY <1>1, <1>2, <1>3
  <2>2. todo[j - n] = d
    BY <1>2, <1>3, <2>1
  <2> QED
    BY <1>2, <2>1, <2>2 DEF ToSet
<1>5. n + 1 \in 1..Len(Order) /\ Head(todo) = Order[n + 1] /\ j < n + 1
  BY <1>1, <1>2, <1>3, <1>4
<1> QED
  BY <1>1, <1>3, <1>5 DEF Before

\* Without an overlap there is one busy thread, at the last manager.
LEMMA Solo ==
  ASSUME ManageInv, ~overlapped, NEW t \in Threads, Busy(t)
  PROVE  /\ created = call[t].mgr /\ created \in Managers /\ instance = 0
         /\ \A u \in Threads : Busy(u) => u = t
         /\ call[t].mode = "install" => lock = t /\ lock # NoThread
         /\ call[t].mode = "uninstall" => lock = NoThread
         /\ \A d \in Domains, x \in Members :
              Pending(d, x) <=> call[t].pc = "apply" /\ Dom(t) = d /\ Wrapped(t) = x
         /\ \A x \in Members :
              Restoring(x) <=> call[t].pc = "restore" /\ call[t].top.member = x
         /\ \A u \in Threads, d \in Domains : Current(u, d) => u = t /\ d = Dom(t)
<1>1. /\ created = call[t].mgr /\ instance = 0
      /\ \A u \in Threads : Busy(u) => u = t
  BY DEF ManageInv, SoloOK
<1>2. created \in Managers
  BY <1>1, AtDomain
<1>3. call[t].mode = "install" => lock = t /\ lock # NoThread
  BY ManagerAssumption DEF ManageInv, LockOK
<1>4. call[t].mode = "uninstall" => lock = NoThread
  BY <1>1 DEF ManageInv, LockOK, ManageTypes
<1>5. \A u \in Threads : call[u].pc \notin {"idle", "lock"} => u = t
  BY <1>1 DEF Busy
<1> QED
  BY <1>1, <1>2, <1>3, <1>4, <1>5 DEF Pending, Restoring, Current

\* A step that leaves members and records alone, by threads that do not hold one.
LEMMA ChainUntouched ==
  ASSUME ChainInv, records' = records, entry' = entry, created' = created,
         \A u \in Threads :
           \/ call'[u] = call[u]
           \/ call[u].pc \notin {"apply", "restore"} /\ call'[u].pc \notin {"apply", "restore"},
         instance = 0 /\ lock = NoThread => instance' = 0 /\ lock' = NoThread
  PROVE  ChainInv'
<1> USE DEF ChainInv
<1>1. \A x \in Members : Chain(x)' = Chain(x)
  BY DEF Chain
<1>2. \A m, d, x : Has(m, d, x)' <=> Has(m, d, x)
  BY DEF Has
<1>3. \A d, x : Pending(d, x)' <=> Pending(d, x)
  BY DEF Pending, Dom, Wrapped
<1>4. \A x : Restoring(x)' <=> Restoring(x)
  BY DEF Restoring
<1>5. RecOK'
  BY <1>1, <1>2, <1>3 DEF RecOK, Records
<1>6. LayOK'
  <2>1. \A l, x : LeftBehind(l, x) => LeftBehind(l, x)'
    BY DEF LeftBehind
  <2> QED
    BY <1>1, <1>2, <1>4, <2>1 DEF LayOK
<1>7. SortOK' /\ EntOK'
  BY <1>1 DEF SortOK, EntOK
<1>8. TopOK'
  <2> SUFFICES ASSUME NEW u \in Threads, call'[u].pc = "restore" PROVE TopAt(u)'
    BY DEF TopOK
  <2>1. call'[u] = call[u] /\ Dom(u)' = Dom(u) /\ TopAt(u)
    BY DEF TopOK, Dom
  <2> QED
    BY <1>1, <1>2, <2>1 DEF TopAt
<1> QED
  BY <1>5, <1>6, <1>7, <1>8

\* A step that leaves the records alone, by a thread at the domain d, if any.
LEMMA DomUntouched ==
  ASSUME DomOK, NEW t \in Threads, OthersKept(t), records' = records, created' = created,
         NEW d \in Domains,
         \A e \in Domains \ {d} :
           ~Current(t, e) /\ ~Current(t, e)' /\ (e \in enabled'[created] <=> e \in enabled[created]),
         created # 0 /\ (\A u \in Threads : ~Current(u, d)') => AllOrNone(d)',
         RecsAt(t)'
  PROVE  DomOK'
<1>1. \A m, e, x : Has(m, e, x)' <=> Has(m, e, x)
  BY DEF Has
<1>2. ASSUME NEW u \in Threads, u # t
      PROVE  RecsAt(u)' /\ \A e \in Domains : Current(u, e)' <=> Current(u, e)
  <2>1. call'[u] = call[u] /\ Dom(u)' = Dom(u) /\ RecsAt(u)
    BY <1>2 DEF OthersKept, Dom, DomOK
  <2>2. \A e : Recs(e)' = Recs(e)
    BY <1>1 DEF Recs
  <2>3. \A n : WrappedTo(u, n)' = WrappedTo(u, n)
    BY <2>1 DEF WrappedTo
  <2> QED
    BY <2>1, <2>2, <2>3 DEF RecsAt, Current
<1>3. ASSUME created' # 0, NEW e \in Domains, \A u \in Threads : ~Current(u, e)'
      PROVE  AllOrNone(e)'
  <2>1. CASE e = d
    BY <1>3, <2>1
  <2>2. CASE e # d
    <3>1. \A u \in Threads : ~Current(u, e)
      BY <1>2, <1>3, <2>2
    <3>2. AllOrNone(e)
      BY <1>3, <3>1 DEF DomOK
    <3> QED
      BY <1>1, <2>2, <3>2 DEF AllOrNone
  <2> QED
    BY <2>1, <2>2
<1> QED
  BY <1>2, <1>3 DEF DomOK

\* The same, by a thread that is at no domain.
LEMMA DomAway ==
  ASSUME DomOK, NEW t \in Threads, OthersKept(t), records' = records, created' = created,
         enabled' = enabled,
         call[t].pc \notin {"wrap", "apply", "register", "clear", "restore"},
         call'[t].pc \notin {"wrap", "apply", "register", "clear", "restore"}
  PROVE  DomOK'
<1>1. \A e \in Domains : ~Current(t, e) /\ ~Current(t, e)'
  BY DEF Current
<1>2. RecsAt(t)'
  BY DEF RecsAt
<1>3. Ingest \in Domains
  BY ManagerAssumption
<1>4. ASSUME created # 0, \A u \in Threads : ~Current(u, Ingest)' PROVE AllOrNone(Ingest)'
  <2>1. \A u \in Threads : ~Current(u, Ingest)
    <3>1. \A u \in Threads \ {t} : call'[u] = call[u]
      BY DEF OthersKept
    <3>2. \A u \in Threads \ {t} : Current(u, Ingest)' <=> Current(u, Ingest)
      BY <3>1 DEF Current, Dom
    <3> QED
      BY <1>1, <1>3, <1>4, <3>2
  <2>2. AllOrNone(Ingest)
    BY <1>3, <1>4, <2>1 DEF DomOK
  <2> QED
    BY <2>2 DEF AllOrNone, Has
<1> QED
  BY <1>1, <1>2, <1>3, <1>4, DomUntouched

\* A step at no domain: calls begin and end, domains are passed over, the queue closes.
LEMMA AwayStep ==
  ASSUME BaseInv, DomOK, ChainInv, NEW t \in Threads, OthersKept(t),
         records' = records, entry' = entry, created' = created, enabled' = enabled,
         call[t].pc \notin {"wrap", "apply", "register", "clear", "restore"},
         call'[t].pc \notin {"wrap", "apply", "register", "clear", "restore"},
         instance = 0 /\ lock = NoThread => instance' = 0 /\ lock' = NoThread
  PROVE  DomOK' /\ ChainInv'
<1>1. DomOK'
  BY DomAway
<1>2. \A u \in Threads : call'[u] = call[u]
        \/ (call[u].pc \notin {"apply", "restore"} /\ call'[u].pc \notin {"apply", "restore"})
  BY DEF OthersKept
<1> QED
  BY <1>1, <1>2, ChainUntouched

LEMMA AwaySteps ==
  ASSUME BaseInv, DomOK, ChainInv, NEW t \in Threads,
         \/ BeginInstall(t) \/ EndStart(t) \/ SkipDomain(t) \/ BeginUninstall(t) \/ TakeInstance(t)
         \/ TakeNothing(t) \/ EndStop(t) \/ CloseQueue(t) \/ UnsetQueue(t)
         \/ LockInstall(t) /\ ~StartManager(t)
  PROVE  DomOK' /\ ChainInv'
<1> USE DEF BaseInv
<1>0. call[t].pc = "idle" \/ call[t].pc = "lock" \/ call[t].pc = "next" =>
        call[t].pc \notin {"wrap", "apply", "register", "clear", "restore"}
  OBVIOUS
<1>1. CASE BeginInstall(t) \/ BeginUninstall(t)
  <2>1. OthersKept(t) /\ ~Busy(t) /\ ~Busy(t)'
    BY <1>1, CallBegins
  <2>2. UNCHANGED <<managerVars, domainVars>>
    BY <1>1 DEF BeginInstall, BeginUninstall
  <2> QED
    BY <2>1, <2>2, AwayStep DEF Busy, managerVars, domainVars
<1>2. CASE TakeNothing(t) \/ EndStop(t) \/ (LockInstall(t) /\ ~StartManager(t))
  <2>1. /\ call' = [call EXCEPT ![t] = Idle]
        /\ \/ At(t, "install", "lock") \/ At(t, "uninstall", "lock")
           \/ At(t, "uninstall", "next") /\ call[t].todo = <<>>
        /\ UNCHANGED <<managerVars, domainVars>>
    BY <1>2 DEF TakeNothing, EndStop, LockInstall
  <2>2. OthersKept(t) /\ ~Busy(t)' /\ call[t].pc \in {"lock", "next"}
    BY <2>1, CallEnds DEF At
  <2> QED
    BY <2>1, <2>2, AwayStep DEF Busy, managerVars, domainVars
<1>3. CASE EndStart(t)
  <2>1. OthersKept(t) /\ call'[t].pc = "idle" /\ call[t].pc = "next"
    <3>1. OthersKept(t) /\ call'[t] = Idle
      BY <1>3, StartEnds
    <3>2. Idle.pc = "idle"
      BY DEF Idle
    <3> QED
      BY <1>3, <3>1, <3>2 DEF EndStart, At
  <2>2. lock # NoThread
    BY <1>3, ManagerAssumption DEF EndStart, At, ManageInv, LockOK, Busy
  <2>3. created' = created /\ UNCHANGED domainVars
    BY <1>3 DEF EndStart
  <2> QED
    BY <2>1, <2>2, <2>3, AwayStep DEF domainVars
<1>4. CASE TakeInstance(t)
  <2>1. OthersKept(t) /\ call'[t].pc = "next" /\ call[t].pc = "lock"
    BY <1>4, TakeKept DEF TakeInstance, At
  <2>2. instance # 0 /\ created' = created /\ UNCHANGED domainVars
    BY <1>4 DEF TakeInstance
  <2> QED
    BY <2>1, <2>2, AwayStep DEF domainVars
<1>5. CASE SkipDomain(t)
  <2>1. OthersKept(t) /\ call'[t].pc = "next" /\ call[t].pc = "next"
    BY <1>5, NextDomainEffect DEF SkipDomain, At, ManageInv, ManageTypes
  <2>2. UNCHANGED <<managerVars, domainVars>>
    BY <1>5 DEF SkipDomain
  <2> QED
    BY <2>1, <2>2, AwayStep DEF managerVars, domainVars
<1>6. CASE CloseQueue(t) \/ UnsetQueue(t)
  <2>1. OthersKept(t) /\ call[t].pc \in {"close", "unset"} /\ call'[t].pc \in {"unset", "next"}
    BY <1>6, CloseKept
  <2>2. UNCHANGED <<managerVars, domainVars>>
    BY <1>6 DEF CloseQueue, UnsetQueue
  <2> QED
    BY <2>1, <2>2, AwayStep DEF managerVars, domainVars
<1> QED
  BY <1>1, <1>2, <1>3, <1>4, <1>5, <1>6

\* Neither firing nor waiting touches a member.
LEMMA WrapUnchanged ==
  ASSUME DomOK, ChainInv,
         UNCHANGED <<instance, lock, created, enabled, records, entry, call>>
  PROVE  DomOK' /\ ChainInv'
<1>1. ChainInv'
  BY ChainUntouched
<1>2. DomOK'
  BY DEF DomOK, RecsAt, AllOrNone, Current, Recs, Has, WrappedTo, Dom
<1> QED
  BY <1>1, <1>2

\* enable comes to the first member of a domain, of which nothing is there.
LEMMA BeginEnableWrap ==
  ASSUME BaseInv, DomOK, ChainInv, ~overlapped, NEW t \in Threads, BeginEnable(t)
  PROVE  DomOK' /\ ChainInv'
<1> USE DEF BaseInv
<1>1. /\ call[t].mode = "install" /\ call[t].pc = "next" /\ Busy(t) /\ call[t].todo # <<>>
      /\ call' = [call EXCEPT ![t].pc = AfterWrap(t, 1), ![t].k = 1]
      /\ UNCHANGED <<managerVars, domainVars>>
  BY DEF BeginEnable, At, Busy
<1>2. /\ Dom(t) \in Domains /\ Dom(t) \in ToSet(call[t].todo)
      /\ Len(Wraps[Dom(t)]) \in Nat /\ DOMAIN Wraps[Dom(t)] = 1..Len(Wraps[Dom(t)])
  BY <1>1, AtDomain
<1>3. /\ OthersKept(t) /\ call'[t].todo = call[t].todo /\ call'[t].k = 1
      /\ call'[t].pc \in {"wrap", "register"}
  <2>1. 1 \in Nat \ {0} /\ 1 <= Len(Wraps[Dom(t)]) + 1
    BY <1>2
  <2> QED
    BY <1>1, <2>1, NextMember DEF AfterWrap
<1>4. created # 0 /\ created = call[t].mgr /\ \A u \in Threads : Busy(u) => u = t
  BY <1>1, Solo, ManagerAssumption DEF Managers
<1>5. ChainInv'
  BY <1>1, <1>3, ChainUntouched DEF OthersKept, managerVars, domainVars
<1>6. Dom(t) \notin enabled[created]
  BY <1>1, <1>2, <1>4 DEF ManageInv, EnabledOK, EnabledFor
<1>7. \A u \in Threads, d \in Domains : ~Current(u, d)
  BY <1>1, <1>4 DEF Current, Busy
<1>8. Recs(Dom(t)) = {}
  BY <1>2, <1>4, <1>6, <1>7 DEF DomOK, AllOrNone, Recs
<1>9. Dom(t)' = Dom(t) /\ Recs(Dom(t))' = {}
  <2>1. Dom(t)' = Dom(t) /\ records' = records /\ created' = created
    BY <1>1, <1>3 DEF Dom, managerVars, domainVars
  <2> QED
    BY <1>8, <2>1 DEF Recs, Has
<1>10. RecsAt(t)'
  <2>1. WrappedTo(t, call[t].k - 1)' = {}
    BY <1>3 DEF WrappedTo
  <2> QED
    BY <1>3, <1>9, <2>1 DEF RecsAt
<1>11. PICK d \in Domains : d = Dom(t)
  BY <1>2
<1>12. Current(t, d)' /\ \A e \in Domains \ {d} : ~Current(t, e)'
  BY <1>3, <1>9, <1>11 DEF Current
<1>13. DomOK'
  <2>1. records' = records /\ created' = created /\ enabled' = enabled
    BY <1>1 DEF managerVars, domainVars
  <2>2. \A e \in Domains \ {d} : ~Current(t, e) /\ ~Current(t, e)'
    BY <1>7, <1>12
  <2> QED
    BY <1>3, <1>10, <1>12, <2>1, <2>2, DomUntouched
<1> QED
  BY <1>5, <1>13

\* What a domain has when all its members are wrapped, and when none is recorded.
LEMMA RegisterRecs ==
  ASSUME BaseInv, DomOK, NEW t \in Threads, call[t].pc = "register"
  PROVE  Recs(Dom(t)) = ToSet(Wraps[Dom(t)])
<1>1. Busy(t) /\ call[t].todo # <<>> /\ call[t].k = Len(Wraps[Dom(t)]) + 1
  BY DEF BaseInv, ManageInv, Located, Busy
<1>2. Len(Wraps[Dom(t)]) \in Nat /\ DOMAIN Wraps[Dom(t)] = 1..Len(Wraps[Dom(t)])
  BY <1>1, AtDomain DEF BaseInv
<1>3. Recs(Dom(t)) = WrappedTo(t, call[t].k - 1)
  BY DEF DomOK, RecsAt
<1>4. call[t].k - 1 = Len(Wraps[Dom(t)])
  BY <1>1, <1>2
<1> QED
  BY <1>2, <1>3, <1>4 DEF WrappedTo, ToSet

\* register_event_handlers, or its failure, comes after all members.
LEMMA RegisterWrap ==
  ASSUME BaseInv, DomOK, ChainInv, ~overlapped, NEW t \in Threads, Register(t) \/ RegisterFails(t)
  PROVE  DomOK' /\ ChainInv'
<1> USE DEF BaseInv
<1>1. /\ call[t].mode = "install" /\ call[t].pc = "register" /\ Busy(t) /\ call[t].todo # <<>>
      /\ UNCHANGED <<managerVars, records, entry>>
  BY DEF Register, RegisterFails, At, Busy, ManageInv, Located
<1>2. PICK d \in Domains : d = Dom(t)
  BY <1>1, AtDomain
<1>3. Wraps[d] \in Seq(Members) /\ ToSet(Wraps[d]) \subseteq Members
  BY <1>1, <1>2, AtDomain DEF ToSet
<1>4. created = call[t].mgr /\ created \in Managers /\ \A u \in Threads, e \in Domains : Current(u, e) => u = t /\ e = d
  BY <1>1, <1>2, Solo
<1>5. Recs(d) = ToSet(Wraps[d])
  BY <1>1, <1>2, RegisterRecs
<1>6. CASE Register(t)
  <2>1. OthersKept(t) /\ call'[t].pc = "next"
    BY <1>1, <1>6, NextDomainEffect DEF Register, ManageInv, ManageTypes
  <2>2. ChainInv'
    BY <1>1, <2>1, ChainUntouched DEF OthersKept, managerVars
  <2>3. enabled' = [enabled EXCEPT ![created] = @ \cup {d}]
    BY <1>2, <1>4, <1>6 DEF Register, Mgr
  <2>4. enabled'[created] = enabled[created] \cup {d}
    BY <1>4, <2>3 DEF ManageInv, ManageTypes
  <2>5. AllOrNone(d)'
    <3>1. \A x \in Members : Has(created, d, x) <=> x \in ToSet(Wraps[d])
      BY <1>5 DEF Recs
    <3>2. \A x \in Members : Has(created, d, x)' <=> Has(created, d, x)
      BY <1>1 DEF Has, managerVars
    <3> QED
      BY <1>1, <2>4, <3>1, <3>2 DEF AllOrNone, managerVars
  <2>6. RecsAt(t)' /\ \A e \in Domains : ~Current(t, e)'
    BY <2>1 DEF RecsAt, Current
  <2>7. DomOK'
    BY <1>1, <1>4, <2>1, <2>4, <2>5, <2>6, DomUntouched DEF managerVars
  <2> QED
    BY <2>2, <2>7
<1>7. CASE RegisterFails(t)
  <2>1. OthersKept(t) /\ call'[t].pc = "clear" /\ call'[t].todo = call[t].todo
    BY <1>1, <1>7, GotoKept DEF RegisterFails
  <2>2. ChainInv'
    BY <1>1, <2>1, ChainUntouched DEF OthersKept, managerVars
  <2>3. enabled' = enabled
    BY <1>7 DEF RegisterFails
  <2>4. Dom(t)' = d /\ Current(t, d)' /\ \A e \in Domains \ {d} : ~Current(t, e)'
    BY <1>2, <2>1 DEF Current, Dom
  <2>5. Recs(d)' = Recs(d)
    BY <1>1 DEF Recs, Has, managerVars
  <2>6. RecsAt(t)'
    <3>1. Recs(Dom(t))' = Recs(d)
      BY <2>4, <2>5 DEF Recs, Has
    <3> QED
      BY <1>5, <2>1, <2>4, <3>1 DEF RecsAt, ToSet
  <2>7. DomOK'
    BY <1>1, <1>4, <2>1, <2>3, <2>4, <2>6, DomUntouched DEF managerVars
  <2> QED
    BY <2>2, <2>7
<1> QED
  BY <1>6, <1>7

\* Nothing is left to clear.
LEMMA ClearEndsWrap ==
  ASSUME BaseInv, DomOK, ChainInv, ~overlapped, NEW t \in Threads, ClearEnds(t)
  PROVE  DomOK' /\ ChainInv'
<1> USE DEF BaseInv
<1>1. /\ call[t].pc = "clear" /\ Busy(t) /\ call[t].todo # <<>> /\ Recorded(t) = {}
      /\ UNCHANGED <<managerVars, domainVars>>
      /\ Goto(t, "close") \/ NextDomain(t)
  BY DEF ClearEnds, Busy, ManageInv, Located
<1>2. PICK d \in Domains : d = Dom(t)
  BY <1>1, AtDomain
<1>3. DOMAIN Wraps[d] = 1..Len(Wraps[d]) /\ Wraps[d] \in Seq(Members)
  BY <1>1, <1>2, AtDomain
<1>4. /\ created = call[t].mgr
      /\ \A u \in Threads, e \in Domains : Current(u, e) => u = t /\ e = d
  BY <1>1, <1>2, Solo
<1>5. OthersKept(t) /\ call'[t].pc \in {"close", "next"}
  BY <1>1, NextDomainEffect, GotoEffect DEF Places, ManageInv, ManageTypes
<1>6. ChainInv'
  BY <1>1, <1>5, ChainUntouched DEF OthersKept, managerVars, domainVars
<1>7. Recs(d) = {}
  <2>1. Recs(d) \subseteq ToSet(Wraps[d])
    BY <1>1, <1>2 DEF DomOK, RecsAt
  <2>2. ASSUME NEW x \in Recs(d) PROVE FALSE
    <3>1. PICK k \in DOMAIN Wraps[d] : Wraps[d][k] = x
      BY <2>1, <2>2 DEF ToSet
    <3>2. k \in Recorded(t)
      BY <1>2, <1>4, <2>2, <3>1 DEF Recorded, Recs, Has, Mgr
    <3> QED
      BY <1>1, <3>2
  <2> QED
    BY <2>2
<1>8. d \notin enabled[created]
  BY <1>1, <1>2, <1>4 DEF ManageInv, EnabledOK, EnabledFor
<1>9. AllOrNone(d)'
  BY <1>1, <1>7, <1>8 DEF AllOrNone, Recs, Has, managerVars, domainVars
<1>10. RecsAt(t)' /\ \A e \in Domains : ~Current(t, e)'
  BY <1>5 DEF RecsAt, Current
<1>11. DomOK'
  BY <1>1, <1>4, <1>5, <1>9, <1>10, DomUntouched DEF managerVars, domainVars
<1> QED
  BY <1>6, <1>11

\* disable begins with a domain that is wholly there, or passes it over.
LEMMA DisableWrap ==
  ASSUME BaseInv, DomOK, ChainInv, ~overlapped, NEW t \in Threads, BeginDisable(t)
  PROVE  DomOK' /\ ChainInv'
<1> USE DEF BaseInv
<1>1. /\ call[t].pc = "next" /\ Busy(t) /\ call[t].todo # <<>> /\ OthersKept(t)
      /\ IF Dom(t) \in enabled[call[t].mgr]
         THEN call'[t].pc = "clear" /\ call'[t].todo = call[t].todo
         ELSE call'[t].pc = "next" /\ enabled' = enabled
      /\ enabled' = [enabled EXCEPT ![call[t].mgr] = @ \ {Dom(t)}]
      /\ UNCHANGED <<managerVars, records, entry>>
  BY DisableKept DEF BeginDisable, At
<1>2. CASE Dom(t) \notin enabled[call[t].mgr]
  <2>1. call'[t].pc = "next" /\ enabled' = enabled
    BY <1>1, <1>2
  <2> QED
    BY <1>1, <2>1, AwayStep DEF managerVars
<1>3. CASE Dom(t) \in enabled[call[t].mgr]
  <2>1. PICK d \in Domains : d = Dom(t)
    BY <1>1, AtDomain
  <2>2. /\ created = call[t].mgr /\ created \in Managers /\ created # 0
        /\ \A u \in Threads, e \in Domains : Current(u, e) => u = t
    BY <1>1, Solo, ManagerAssumption DEF Managers
  <2>3. call'[t].pc = "clear" /\ call'[t].todo = call[t].todo
    BY <1>1, <1>3
  <2>4. ChainInv'
    BY <1>1, <2>3, ChainUntouched DEF OthersKept, managerVars
  <2>5. \A e \in Domains : ~Current(t, e)
    BY <1>1 DEF Current
  <2>6. AllOrNone(d)
    BY <2>2, <2>5 DEF DomOK
  <2>7. Recs(d) \subseteq ToSet(Wraps[d])
    BY <2>6 DEF AllOrNone, Recs
  <2>8. Dom(t)' = d /\ Current(t, d)' /\ \A e \in Domains \ {d} : ~Current(t, e)'
    BY <2>1, <2>3 DEF Current, Dom
  <2>9. RecsAt(t)'
    <3>1. Recs(Dom(t))' = Recs(d)
      BY <1>1, <2>8 DEF Recs, Has, managerVars
    <3> QED
      BY <2>3, <2>7, <2>8, <3>1 DEF RecsAt, ToSet
  <2>10. \A e \in Domains \ {d} : e \in enabled'[created] <=> e \in enabled[created]
    BY <1>1, <2>1, <2>2 DEF ManageInv, ManageTypes
  <2>11. DomOK'
    BY <1>1, <2>5, <2>8, <2>9, <2>10, DomUntouched DEF managerVars
  <2> QED
    BY <2>4, <2>11
<1> QED
  BY <1>2, <1>3

\* The same in terms of the members that a domain has a record of.
OneRecord(m, d, x, r) ==
  /\ Has(m, d, x)' <=> r # "none"
  /\ records'[m][d][x] = r
  /\ \A n \in Managers, e \in Domains, y \in Members :
       n # m \/ e # d \/ y # x =>
         (Has(n, e, y)' <=> Has(n, e, y)) /\ records'[n][e][y] = records[n][e][y]
  /\ \A e \in Domains \ {d} : Recs(e)' = Recs(e)
  /\ r # "none" => Recs(d)' = Recs(d) \cup {x}
  /\ r = "none" => Recs(d)' = Recs(d) \ {x}

LEMMA RecordEffect ==
  ASSUME WrapTypes, NEW m \in Managers, NEW d \in Domains, NEW x \in Members,
         NEW r \in {"none", "owned", "kept"}, SetsRecord(m, d, x, r), created' = created, created = m
  PROVE  OneRecord(m, d, x, r)
<1>0. OnlyRecord(m, d, x, r)
  BY RecordSet
<1>1. /\ records'[m][d][x] = r
      /\ \A n \in Managers, e \in Domains, y \in Members :
           n # m \/ e # d \/ y # x => records'[n][e][y] = records[n][e][y]
  BY <1>0 DEF OnlyRecord
<1>2. ASSUME NEW n \in Managers, NEW e \in Domains, NEW y \in Members, n # m \/ e # d \/ y # x
      PROVE  (Has(n, e, y)' <=> Has(n, e, y)) /\ records'[n][e][y] = records[n][e][y]
  <2>1. records'[n][e][y] = records[n][e][y]
    BY <1>1, <1>2
  <2> QED
    BY <2>1 DEF Has
<1>3. Has(m, d, x)' <=> r # "none"
  BY <1>1 DEF Has
<1>4. \A e \in Domains : Recs(e)' = {y \in Members : Has(m, e, y)'} /\ Recs(e) = {y \in Members : Has(m, e, y)}
  BY DEF Recs, Has
<1>5. ASSUME NEW e \in Domains \ {d} PROVE Recs(e)' = Recs(e)
  BY <1>2, <1>4
<1>6. r # "none" => Recs(d)' = Recs(d) \cup {x}
  BY <1>2, <1>3, <1>4
<1>7. r = "none" => Recs(d)' = Recs(d) \ {x}
  BY <1>2, <1>3, <1>4
<1> QED
  BY <1>1, <1>2, <1>3, <1>5, <1>6, <1>7 DEF OneRecord

\* Only the domain of the busy thread has its records changed: the others' stay whole.
LEMMA DomBusy ==
  ASSUME BaseInv, BaseInv', DomOK, ~overlapped, ~overlapped', NEW t \in Threads, Busy(t), Busy(t)',
         created' = created, enabled' = enabled, NEW d \in Domains, d = Dom(t), Dom(t)' = d,
         Current(t, d)', \A e \in Domains \ {d} : Recs(e)' = Recs(e), RecsAt(t)'
  PROVE  DomOK'
<1>1. \A u \in Threads, e \in Domains : Current(u, e) => e = d
  BY Solo DEF BaseInv
<1>2. \A u \in Threads : Busy(u)' => u = t
  BY DEF BaseInv, ManageInv, SoloOK
<1>3. \A u \in Threads : u # t => RecsAt(u)'
  BY <1>2 DEF RecsAt, Busy
<1>4. ASSUME NEW e \in Domains, \A u \in Threads : ~Current(u, e)', created # 0 PROVE AllOrNone(e)'
  <2>1. e # d
    BY <1>4
  <2>2. AllOrNone(e)
    BY <1>1, <1>4, <2>1 DEF DomOK
  <2>3. Recs(e)' = Recs(e)
    BY <2>1
  <2>4. \A x \in Members : Has(created, e, x)' <=> Has(created, e, x)
    BY <2>3 DEF Recs
  <2> QED
    BY <2>2, <2>4 DEF AllOrNone
<1> QED
  BY <1>3, <1>4 DEF DomOK

\* A layer of the last manager is that of an enabled domain, or of the one at hand.
LEMMA LayerOfEnabled ==
  ASSUME BaseInv, DomOK, ChainInv, ~overlapped, NEW t \in Threads, Busy(t), call[t].mode = "install",
         call[t].todo # <<>>, call[t].pc # "restore",
         NEW x \in Members, NEW i \in DOMAIN Chain(x), Chain(x)[i].mgr = created
  PROVE  /\ Chain(x)[i].dom \in Domains /\ Has(created, Chain(x)[i].dom, x)
         /\ Chain(x)[i].dom # Dom(t) => Before(Chain(x)[i].dom, Dom(t))
<1> USE DEF BaseInv
<1> DEFINE l == Chain(x)[i]
<1>1. l.dom \in Domains
  BY ChainType DEF Layers
<1>2. created = call[t].mgr /\ created \in Managers /\ created # 0 /\ lock # NoThread
  BY Solo, ManagerAssumption DEF Managers
<1>3. ~Restoring(x)
  BY Solo
<1>4. Has(created, l.dom, x)
  BY <1>2, <1>3 DEF ChainInv, LayOK, LeftBehind
<1>5. ASSUME l.dom # Dom(t) PROVE Before(l.dom, Dom(t))
  <2>1. \A u \in Threads : ~Current(u, l.dom)
    BY <1>1, <1>5, Solo
  <2>2. l.dom \in enabled[created]
    BY <1>1, <1>2, <1>4, <2>1 DEF DomOK, AllOrNone
  <2>3. l.dom \in ToSet(Order) /\ l.dom \notin ToSet(call[t].todo)
    BY <1>2, <2>2 DEF ManageInv, EnabledOK, EnabledFor
  <2>4. call[t].todo \in Seq(Domains) /\ RestOfOrder(call[t].todo)
    BY DEF ManageInv, ManageTypes, CallTypes, Calls, Located
  <2> QED
    BY <2>3, <2>4, PassedBefore DEF Dom
<1> QED
  BY <1>1, <1>4, <1>5

\* wrap looks at a member that the domain has no wrapper on.
LEMMA LookWrap ==
  ASSUME BaseInv, BaseInv', DomOK, ChainInv, ~overlapped, ~overlapped', NEW t \in Threads, WrapLook(t)
  PROVE  DomOK' /\ ChainInv'
<1> USE DEF BaseInv
<1>1. /\ call[t].pc = "wrap" /\ Goto(t, "apply") /\ entry' = entry /\ created' = created
      /\ enabled' = enabled /\ instance' = instance /\ lock' = lock
      /\ Busy(t) /\ call[t].mode = "install" /\ call[t].todo # <<>>
      /\ call[t].k \in 1..Len(Wraps[Dom(t)]) /\ Len(Wraps[Dom(t)]) \in Nat
  BY WrappedMember DEF WrapLook, At, managerVars
<1>2. PICK d \in Domains, x \in Members : d = Dom(t) /\ x = Wrapped(t)
  BY <1>1, WrappedMember
<1>3. /\ created = call[t].mgr /\ created \in Managers /\ lock # NoThread
      /\ \A u \in Threads : Busy(u) => u = t
      /\ \A e \in Domains, y \in Members : ~Pending(e, y)
      /\ \A y \in Members : ~Restoring(y)
  BY <1>1, Solo
<1>4. PICK m \in Managers : m = created
  BY <1>3
<1>5. PICK r \in {"owned", "kept"} :
        /\ records' = [records EXCEPT ![m][d][x] = r]
        /\ r = "owned" <=> entry[x] = Absent
  BY <1>2, <1>3, <1>4 DEF WrapLook, Mgr
<1>6. /\ OthersKept(t) /\ Busy(t)' /\ call'[t].pc = "apply" /\ call'[t].todo = call[t].todo
      /\ call'[t].k = call[t].k
  BY <1>1, GotoKept
<1>7. Dom(t)' = d /\ Wrapped(t)' = x
  BY <1>2, <1>6 DEF Dom, Wrapped
<1>8. /\ Has(m, d, x)' /\ records'[m][d][x] = r
      /\ \A n \in Managers, e \in Domains, y \in Members :
           n # m \/ e # d \/ y # x =>
             (Has(n, e, y)' <=> Has(n, e, y)) /\ records'[n][e][y] = records[n][e][y]
      /\ \A e \in Domains \ {d} : Recs(e)' = Recs(e)
      /\ Recs(d)' = Recs(d) \cup {x}
  <2>1. r \in {"none", "owned", "kept"} /\ r # "none" /\ created = m
    BY <1>4, <1>5
  <2>2. OneRecord(m, d, x, r)
    BY <1>1, <1>5, <2>1, RecordEffect DEF SetsRecord
  <2> QED
    BY <2>1, <2>2 DEF OneRecord
<1>9. \A y : Chain(y)' = Chain(y)
  BY <1>1 DEF Chain
<1>10. /\ \A e \in Domains, y \in Members : Pending(e, y)' <=> e = d /\ y = x
       /\ \A y \in Members : ~Restoring(y)'
  <2>1. \A u \in Threads : u # t => call'[u].pc \notin {"apply", "restore"}
    BY <1>3, <1>6 DEF OthersKept, Busy
  <2> QED
    BY <1>6, <1>7, <2>1 DEF Pending, Restoring
<1>11. x \notin Recs(d) /\ Recs(d) = WrappedTo(t, call[t].k - 1)
  <2>1. Recs(d) = WrappedTo(t, call[t].k - 1)
    BY <1>1, <1>2 DEF DomOK, RecsAt
  <2>2. IsInjective(Wraps[d]) /\ DOMAIN Wraps[d] = 1..Len(Wraps[d])
    BY <1>1, <1>2, AtDomain
  <2>3. ASSUME NEW j \in 1..(call[t].k - 1), Wraps[d][j] = Wraps[d][call[t].k] PROVE FALSE
    BY <1>1, <1>2, <2>2, <2>3 DEF IsInjective
  <2> QED
    BY <1>2, <2>1, <2>3 DEF WrappedTo, Wrapped
<1>12. DomOK'
  <2>1. RecsAt(t)'
    <3>1. WrappedTo(t, call[t].k)' = WrappedTo(t, call[t].k - 1) \cup {x}
      <4>1. 1..call[t].k = (1..(call[t].k - 1)) \cup {call[t].k}
        BY <1>1
      <4>2. WrappedTo(t, call[t].k)' = {Wraps[d][j] : j \in 1..call[t].k}
        BY <1>6, <1>7 DEF WrappedTo
      <4>3. WrappedTo(t, call[t].k - 1) = {Wraps[d][j] : j \in 1..(call[t].k - 1)} /\ x = Wraps[d][call[t].k]
        BY <1>2 DEF WrappedTo, Wrapped
      <4> QED
        BY <4>1, <4>2, <4>3
    <3>2. Recs(Dom(t))' = WrappedTo(t, call[t].k)'
      <4>1. Recs(Dom(t))' = Recs(d)'
        BY <1>7 DEF Recs, Has
      <4> QED
        BY <1>8, <1>11, <3>1, <4>1
    <3> QED
      BY <1>6, <3>2 DEF RecsAt
  <2>2. Current(t, d)'
    BY <1>6, <1>7 DEF Current
  <2> QED
    BY <1>1, <1>2, <1>6, <1>7, <1>8, <2>1, <2>2, DomBusy
<1>13. \A i \in DOMAIN Chain(x) : Chain(x)[i] # Layer(m, d)
  <2> SUFFICES ASSUME NEW i \in DOMAIN Chain(x), Chain(x)[i] = Layer(m, d) PROVE FALSE
    OBVIOUS
  <2>1. Chain(x)[i].mgr = created /\ Chain(x)[i].dom = d
    BY <1>4 DEF Layer
  <2>2. Has(created, d, x)
    BY <1>1, <2>1, LayerOfEnabled
  <2> QED
    BY <1>11, <2>2 DEF Recs
<1>14. RecOK'
  <2> SUFFICES ASSUME NEW n \in Managers, NEW e \in Domains, NEW y \in Members, Has(n, e, y)'
               PROVE  n = created' /\ Records(n, e, y)'
    BY DEF RecOK
  <2>1. CASE n = m /\ e = d /\ y = x
    BY <1>1, <1>4, <1>5, <1>8, <1>9, <1>10, <1>13, <2>1 DEF Records
  <2>2. CASE ~(n = m /\ e = d /\ y = x)
    <3>1. Has(n, e, y) /\ records'[n][e][y] = records[n][e][y]
      BY <1>8, <2>2
    <3>2. n = created /\ Records(n, e, y)
      BY <3>1 DEF ChainInv, RecOK
    <3>3. ~Pending(e, y)' /\ ~Pending(e, y)
      BY <1>3, <1>4, <1>10, <2>2, <3>2
    <3> QED
      BY <1>1, <1>9, <3>1, <3>2, <3>3 DEF Records
  <2> QED
    BY <2>1, <2>2
<1>15. LayOK'
  <2> SUFFICES ASSUME NEW y \in Members, NEW i \in DOMAIN Chain(y)
               PROVE  LET l == Chain(y)[i]
                      IN /\ l.mgr <= created /\ y \in ToSet(Wraps[l.dom])
                         /\ Has(l.mgr, l.dom, y)' \/ LeftBehind(l, y)
    BY <1>1, <1>9 DEF LayOK, LeftBehind
  <2>1. LET l == Chain(y)[i]
        IN /\ l.mgr <= created /\ y \in ToSet(Wraps[l.dom])
           /\ Has(l.mgr, l.dom, y) \/ LeftBehind(l, y)
    BY <1>3 DEF ChainInv, LayOK
  <2>2. Chain(y)[i].mgr \in Managers /\ Chain(y)[i].dom \in Domains
    BY ChainType DEF Layers
  <2>3. Has(Chain(y)[i].mgr, Chain(y)[i].dom, y) => Has(Chain(y)[i].mgr, Chain(y)[i].dom, y)'
    BY <1>8, <1>9, <2>2 DEF Has
  <2> QED
    BY <2>1, <2>3
<1>16. SortOK' /\ EntOK'
  BY <1>1, <1>9 DEF ChainInv, SortOK, EntOK
<1>17. TopOK'
  <2>1. \A u \in Threads : call'[u].pc # "restore"
    BY <1>3, <1>6 DEF OthersKept, Busy
  <2> QED
    BY <2>1 DEF TopOK
<1> QED
  BY <1>12, <1>14, <1>15, <1>16, <1>17 DEF ChainInv

\* A layer is its manager and its domain.
LEMMA LayerParts ==
  ASSUME NEW l \in Layers
  PROVE  /\ l.mgr \in Managers /\ l.dom \in Domains /\ l = Layer(l.mgr, l.dom)
         /\ \A m, d : Layer(m, d) = l => l.mgr = m /\ l.dom = d
BY DEF Layers, Layer

\* A step that sets no record but one to none, whose wrapper is not in place, or is
\* about to go: every other record and wrapper stays as it was.
LEMMA RecordGone ==
  ASSUME BaseInv, ChainInv, NEW m \in Managers, m = created, NEW d \in Domains, NEW x \in Members,
         OneRecord(m, d, x, "none"), entry' = entry, created' = created,
         instance' = instance, lock' = lock,
         \A e \in Domains, y \in Members :
           (e # d \/ y # x) /\ Has(m, e, y) => ~Pending(e, y) /\ ~Pending(e, y)',
         \A y \in Members : ~Restoring(y),
         \A i \in DOMAIN Chain(x) : Chain(x)[i] = Layer(m, d) =>
           (Restoring(x)' /\ i = Len(Chain(x))) \/ LeftBehind(Chain(x)[i], x)
  PROVE  RecOK' /\ LayOK' /\ SortOK' /\ EntOK'
<1> USE DEF BaseInv
<1>1. \A y : Chain(y)' = Chain(y)
  BY DEF Chain
<1>2. /\ ~Has(m, d, x)'
      /\ \A n \in Managers, e \in Domains, y \in Members :
           n # m \/ e # d \/ y # x =>
             (Has(n, e, y)' <=> Has(n, e, y)) /\ records'[n][e][y] = records[n][e][y]
  BY DEF OneRecord
<1>3. RecOK'
  <2> SUFFICES ASSUME NEW n \in Managers, NEW e \in Domains, NEW y \in Members, Has(n, e, y)'
               PROVE  n = created' /\ Records(n, e, y)'
    BY DEF RecOK
  <2>1. n # m \/ e # d \/ y # x
    BY <1>2
  <2>2. Has(n, e, y) /\ records'[n][e][y] = records[n][e][y]
    BY <1>2, <2>1
  <2>3. n = created /\ Records(n, e, y)
    BY <2>2 DEF ChainInv, RecOK
  <2>4. ~Pending(e, y)' /\ ~Pending(e, y)
    BY <2>1, <2>2, <2>3
  <2> QED
    BY <1>1, <2>2, <2>3, <2>4 DEF Records
<1>4. LayOK'
  <2> SUFFICES ASSUME NEW y \in Members, NEW i \in DOMAIN Chain(y)
               PROVE  LET l == Chain(y)[i]
                      IN /\ l.mgr <= created /\ y \in ToSet(Wraps[l.dom])
                         /\ \/ Has(l.mgr, l.dom, y)'
                            \/ Restoring(y)' /\ i = Len(Chain(y))
                            \/ LeftBehind(l, y)
    BY <1>1 DEF LayOK, LeftBehind
  <2>1. PICK l \in Layers : l = Chain(y)[i]
    BY ChainType
  <2>2. /\ l.mgr <= created /\ y \in ToSet(Wraps[l.dom])
        /\ Has(l.mgr, l.dom, y) \/ LeftBehind(l, y)
    BY <2>1 DEF ChainInv, LayOK
  <2>3. l.mgr \in Managers /\ l.dom \in Domains /\ l = Layer(l.mgr, l.dom)
    BY LayerParts
  <2>4. Has(l.mgr, l.dom, y) =>
          \/ Has(l.mgr, l.dom, y)'
          \/ Restoring(y)' /\ i = Len(Chain(y))
          \/ LeftBehind(l, y)
    <3>1. CASE l.mgr = m /\ l.dom = d /\ y = x
      BY <2>1, <2>3, <3>1
    <3>2. CASE ~(l.mgr = m /\ l.dom = d /\ y = x)
      BY <1>2, <2>3, <3>2
    <3> QED
      BY <3>1, <3>2
  <2>5. Has(l.mgr, l.dom, y)' <=> Has(Chain(y)[i].mgr, Chain(y)[i].dom, y)'
    BY <1>1, <2>1 DEF Has
  <2> QED
    BY <2>1, <2>2, <2>4, <2>5
<1>5. SortOK' /\ EntOK'
  BY <1>1 DEF ChainInv, SortOK, EntOK
<1> QED
  BY <1>3, <1>4, <1>5

\* The member that cannot be wrapped has lost its record.
LEMMA FailsWrap ==
  ASSUME BaseInv, BaseInv', DomOK, ChainInv, ~overlapped, ~overlapped', NEW t \in Threads, WrapFails(t)
  PROVE  DomOK' /\ ChainInv'
<1> USE DEF BaseInv
<1>1. /\ call[t].pc = "apply" /\ Goto(t, "clear") /\ entry' = entry /\ created' = created
      /\ enabled' = enabled /\ instance' = instance /\ lock' = lock
      /\ Busy(t) /\ call[t].mode = "install" /\ call[t].todo # <<>>
      /\ call[t].k \in 1..Len(Wraps[Dom(t)]) /\ Len(Wraps[Dom(t)]) \in Nat
  BY WrappedMember DEF WrapFails, At, managerVars
<1>2. PICK d \in Domains, x \in Members : d = Dom(t) /\ x = Wrapped(t)
  BY <1>1, WrappedMember
<1>3. /\ created = call[t].mgr /\ created \in Managers
      /\ \A u \in Threads : Busy(u) => u = t
      /\ \A e \in Domains, y \in Members : Pending(e, y) <=> e = d /\ y = x
      /\ \A y \in Members : ~Restoring(y)
  BY <1>1, <1>2, Solo
<1>4. PICK m \in Managers : m = created
  BY <1>3
<1>5. OneRecord(m, d, x, "none")
  <2>1. SetsRecord(m, d, x, "none")
    BY <1>2, <1>3, <1>4 DEF WrapFails, Mgr, SetsRecord
  <2> QED
    BY <1>1, <1>4, <2>1, RecordEffect
<1>6. OthersKept(t) /\ Busy(t)' /\ call'[t].pc = "clear" /\ call'[t].todo = call[t].todo
  BY <1>1, GotoKept
<1>7. Dom(t)' = d
  BY <1>2, <1>6 DEF Dom
<1>8. \A u \in Threads : call'[u].pc \notin {"apply", "restore"}
  BY <1>3, <1>6 DEF OthersKept, Busy
<1>9. /\ \A e \in Domains, y \in Members : ~Pending(e, y)'
      /\ \A y \in Members : ~Restoring(y)'
  BY <1>8 DEF Pending, Restoring
<1>10. Recs(d) = WrappedTo(t, call[t].k) /\ x \in Recs(d)
  <2>1. Recs(d) = WrappedTo(t, call[t].k)
    BY <1>1, <1>2 DEF DomOK, RecsAt
  <2>2. x \in WrappedTo(t, call[t].k)
    BY <1>1, <1>2 DEF WrappedTo, Wrapped
  <2> QED
    BY <2>1, <2>2
<1>11. DomOK'
  <2>1. RecsAt(t)'
    <3>1. WrappedTo(t, call[t].k) \subseteq ToSet(Wraps[d])
      <4>1. DOMAIN Wraps[d] = 1..Len(Wraps[d])
        BY <1>1, <1>2, AtDomain
      <4> QED
        BY <1>1, <1>2, <4>1 DEF WrappedTo, ToSet
    <3>2. Recs(d)' \subseteq ToSet(Wraps[d])
      BY <1>5, <1>10, <3>1 DEF OneRecord
    <3>3. Recs(Dom(t))' = Recs(d)'
      BY <1>7 DEF Recs, Has
    <3> QED
      BY <1>6, <1>7, <3>2, <3>3 DEF RecsAt, ToSet
  <2>2. Current(t, d)'
    BY <1>6, <1>7 DEF Current
  <2>3. \A e \in Domains \ {d} : Recs(e)' = Recs(e)
    BY <1>5 DEF OneRecord
  <2> QED
    BY <1>1, <1>2, <1>6, <1>7, <2>1, <2>2, <2>3, DomBusy
<1>12. \A i \in DOMAIN Chain(x) : Chain(x)[i] # Layer(m, d)
  <2>1. Records(m, d, x)
    BY <1>4, <1>10 DEF Recs, ChainInv, RecOK
  <2> QED
    BY <1>3, <2>1 DEF Records
<1>13. RecOK' /\ LayOK' /\ SortOK' /\ EntOK'
  BY <1>1, <1>3, <1>4, <1>5, <1>9, <1>12, RecordGone
<1>14. TopOK'
  BY <1>8 DEF TopOK
<1> QED
  BY <1>11, <1>13, <1>14 DEF ChainInv

\* A domain has at most one wrapper of a manager on a member.
LEMMA OneLayer ==
  ASSUME WrapTypes, SortOK, NEW x \in Members, NEW i \in DOMAIN Chain(x), NEW j \in DOMAIN Chain(x),
         Chain(x)[i] = Chain(x)[j]
  PROVE  i = j
<1>1. PICK l \in Layers : l = Chain(x)[i] /\ l = Chain(x)[j]
  BY ChainType
<1>2. l.mgr \in Nat /\ l.dom \in Domains
  BY LayerParts, ManagerAssumption DEF Managers
<1>3. ~Under(l, l)
  BY <1>2, BeforeStrict DEF Under
<1>4. i \in Nat /\ j \in Nat
  BY ChainType
<1> QED
  BY <1>1, <1>3, <1>4 DEF SortOK

\* A wrapper that is not on top is left behind by the clear of its domain.
LEMMA Covered ==
  ASSUME BaseInv, DomOK, ChainInv, ~overlapped, NEW t \in Threads, call[t].pc = "clear",
         NEW d \in Domains, d = Dom(t), NEW x \in Members,
         NEW i \in DOMAIN Chain(x), Chain(x)[i] = Layer(created, d), i # Len(Chain(x))
  PROVE  LeftBehind(Chain(x)[i], x)
<1> USE DEF BaseInv
<1>1. Busy(t) /\ call[t].todo # <<>>
  BY DEF Busy, ManageInv, Located
<1>2. created = call[t].mgr /\ created \in Managers /\ created \in Nat /\ instance = 0
  BY <1>1, Solo, ManagerAssumption DEF Managers
<1>3. Len(Chain(x)) \in DOMAIN Chain(x) /\ i < Len(Chain(x))
  BY ChainType
<1>4. PICK n \in DOMAIN Chain(x) : n = Len(Chain(x))
  BY <1>3
<1>5. PICK l \in Layers : l = Chain(x)[n]
  BY ChainType
<1>6. l.mgr \in Nat /\ l.dom \in Domains
  BY LayerParts, ManagerAssumption DEF Managers
<1>7. Under(Layer(created, d), l) /\ l.mgr <= created /\ x \in ToSet(Wraps[l.dom])
  BY <1>3, <1>4, <1>5 DEF ChainInv, SortOK, LayOK
<1>8. l.mgr = created /\ Before(d, l.dom)
  BY <1>2, <1>6, <1>7 DEF Under, Layer
<1>9. call[t].mode # "install"
  <2> SUFFICES ASSUME call[t].mode = "install" PROVE FALSE
    OBVIOUS
  <2>1. l.dom # d => Before(l.dom, d)
    BY <1>1, <1>5, <1>8, LayerOfEnabled
  <2> QED
    BY <1>6, <1>8, <2>1, BeforeStrict
<1>10. lock = NoThread
  BY <1>1, <1>9, AtDomain, Solo
<1>11. l.dom \in SharedBy(x) /\ Chain(x)[i].dom = d
  BY <1>6, <1>7 DEF SharedBy, Layer
<1> QED
  BY <1>2, <1>8, <1>10, <1>11 DEF LeftBehind

\* unwrap pops a record, and finds its wrapper on top or leaves it.
LEMMA LookClear ==
  ASSUME BaseInv, BaseInv', DomOK, ChainInv, ~overlapped, ~overlapped', NEW t \in Threads, ClearLook(t)
  PROVE  DomOK' /\ ChainInv'
<1> USE DEF BaseInv
<1>1. /\ call[t].pc = "clear" /\ entry' = entry /\ created' = created
      /\ enabled' = enabled /\ instance' = instance /\ lock' = lock
      /\ Busy(t) /\ call[t].todo # <<>>
  BY DEF ClearLook, managerVars, Busy, ManageInv, Located
<1>2. PICK d \in Domains : d = Dom(t)
  BY <1>1, AtDomain
<1>3. /\ created = call[t].mgr /\ created \in Managers
      /\ \A u \in Threads : Busy(u) => u = t
      /\ \A e \in Domains, y \in Members : ~Pending(e, y)
      /\ \A y \in Members : ~Restoring(y)
  BY <1>1, <1>2, Solo
<1>4. PICK m \in Managers : m = created
  BY <1>3
<1>5. PICK x \in ToSet(Wraps[d]) :
        /\ x \in Members /\ Has(m, d, x) /\ SetsRecord(m, d, x, "none")
        /\ \/ /\ Chain(x) # <<>> /\ Last(Chain(x)) = Layer(m, d)
              /\ call' = [call EXCEPT
                   ![t].pc = "restore",
                   ![t].top = [member |-> x, owned |-> records[m][d][x] = "owned",
                               below |-> Front(Chain(x))]]
           \/ /\ ~(Chain(x) # <<>> /\ Last(Chain(x)) = Layer(m, d))
              /\ call' = call
  BY <1>2, <1>3, <1>4, ClearLooks DEF Mgr, Has, SetsRecord
<1>6. OneRecord(m, d, x, "none")
  BY <1>1, <1>4, <1>5, RecordEffect
<1>7. /\ Chain(x) \in Seq(Layers) /\ Len(Chain(x)) \in Nat /\ DOMAIN Chain(x) = 1..Len(Chain(x))
      /\ \A y : Chain(y)' = Chain(y)
  BY <1>1, <1>5, ChainType DEF Chain
<1>8. /\ OthersKept(t) /\ Busy(t)' /\ call'[t].todo = call[t].todo /\ call'[t].mgr = call[t].mgr
      /\ call'[t].pc \in {"clear", "restore"}
      /\ \/ /\ Chain(x) # <<>> /\ Last(Chain(x)) = Layer(m, d) /\ call'[t].pc = "restore"
            /\ call'[t].top = [member |-> x, owned |-> records[m][d][x] = "owned",
                               below |-> Front(Chain(x))]
         \/ /\ ~(Chain(x) # <<>> /\ Last(Chain(x)) = Layer(m, d))
            /\ call'[t].pc = "clear"
  <2>1. CASE ~(Chain(x) # <<>> /\ Last(Chain(x)) = Layer(m, d))
    <3>1. call' = call
      BY <1>5, <2>1
    <3> QED
      BY <1>1, <2>1, <3>1 DEF OthersKept, Busy
  <2>2. CASE Chain(x) # <<>> /\ Last(Chain(x)) = Layer(m, d)
    <3>1. Front(Chain(x)) \in Seq(Layers)
      BY <1>7, <2>2, FrontFacts
    <3>2. [member |-> x, owned |-> records[m][d][x] = "owned", below |-> Front(Chain(x))] \in Tops
      BY <1>5, <3>1 DEF Tops
    <3>3. PICK top \in Tops : top = [member |-> x, owned |-> records[m][d][x] = "owned",
                                     below |-> Front(Chain(x))]
      BY <3>2
    <3>4. call' = [call EXCEPT ![t].pc = "restore", ![t].top = top]
      BY <1>5, <2>2, <3>3
    <3>5. /\ OthersKept(t) /\ Busy(t)' /\ call'[t].todo = call[t].todo /\ call'[t].mgr = call[t].mgr
          /\ call'[t].pc = "restore" /\ call'[t].top = top
      BY <1>1, <3>4, TopEffect
    <3> QED
      BY <2>2, <3>3, <3>5
  <2> QED
    BY <2>1, <2>2
<1>9. Dom(t)' = d
  BY <1>2, <1>8 DEF Dom
<1>10. \A u \in Threads : call'[u].pc \in {"apply", "restore"} => u = t /\ call'[u].pc = "restore"
  BY <1>3, <1>8 DEF OthersKept, Busy
<1>11. \A e \in Domains, y \in Members : ~Pending(e, y)'
  BY <1>10 DEF Pending
<1>12. DomOK'
  <2>1. RecsAt(t)'
    <3>1. Recs(d) \subseteq ToSet(Wraps[d])
      BY <1>1, <1>2 DEF DomOK, RecsAt
    <3>2. Recs(d)' \subseteq ToSet(Wraps[d])
      BY <1>6, <3>1 DEF OneRecord
    <3>3. Recs(Dom(t))' = Recs(d)'
      BY <1>9 DEF Recs, Has
    <3> QED
      BY <1>8, <1>9, <3>2, <3>3 DEF RecsAt, ToSet
  <2>2. Current(t, d)'
    BY <1>8, <1>9 DEF Current
  <2>3. \A e \in Domains \ {d} : Recs(e)' = Recs(e)
    BY <1>6 DEF OneRecord
  <2> QED
    BY <1>1, <1>2, <1>8, <1>9, <2>1, <2>2, <2>3, DomBusy
<1>13. PICK i \in DOMAIN Chain(x) :
         /\ Chain(x)[i] = Layer(m, d)
         /\ records[m][d][x] = "owned" <=> x \in Inherited /\ i = 1
  <2>1. Records(m, d, x)
    BY <1>5 DEF ChainInv, RecOK
  <2> QED
    BY <1>3, <1>5, <2>1 DEF Records
<1>14. CASE call'[t].pc = "clear"
  <2>1. i # Len(Chain(x))
    <3>1. Chain(x) # <<>>
      BY <1>7, <1>13
    <3>2. Last(Chain(x)) # Layer(m, d)
      BY <1>8, <1>14, <3>1
    <3>3. Last(Chain(x)) = Chain(x)[Len(Chain(x))]
      BY <1>7, <3>1, FrontFacts
    <3> QED
      BY <1>13, <3>2, <3>3
  <2>2. \A j \in DOMAIN Chain(x) : Chain(x)[j] = Layer(m, d) => LeftBehind(Chain(x)[j], x)
    <3>1. \A j \in DOMAIN Chain(x) : Chain(x)[j] = Layer(m, d) => j = i
      BY <1>5, <1>13, OneLayer DEF ChainInv
    <3>2. LeftBehind(Chain(x)[i], x)
      BY <1>1, <1>2, <1>4, <1>5, <1>13, <2>1, Covered
    <3> QED
      BY <3>1, <3>2
  <2>3. RecOK' /\ LayOK' /\ SortOK' /\ EntOK'
    BY <1>1, <1>3, <1>4, <1>5, <1>6, <1>11, <2>2, RecordGone
  <2>4. TopOK'
    BY <1>10, <1>14 DEF TopOK
  <2> QED
    BY <1>12, <2>3, <2>4 DEF ChainInv
<1>15. CASE call'[t].pc = "restore"
  <2>1. /\ Chain(x) # <<>> /\ Last(Chain(x)) = Layer(m, d)
        /\ call'[t].top = [member |-> x, owned |-> records[m][d][x] = "owned",
                           below |-> Front(Chain(x))]
    BY <1>8, <1>15
  <2>2. Chain(x)[Len(Chain(x))] = Layer(m, d) /\ Len(Chain(x)) \in DOMAIN Chain(x)
    BY <1>7, <2>1, FrontFacts
  <2>3. \A j \in DOMAIN Chain(x) : Chain(x)[j] = Layer(m, d) => j = Len(Chain(x))
    BY <1>5, <2>2, OneLayer DEF ChainInv
  <2>4. Restoring(x)'
    BY <1>15, <2>1 DEF Restoring
  <2>5. RecOK' /\ LayOK' /\ SortOK' /\ EntOK'
    BY <1>1, <1>3, <1>4, <1>5, <1>6, <1>11, <2>3, <2>4, RecordGone
  <2>6. TopAt(t)'
    <3>1. ~Has(m, d, x)'
      BY <1>6 DEF OneRecord
    <3>2. i = Len(Chain(x))
      BY <1>13, <2>3
    <3>3. call'[t].mgr = m
      BY <1>3, <1>4, <1>8
    <3>4. /\ call'[t].top.member = x /\ call'[t].top.below = Front(Chain(x))
          /\ call'[t].top.owned <=> x \in Inherited /\ Len(Chain(x)) = 1
      <4>1. call'[t].top.member = x /\ call'[t].top.below = Front(Chain(x))
        BY <2>1
      <4>2. call'[t].top.owned = (records[m][d][x] = "owned")
        BY <2>1
      <4>3. records[m][d][x] = "owned" <=> x \in Inherited /\ Len(Chain(x)) = 1
        BY <1>13, <3>2
      <4> QED
        BY <4>1, <4>2, <4>3
    <3> QED
      BY <1>5, <1>7, <1>9, <2>1, <2>2, <3>1, <3>3, <3>4 DEF TopAt, Has, Chain
  <2>7. TopOK'
    BY <1>10, <2>6 DEF TopOK
  <2> QED
    BY <1>12, <2>5, <2>7 DEF ChainInv
<1> QED
  BY <1>8, <1>14, <1>15

\* A wrapper is taken off, and an owned entry with it.
LEMMA RestoreWrap ==
  ASSUME BaseInv, BaseInv', DomOK, ChainInv, ~overlapped, ~overlapped', NEW t \in Threads, ClearRestore(t)
  PROVE  DomOK' /\ ChainInv'
<1> USE DEF BaseInv
<1>1. /\ call[t].pc = "restore" /\ records' = records /\ created' = created
      /\ enabled' = enabled /\ instance' = instance /\ lock' = lock
      /\ Busy(t) /\ call[t].todo # <<>>
      /\ call' = [call EXCEPT ![t].pc = "clear", ![t].top = NoTop]
  BY DEF ClearRestore, managerVars, Busy, ManageInv, Located
<1>2. PICK d \in Domains, x \in Members : d = Dom(t) /\ x = call[t].top.member
  BY <1>1, AtDomain DEF ChainInv, TopOK, TopAt
<1>3. /\ created = call[t].mgr /\ created \in Managers
      /\ \A u \in Threads : Busy(u) => u = t
      /\ \A e \in Domains, y \in Members : ~Pending(e, y)
      /\ \A y \in Members : Restoring(y) => y = x
  BY <1>1, <1>2, Solo
<1>4. PICK m \in Managers : m = created
  BY <1>3
<1>5. /\ Chain(x) # <<>> /\ Chain(x)[Len(Chain(x))] = Layer(m, d) /\ ~Has(m, d, x)
      /\ call[t].top.below = Front(Chain(x))
      /\ call[t].top.owned <=> x \in Inherited /\ Len(Chain(x)) = 1
  BY <1>1, <1>2, <1>3, <1>4 DEF ChainInv, TopOK, TopAt
<1>6. PICK c \in Seq(Layers) : c = Chain(x)
  BY ChainType
<1>7. /\ Front(c) \in Seq(Layers) /\ Len(c) \in Nat \ {0} /\ DOMAIN c = 1..Len(c)
      /\ Len(Front(c)) = Len(c) - 1 /\ DOMAIN Front(c) = 1..(Len(c) - 1)
      /\ \A i \in 1..(Len(c) - 1) : Front(c)[i] = c[i]
  BY <1>5, <1>6, FrontFacts
<1>8. /\ entry'[x] = IF call[t].top.owned THEN Absent ELSE Front(c)
      /\ \A y \in Members \ {x} : entry'[y] = entry[y]
  BY <1>2, <1>5, <1>6 DEF ClearRestore, WrapTypes
<1>9. \A y \in Members \ {x} : Chain(y)' = Chain(y)
  BY <1>8 DEF Chain
<1>10. Chain(x)' = Front(c)
  <2>1. CASE call[t].top.owned
    <3>1. Chain(x)' = <<>>
      BY <1>8, <2>1 DEF Chain
    <3>2. Len(Front(c)) = 0
      BY <1>5, <1>6, <1>7, <2>1
    <3> QED
      BY <1>7, <3>1, <3>2
  <2>2. CASE ~call[t].top.owned
    <3>1. entry'[x] = Front(c) /\ Front(c) # Absent
      BY <1>7, <1>8, <2>2, ManagerAssumption
    <3> QED
      BY <3>1 DEF Chain
  <2> QED
    BY <2>1, <2>2
<1>11. /\ OthersKept(t) /\ Busy(t)' /\ call'[t].pc = "clear" /\ call'[t].todo = call[t].todo
  <2>1. NoTop \in Tops
    BY DEF Tops, NoTop
  <2> QED
    BY <1>1, <2>1, TopEffect
<1>12. Dom(t)' = d
  BY <1>2, <1>11 DEF Dom
<1>13. \A u \in Threads : call'[u].pc \notin {"apply", "restore"}
  BY <1>3, <1>11 DEF OthersKept, Busy
<1>14. /\ \A e \in Domains, y \in Members : ~Pending(e, y)'
       /\ \A y \in Members : ~Restoring(y)'
  BY <1>13 DEF Pending, Restoring
<1>15. \A n, e, y : Has(n, e, y)' <=> Has(n, e, y)
  BY <1>1 DEF Has
<1>16. DomOK'
  <2>1. \A e \in Domains : Recs(e)' = Recs(e)
    BY <1>1, <1>15 DEF Recs
  <2>2. RecsAt(t)'
    <3>1. Recs(d) \subseteq ToSet(Wraps[d])
      BY <1>1, <1>2 DEF DomOK, RecsAt
    <3>2. Recs(Dom(t))' = Recs(d)'
      BY <1>12 DEF Recs, Has
    <3> QED
      BY <1>11, <1>12, <2>1, <3>1, <3>2 DEF RecsAt, ToSet
  <2>3. Current(t, d)'
    BY <1>11, <1>12 DEF Current
  <2> QED
    BY <1>1, <1>2, <1>11, <1>12, <2>1, <2>2, <2>3, DomBusy
<1>17. RecOK'
  <2> SUFFICES ASSUME NEW n \in Managers, NEW e \in Domains, NEW y \in Members, Has(n, e, y)
               PROVE  n = created' /\ Records(n, e, y)'
    BY <1>15 DEF RecOK
  <2>1. n = created /\ n = m /\ Records(n, e, y) /\ ~Pending(e, y) /\ ~Pending(e, y)'
    BY <1>3, <1>4, <1>14 DEF ChainInv, RecOK
  <2>2. CASE y # x
    BY <1>1, <1>9, <2>1, <2>2 DEF Records
  <2>3. CASE y = x
    <3>1. PICK i \in DOMAIN c :
            c[i] = Layer(m, e) /\ (records[m][e][x] = "owned" <=> x \in Inherited /\ i = 1)
      BY <1>6, <2>1, <2>3 DEF Records
    <3>2. e # d
      BY <1>5, <2>1, <2>3
    <3>3. i # Len(c)
      BY <1>5, <1>6, <3>1, <3>2 DEF Layer
    <3>4. i \in DOMAIN Front(c) /\ Front(c)[i] = c[i]
      BY <1>7, <3>1, <3>3
    <3> QED
      BY <1>1, <1>10, <2>1, <2>3, <3>1, <3>4 DEF Records
  <2> QED
    BY <2>2, <2>3
<1>18. ASSUME NEW y \in Members, NEW i \in DOMAIN Chain(y)'
       PROVE  i \in DOMAIN Chain(y) /\ Chain(y)'[i] = Chain(y)[i] /\ (y = x => i # Len(Chain(x)))
  BY <1>6, <1>7, <1>9, <1>10, <1>18
<1>19. LayOK'
  <2> SUFFICES ASSUME NEW y \in Members, NEW i \in DOMAIN Chain(y)'
               PROVE  LET l == Chain(y)[i]
                      IN /\ l.mgr <= created /\ y \in ToSet(Wraps[l.dom])
                         /\ Has(l.mgr, l.dom, y) \/ LeftBehind(l, y)
    BY <1>1, <1>15, <1>18 DEF LayOK, LeftBehind
  <2>1. i \in DOMAIN Chain(y) /\ (y = x => i # Len(Chain(x)))
    BY <1>18
  <2>2. ~(Restoring(y) /\ i = Len(Chain(y)))
    BY <1>3, <2>1
  <2> QED
    BY <2>1, <2>2 DEF ChainInv, LayOK
<1>20. SortOK'
  BY <1>18 DEF ChainInv, SortOK, Under
<1>21. EntOK'
  <2> SUFFICES ASSUME NEW y \in Members, Chain(y)' = <<>> PROVE entry'[y] = Original(y)
    BY DEF EntOK, Original
  <2>1. CASE y # x
    BY <1>8, <1>9, <2>1 DEF ChainInv, EntOK
  <2>2. CASE y = x
    <3>1. Len(c) = 1 /\ Front(c) = <<>>
      BY <1>7, <1>10, <2>2
    <3>2. call[t].top.owned <=> x \in Inherited
      BY <1>5, <1>6, <3>1
    <3> QED
      BY <1>8, <2>2, <3>1, <3>2 DEF Original
  <2> QED
    BY <2>1, <2>2
<1>22. TopOK'
  BY <1>13 DEF TopOK
<1> QED
  BY <1>16, <1>17, <1>19, <1>20, <1>21, <1>22 DEF ChainInv

\* A wrapper is put on top of those of the managers and domains before.
LEMMA ApplyWrap ==
  ASSUME BaseInv, BaseInv', DomOK, ChainInv, ~overlapped, ~overlapped', NEW t \in Threads, WrapApply(t)
  PROVE  DomOK' /\ ChainInv'
<1> USE DEF BaseInv
<1>1. /\ call[t].pc = "apply" /\ records' = records /\ created' = created
      /\ enabled' = enabled /\ instance' = instance /\ lock' = lock
      /\ Busy(t) /\ call[t].mode = "install" /\ call[t].todo # <<>>
      /\ call[t].k \in 1..Len(Wraps[Dom(t)]) /\ Len(Wraps[Dom(t)]) \in Nat
      /\ call' = [call EXCEPT ![t].pc = AfterWrap(t, call[t].k + 1), ![t].k = @ + 1]
  BY WrappedMember DEF WrapApply, At, managerVars
<1>2. PICK d \in Domains, x \in Members : d = Dom(t) /\ x = Wrapped(t) /\ x \in ToSet(Wraps[d])
  BY <1>1, WrappedMember
<1>3. /\ created = call[t].mgr /\ created \in Managers
      /\ \A u \in Threads : Busy(u) => u = t
      /\ \A e \in Domains, y \in Members : Pending(e, y) <=> e = d /\ y = x
      /\ \A y \in Members : ~Restoring(y)
  BY <1>1, <1>2, Solo
<1>4. PICK m \in Managers : m = created
  BY <1>3
<1>5. PICK c \in Seq(Layers) : c = Chain(x)
  BY ChainType
<1>6. PICK new \in Layers : new = Layer(m, d)
  BY DEF Layers, Layer
<1>7. /\ Append(c, new) \in Seq(Layers) /\ Len(c) \in Nat /\ DOMAIN c = 1..Len(c)
      /\ DOMAIN Append(c, new) = 1..(Len(c) + 1) /\ Append(c, new)[Len(c) + 1] = new
      /\ \A i \in 1..Len(c) : Append(c, new)[i] = c[i]
  OBVIOUS
<1>8. entry'[x] = Append(c, new) /\ \A y \in Members \ {x} : entry'[y] = entry[y]
  <2>1. entry' = [entry EXCEPT ![x] = Append(c, new)]
    BY <1>2, <1>3, <1>4, <1>5, <1>6 DEF WrapApply, Mgr
  <2> QED
    BY <2>1 DEF WrapTypes
<1>9. Chain(x)' = Append(c, new) /\ \A y \in Members \ {x} : Chain(y)' = Chain(y)
  BY <1>7, <1>8, ManagerAssumption DEF Chain
<1>10. /\ OthersKept(t) /\ Busy(t)' /\ call'[t].pc \in {"wrap", "register"}
       /\ call'[t].todo = call[t].todo /\ call'[t].k = call[t].k + 1
  <2>1. PICK k \in Nat \ {0} : k = call[t].k + 1 /\ k <= Len(Wraps[Dom(t)]) + 1
    BY <1>1
  <2>2. call' = [call EXCEPT ![t].pc = AfterWrap(t, k), ![t].k = k]
    BY <1>1, <2>1
  <2>3. /\ OthersKept(t) /\ Busy(t)' /\ call'[t].pc = AfterWrap(t, k)
        /\ call'[t].todo = call[t].todo /\ call'[t].k = k
    BY <1>1, <2>1, <2>2, NextMember
  <2> QED
    BY <2>1, <2>3 DEF AfterWrap
<1>11. Dom(t)' = d
  BY <1>2, <1>10 DEF Dom
<1>12. \A u \in Threads : call'[u].pc \notin {"apply", "restore"}
  BY <1>3, <1>10 DEF OthersKept, Busy
<1>13. /\ \A e \in Domains, y \in Members : ~Pending(e, y)'
       /\ \A y \in Members : ~Restoring(y)'
  BY <1>12 DEF Pending, Restoring
<1>14. \A n, e, y : Has(n, e, y)' <=> Has(n, e, y)
  BY <1>1 DEF Has
<1>15. Recs(d) = WrappedTo(t, call[t].k) /\ Has(m, d, x)
  <2>1. Recs(d) = WrappedTo(t, call[t].k)
    BY <1>1, <1>2 DEF DomOK, RecsAt
  <2>2. x \in WrappedTo(t, call[t].k)
    BY <1>1, <1>2 DEF WrappedTo, Wrapped
  <2> QED
    BY <1>4, <2>1, <2>2 DEF Recs
<1>16. DomOK'
  <2>1. \A e \in Domains : Recs(e)' = Recs(e)
    BY <1>1, <1>14 DEF Recs
  <2>2. RecsAt(t)'
    <3>1. Recs(Dom(t))' = Recs(d)'
      BY <1>11 DEF Recs, Has
    <3>2. call'[t].k - 1 = call[t].k
      BY <1>1, <1>10
    <3>3. WrappedTo(t, call[t].k - 1)' = WrappedTo(t, call[t].k)
      BY <1>2, <1>11, <3>2 DEF WrappedTo
    <3> QED
      BY <1>10, <1>15, <2>1, <3>1, <3>3 DEF RecsAt
  <2>3. Current(t, d)'
    BY <1>10, <1>11 DEF Current
  <2> QED
    BY <1>1, <1>2, <1>10, <1>11, <2>1, <2>2, <2>3, DomBusy
<1>17. /\ records[m][d][x] = "owned" <=> entry[x] = Absent
       /\ \A i \in DOMAIN c : c[i] # new
  <2>1. Records(m, d, x)
    BY <1>15 DEF ChainInv, RecOK
  <2> QED
    BY <1>3, <1>5, <1>6, <2>1 DEF Records
<1>18. entry[x] = Absent <=> x \in Inherited /\ Len(c) = 0
  <2>1. c = <<>> <=> Len(c) = 0
    OBVIOUS
  <2>2. entry[x] = Absent => c = <<>>
    BY <1>5 DEF Chain
  <2>3. c = <<>> => entry[x] = Original(x)
    BY <1>5 DEF ChainInv, EntOK
  <2>4. Original(x) = Absent <=> x \in Inherited
    <3>1. <<>> \in Seq(Layers)
      OBVIOUS
    <3> QED
      BY <3>1, ManagerAssumption DEF Original
  <2> QED
    BY <2>1, <2>2, <2>3, <2>4
<1>19. RecOK'
  <2> SUFFICES ASSUME NEW n \in Managers, NEW e \in Domains, NEW y \in Members, Has(n, e, y)
               PROVE  n = created' /\ Records(n, e, y)'
    BY <1>14 DEF RecOK
  <2>1. n = created /\ n = m /\ Records(n, e, y) /\ ~Pending(e, y)'
    BY <1>4, <1>13 DEF ChainInv, RecOK
  <2>2. CASE y # x
    <3>1. ~Pending(e, y)
      BY <1>3, <2>2
    <3> QED
      BY <1>1, <1>9, <2>1, <2>2, <3>1 DEF Records
  <2>3. CASE y = x /\ e # d
    <3>1. ~Pending(e, y)
      BY <1>3, <2>3
    <3>2. PICK i \in DOMAIN c :
            c[i] = Layer(m, e) /\ (records[m][e][x] = "owned" <=> x \in Inherited /\ i = 1)
      BY <1>5, <2>1, <2>3, <3>1 DEF Records
    <3>3. i \in DOMAIN Append(c, new) /\ Append(c, new)[i] = c[i]
      BY <1>7, <3>2
    <3> QED
      BY <1>1, <1>9, <2>1, <2>3, <3>2, <3>3 DEF Records
  <2>4. CASE y = x /\ e = d
    <3>1. PICK i \in DOMAIN Append(c, new) : i = Len(c) + 1
      BY <1>7
    <3>2. Append(c, new)[i] = Layer(m, d)
      BY <1>6, <1>7, <3>1
    <3>3. records[m][d][x] = "owned" <=> x \in Inherited /\ i = 1
      BY <1>7, <1>17, <1>18, <3>1
    <3> QED
      BY <1>1, <1>9, <2>1, <2>4, <3>2, <3>3 DEF Records
  <2> QED
    BY <2>2, <2>3, <2>4
<1>20. ASSUME NEW y \in Members, NEW i \in DOMAIN Chain(y)'
       PROVE  \/ i \in DOMAIN Chain(y) /\ Chain(y)'[i] = Chain(y)[i]
              \/ y = x /\ i = Len(c) + 1 /\ Chain(y)'[i] = new
  BY <1>5, <1>7, <1>9, <1>20
<1>21. LayOK'
  <2> SUFFICES ASSUME NEW y \in Members, NEW i \in DOMAIN Chain(y)', NEW l, l = Chain(y)'[i]
               PROVE  /\ l.mgr <= created /\ y \in ToSet(Wraps[l.dom])
                      /\ Has(l.mgr, l.dom, y) \/ LeftBehind(l, y)
    BY <1>1, <1>14 DEF LayOK, LeftBehind
  <2>1. CASE i \in DOMAIN Chain(y) /\ Chain(y)'[i] = Chain(y)[i]
    BY <1>3, <2>1 DEF ChainInv, LayOK
  <2>2. CASE y = x /\ Chain(y)'[i] = new
    <3>1. l.mgr = m /\ l.dom = d
      BY <1>6, <2>2 DEF Layer
    <3>2. m <= created
      BY <1>4, ManagerAssumption DEF Managers
    <3> QED
      BY <1>2, <1>15, <2>2, <3>1, <3>2
  <2> QED
    BY <1>20, <2>1, <2>2
<1>22. SortOK'
  <2>1. ASSUME NEW i \in DOMAIN c PROVE Under(c[i], new)
    <3>1. PICK l \in Layers : l = c[i] /\ l = Chain(x)[i]
      BY <1>5
    <3>2. l.mgr \in Nat /\ created \in Nat /\ l.mgr <= created
      BY <1>3, <1>5, <3>1, LayerParts, ManagerAssumption DEF ChainInv, LayOK, Managers
    <3>3. l.dom # d \/ l.mgr # m
      BY <1>6, <1>17, <3>1, LayerParts
    <3>4. l.mgr = created /\ l.dom # d => Before(l.dom, d)
      BY <1>1, <1>2, <1>5, <3>1, LayerOfEnabled
    <3> QED
      BY <1>4, <1>6, <3>1, <3>2, <3>3, <3>4 DEF Under, Layer
  <2> SUFFICES ASSUME NEW y \in Members, NEW i \in DOMAIN Chain(y)', NEW j \in DOMAIN Chain(y)', i < j
               PROVE  Under(Chain(y)'[i], Chain(y)'[j])
    BY DEF SortOK, Under
  <2>2. CASE y # x
    BY <1>9, <2>2 DEF ChainInv, SortOK
  <2>3. CASE y = x /\ j = Len(c) + 1
    <3>1. i \in DOMAIN c /\ Chain(y)'[i] = c[i] /\ Chain(y)'[j] = new
      BY <1>7, <1>9, <2>3
    <3> QED
      BY <2>1, <3>1
  <2>4. CASE y = x /\ j # Len(c) + 1
    <3>1. /\ i \in DOMAIN c /\ Chain(y)'[i] = c[i]
          /\ j \in DOMAIN c /\ Chain(y)'[j] = c[j]
      BY <1>7, <1>9, <2>4
    <3> QED
      BY <1>5, <2>4, <3>1 DEF ChainInv, SortOK
  <2> QED
    BY <2>2, <2>3, <2>4
<1>23. EntOK'
  <2>1. Chain(x)' # <<>>
    BY <1>7, <1>9
  <2> QED
    BY <1>8, <1>9, <2>1 DEF ChainInv, EntOK, Original
<1>24. TopOK'
  BY <1>12 DEF TopOK
<1> QED
  BY <1>16, <1>19, <1>21, <1>22, <1>23, <1>24 DEF ChainInv

\* A manager that nobody is busy with and that is not the instance has no record.
LEMMA NoRecords ==
  ASSUME BaseInv, DomOK, ChainInv, instance = 0, \A t \in Threads : ~Busy(t)
  PROVE  /\ \A m \in Managers, d \in Domains, x \in Members : ~Has(m, d, x)
         /\ \A x : ~Restoring(x)
         /\ \A x \in Members : \A i \in DOMAIN Chain(x) : LeftBehind(Chain(x)[i], x)
<1> USE DEF BaseInv
<1>1. \A t \in Threads : call[t].pc \in {"idle", "lock"}
  BY DEF Busy
<1>2. \A d \in Domains, t \in Threads : ~Current(t, d)
  BY <1>1 DEF Current
<1>3. \A x : ~Restoring(x)
  BY <1>1 DEF Restoring
<1>4. ASSUME NEW m \in Managers, NEW d \in Domains, NEW x \in Members, Has(m, d, x) PROVE FALSE
  <2>1. m = created /\ m # 0
    BY <1>4, ManagerAssumption DEF ChainInv, RecOK, Managers
  <2>2. enabled[m] = {}
    BY <2>1 DEF ManageInv, EnabledOK
  <2>3. AllOrNone(d)
    BY <1>2, <2>1 DEF DomOK
  <2> QED
    BY <1>4, <2>1, <2>2, <2>3 DEF AllOrNone
<1>5. ASSUME NEW x \in Members, NEW i \in DOMAIN Chain(x) PROVE LeftBehind(Chain(x)[i], x)
  <2>1. PICK l \in Layers : l = Chain(x)[i]
    BY ChainType
  <2>2. ~Has(l.mgr, l.dom, x)
    BY <1>4, LayerParts
  <2> QED
    BY <1>3, <2>1, <2>2 DEF ChainInv, LayOK
<1> QED
  BY <1>3, <1>4, <1>5

\* The next manager starts when the one before has gone.
LEMMA StartWrap ==
  ASSUME BaseInv, DomOK, ChainInv, ~overlapped', NEW t \in Threads,
         At(t, "install", "lock"), lock = NoThread, instance = 0, StartManager(t)
  PROVE  DomOK' /\ ChainInv'
<1> USE DEF BaseInv
<1>1. /\ OthersKept(t) /\ call'[t].pc = "next"
      /\ created' = created + 1 /\ lock' = t /\ instance' = instance
      /\ enabled' = enabled /\ records' = records /\ entry' = entry
      /\ \A u \in Threads : ~Stopping(u)
  BY StartKept DEF StartManager, domainVars
<1>2. ASSUME NEW u \in Threads, Busy(u) PROVE FALSE
  <2>1. call[u].mode \in {"install", "uninstall"} /\ call[u].pc # "lock"
    BY <1>2, AtDomain DEF Busy
  <2>2. call[u].mode # "install"
    BY <1>2, ManagerAssumption DEF ManageInv, LockOK
  <2> QED
    BY <1>1, <2>1, <2>2 DEF Stopping
<1>3. /\ \A m \in Managers, d \in Domains, x \in Members : ~Has(m, d, x)
      /\ \A x : ~Restoring(x)
      /\ \A x \in Members : \A i \in DOMAIN Chain(x) : LeftBehind(Chain(x)[i], x)
  BY <1>2, NoRecords
<1>4. created \in Nat /\ created' \in Managers
  BY <1>1, ManagerAssumption DEF ManageInv, ManageTypes, StartManager, Managers
<1>5. \A u \in Threads : call'[u].pc \in {"idle", "lock", "next"}
  BY <1>1, <1>2 DEF OthersKept, Busy
<1>6. /\ \A y : Chain(y)' = Chain(y)
      /\ \A m \in Managers, d \in Domains, x \in Members : ~Has(m, d, x)'
  BY <1>1, <1>3 DEF Chain, Has
<1>7. DomOK'
  <2>1. enabled'[created'] = {}
    BY <1>1, <1>4 DEF ManageInv, EnabledOK
  <2>2. \A u \in Threads : RecsAt(u)'
    BY <1>5 DEF RecsAt
  <2>3. \A d \in Domains : AllOrNone(d)'
    BY <1>4, <1>6, <2>1 DEF AllOrNone
  <2> QED
    BY <2>2, <2>3 DEF DomOK
<1>8. RecOK'
  BY <1>6 DEF RecOK
<1>9. LayOK'
  <2> SUFFICES ASSUME NEW y \in Members, NEW i \in DOMAIN Chain(y), NEW l, l = Chain(y)[i]
               PROVE  l.mgr <= created' /\ y \in ToSet(Wraps[l.dom]) /\ LeftBehind(l, y)'
    BY <1>6 DEF LayOK, LeftBehind, SharedBy
  <2>1. l \in Layers /\ l.mgr \in Nat
    BY ChainType, LayerParts, ManagerAssumption DEF Managers
  <2>2. l.mgr <= created /\ y \in ToSet(Wraps[l.dom])
    BY DEF ChainInv, LayOK
  <2>3. l.mgr <= created' /\ l.mgr # created'
    BY <1>1, <1>4, <2>1, <2>2
  <2>4. LeftBehind(l, y)'
    BY <1>3, <2>3 DEF LeftBehind
  <2> QED
    BY <2>2, <2>3, <2>4
<1>10. SortOK' /\ EntOK'
  BY <1>1, <1>6 DEF ChainInv, SortOK, EntOK
<1>11. TopOK'
  BY <1>5 DEF TopOK
<1> QED
  BY <1>7, <1>8, <1>9, <1>10, <1>11 DEF ChainInv

\* At first every member is what it was.
LEMMA WrapInit == Init => WrapInv
<1> SUFFICES ASSUME Init PROVE DomOK /\ ChainInv
  BY DEF WrapInv
<1>1. /\ \A t \in Threads : call[t].pc = "idle"
      /\ created = 0 /\ \A x \in Members : entry[x] = Original(x)
      /\ \A m \in Managers, d \in Domains, x \in Members : ~Has(m, d, x)
  BY DEF Init, TrackingInit, Idle, Has
<1>2. \A x \in Members : Chain(x) = <<>>
  BY <1>1 DEF Chain, Original
<1>3. DomOK
  BY <1>1 DEF DomOK, RecsAt
<1>4. RecOK /\ TopOK /\ EntOK
  BY <1>1 DEF RecOK, TopOK, EntOK
<1>5. LayOK /\ SortOK
  <2>1. \A x \in Members : DOMAIN Chain(x) = {}
    BY <1>2
  <2> QED
    BY <2>1 DEF LayOK, SortOK
<1> QED
  BY <1>3, <1>4, <1>5 DEF ChainInv

\* Every step preserves WrapInv.
LEMMA WrapNext ==
  ASSUME BaseInv, BaseInv', WrapInv, [Next]_vars
  PROVE  WrapInv'
<1> SUFFICES ASSUME ~overlapped' PROVE DomOK' /\ ChainInv'
  BY DEF WrapInv
<1>1. ~overlapped
  <2>1. ASSUME NEW t \in Threads, ManageStep(t) PROVE overlapped => overlapped'
    BY <2>1 DEF ManageStep, Manage, Install, Enable, Clear, Uninstall, BeginInstall, LockInstall,
       StartManager, SkipDomain, EndStart, BeginEnable, WrapLook, WrapApply, WrapFails, Register,
       RegisterFails, ClearLook, ClearRestore, ClearEnds, BeginUninstall, TakeInstance, TakeNothing,
       BeginDisable, EndStop, managerVars
  <2>2. ASSUME NEW t \in Threads, CloseQueue(t) \/ UnsetQueue(t) PROVE overlapped => overlapped'
    BY <2>2 DEF CloseQueue, UnsetQueue, managerVars
  <2>3. ASSUME NEW a \in Apps, Fire(a) PROVE overlapped => overlapped'
    BY <2>3 DEF Fire, FireBegin, FireNext, FireEnds, FireRaises, CreateQueue, ReadQueue, Enqueue,
       trackingVars, managerVars
  <2>4. UNCHANGED vars => overlapped' = overlapped
    BY DEF vars, trackingVars, managerVars
  <2> QED
    BY <2>1, <2>2, <2>3, <2>4 DEF Next
<1>2. DomOK /\ ChainInv
  BY <1>1 DEF WrapInv
<1>3. ASSUME NEW t \in Threads, ManageStep(t) PROVE DomOK' /\ ChainInv'
  <2>1. CASE Install(t)
    <3>1. CASE LockInstall(t)
      <4>1. CASE StartManager(t) /\ instance = 0
        BY <1>2, <3>1, <4>1, StartWrap DEF LockInstall
      <4>2. CASE ~StartManager(t)
        BY <1>2, <3>1, <4>2, AwaySteps
      <4>3. CASE StartManager(t) /\ instance # 0
        BY <1>2, <3>1, <4>3 DEF LockInstall, StartManager, managerVars, BaseInv, ManageInv, ManageTypes
      <4> QED
        BY <4>1, <4>2, <4>3
    <3> QED
      BY <1>2, <2>1, <3>1, AwaySteps DEF Install
  <2>2. CASE Enable(t)
    <3>1. CASE BeginEnable(t)
      BY <1>1, <1>2, <3>1, BeginEnableWrap
    <3>2. CASE WrapLook(t)
      BY <1>1, <1>2, <3>2, LookWrap
    <3>3. CASE WrapApply(t)
      BY <1>1, <1>2, <3>3, ApplyWrap
    <3>4. CASE WrapFails(t)
      BY <1>1, <1>2, <3>4, FailsWrap
    <3>5. CASE Register(t) \/ RegisterFails(t)
      BY <1>1, <1>2, <3>5, RegisterWrap
    <3> QED
      BY <2>2, <3>1, <3>2, <3>3, <3>4, <3>5 DEF Enable
  <2>3. CASE Clear(t)
    <3>1. CASE ClearLook(t)
      BY <1>1, <1>2, <3>1, LookClear
    <3>2. CASE ClearRestore(t)
      BY <1>1, <1>2, <3>2, RestoreWrap
    <3>3. CASE ClearEnds(t)
      BY <1>1, <1>2, <3>3, ClearEndsWrap
    <3> QED
      BY <2>3, <3>1, <3>2, <3>3 DEF Clear
  <2>4. CASE Uninstall(t)
    <3>1. CASE BeginDisable(t)
      BY <1>1, <1>2, <3>1, DisableWrap
    <3> QED
      BY <1>2, <2>4, <3>1, AwaySteps DEF Uninstall
  <2> QED
    BY <1>3, <2>1, <2>2, <2>3, <2>4 DEF ManageStep, Manage
<1>4. ASSUME NEW t \in Threads, CloseQueue(t) \/ UnsetQueue(t) PROVE DomOK' /\ ChainInv'
  BY <1>2, <1>4, AwaySteps
<1>5. ASSUME NEW a \in Apps, Fire(a) PROVE DomOK' /\ ChainInv'
  <2>1. UNCHANGED <<instance, lock, created, enabled, records, entry, call>>
    BY <1>5 DEF Fire, FireBegin, FireNext, FireEnds, FireRaises, CreateQueue, ReadQueue, Enqueue,
       trackingVars, domainVars, managerVars
  <2> QED
    BY <1>2, <2>1, WrapUnchanged
<1>6. ASSUME UNCHANGED vars PROVE DomOK' /\ ChainInv'
  BY <1>2, <1>6, WrapUnchanged DEF vars, trackingVars, domainVars, managerVars
<1> QED
  BY <1>3, <1>4, <1>5, <1>6 DEF Next

LEMMA WrapHolds == Spec => [](BaseInv /\ WrapInv)
<1>1. BaseInv /\ WrapInv /\ BaseInv' /\ [Next]_vars => WrapInv'
  BY WrapNext
<1> QED
  BY <1>1, WrapInit, BaseHolds, PTL DEF Spec

\* While a manager is the instance, each of its domains is wholly there, with one wrapper
\* on each member and its handlers, or not at all (domain.py:74).
THEOREM WhollyInstalled == Spec => []EnabledMeansInstalled
<1>1. ASSUME BaseInv, WrapInv PROVE EnabledMeansInstalled
  <2> USE <1>1 DEF BaseInv
  <2> SUFFICES ASSUME instance # 0, ~overlapped, NEW d \in Domains, NEW members,
                      members = IF d \in enabled[instance] THEN ToSet(Wraps[d]) ELSE {}
               PROVE  /\ d \in registered[instance] <=> d \in enabled[instance]
                      /\ \A x \in Members :
                           /\ Cardinality(LayersOf(instance, d, x)) = IF x \in members THEN 1 ELSE 0
                           /\ records[instance][d][x] # "none" <=> x \in members
    BY DEF EnabledMeansInstalled
  <2>1. instance = created /\ created \in Managers /\ created # 0 /\ DomOK /\ ChainInv
    BY ManagerAssumption DEF WrapInv, ManageInv, LockOK, ManageTypes, Managers
  <2>2. d \in registered[instance] <=> d \in enabled[instance]
    BY <2>1 DEF ManageInv, EnabledOK
  <2>3. \A t \in Threads : ~Busy(t)
    BY DEF ManageInv, SoloOK
  <2>4. /\ AllOrNone(d)
        /\ \A x \in Members : ~Pending(d, x) /\ ~Restoring(x)
    <3>1. \A t \in Threads : call[t].pc \in {"idle", "lock"}
      BY <2>3 DEF Busy
    <3>2. \A t \in Threads : ~Current(t, d)
      BY <3>1 DEF Current
    <3>3. \A x \in Members : ~Pending(d, x) /\ ~Restoring(x)
      BY <3>1 DEF Pending, Restoring
    <3> QED
      BY <2>1, <3>2, <3>3 DEF DomOK
  <2>5. \A x \in Members : Has(instance, d, x) <=> x \in members
    BY <2>1, <2>4 DEF AllOrNone
  <2>6. ASSUME NEW x \in Members, Has(instance, d, x) PROVE Cardinality(LayersOf(instance, d, x)) = 1
    <3>1. Records(instance, d, x)
      BY <2>1, <2>6 DEF ChainInv, RecOK
    <3>2. PICK i \in DOMAIN Chain(x) : Chain(x)[i] = Layer(instance, d)
      BY <2>4, <3>1 DEF Records
    <3>3. \A j \in DOMAIN Chain(x) : Chain(x)[j] = Layer(instance, d) => j = i
      BY <2>1, <3>2, OneLayer DEF ChainInv
    <3>4. LayersOf(instance, d, x) = {i}
      BY <3>2, <3>3 DEF LayersOf
    <3> QED
      BY <3>4, FS_Singleton
  <2>7. ASSUME NEW x \in Members, ~Has(instance, d, x) PROVE Cardinality(LayersOf(instance, d, x)) = 0
    <3>1. ASSUME NEW i \in DOMAIN Chain(x), Chain(x)[i] = Layer(instance, d) PROVE FALSE
      <4>1. Chain(x)[i].mgr = instance /\ Chain(x)[i].dom = d
        BY <3>1 DEF Layer
      <4>2. LeftBehind(Chain(x)[i], x)
        BY <2>1, <2>4, <2>7, <4>1 DEF ChainInv, LayOK
      <4> QED
        BY <2>1, <4>1, <4>2 DEF LeftBehind
    <3>2. LayersOf(instance, d, x) = {}
      BY <3>1 DEF LayersOf
    <3> QED
      BY <3>2, FS_EmptySet
  <2>8. ASSUME NEW x \in Members
        PROVE  /\ Cardinality(LayersOf(instance, d, x)) = IF x \in members THEN 1 ELSE 0
               /\ records[instance][d][x] # "none" <=> x \in members
    <3>1. records[instance][d][x] # "none" <=> x \in members
      BY <2>5 DEF Has
    <3> QED
      BY <2>5, <2>6, <2>7, <3>1
  <2> QED
    BY <2>2, <2>8
<1> QED
  BY <1>1, WrapHolds, PTL

\* When all is uninstalled a member that one domain wraps is what it was before, and on
\* the others only wrappers below those of a later domain are left (wrapper.py:147-151).
THEOREM MembersRestored == Spec => []UninstallRestores
<1>1. ASSUME BaseInv, WrapInv PROVE UninstallRestores
  <2> USE <1>1 DEF BaseInv
  <2> SUFFICES ASSUME Quiet, ~overlapped, NEW x \in Members
               PROVE  /\ Cardinality(SharedBy(x)) <= 1 => entry[x] = Original(x)
                      /\ \A i \in DOMAIN Chain(x) : \E e \in SharedBy(x) : Before(Chain(x)[i].dom, e)
    BY DEF UninstallRestores
  <2>1. instance = 0 /\ (\A t \in Threads : ~Busy(t)) /\ DomOK /\ ChainInv
    BY DEF Quiet, Busy, Idle, WrapInv
  <2>2. \A i \in DOMAIN Chain(x) : LeftBehind(Chain(x)[i], x)
    BY <2>1, NoRecords
  <2>3. ASSUME Cardinality(SharedBy(x)) <= 1 PROVE Chain(x) = <<>>
    <3>0. Chain(x) # <<>> => 1 \in DOMAIN Chain(x)
      BY ChainType
    <3> SUFFICES ASSUME NEW i \in DOMAIN Chain(x) PROVE FALSE
      BY <3>0
    <3>1. PICK l \in Layers : l = Chain(x)[i]
      BY ChainType
    <3>2. l.dom \in Domains /\ x \in ToSet(Wraps[l.dom])
      BY <2>1, <3>1, LayerParts DEF ChainInv, LayOK
    <3>3. PICK e \in SharedBy(x) : Before(l.dom, e)
      BY <2>2, <3>1 DEF LeftBehind
    <3>4. l.dom \in SharedBy(x) /\ e \in Domains /\ SharedBy(x) \subseteq Domains
      BY <3>2 DEF SharedBy
    <3>5. IsFiniteSet(SharedBy(x))
      BY <3>4, FS_Subset, ManagerAssumption
    <3>6. SharedBy(x) = {e}
      BY <2>3, <3>5, OnlyQueue
    <3>7. l.dom = e
      BY <3>4, <3>6
    <3> QED
      BY <3>3, <3>4, <3>7, BeforeStrict
  <2>4. Cardinality(SharedBy(x)) <= 1 => entry[x] = Original(x)
    BY <2>1, <2>3 DEF ChainInv, EntOK
  <2> QED
    BY <2>2, <2>4 DEF LeftBehind
<1> QED
  BY <1>1, WrapHolds, PTL
=============================================================================
