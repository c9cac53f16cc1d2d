------------------------------- MODULE Cursor -------------------------------
(***************************************************************************)
(* A database cursor: CursorProxy (src/src/qorme/db/tracking.py) and the   *)
(* handlers of the ResultHash domain, which exchange the cursor's row      *)
(* factory while rows are fetched (src/src/qorme/db/domains/               *)
(* result_hash.py).                                                        *)
(*                                                                         *)
(* One thread uses the cursor; the domain can be enabled and disabled at   *)
(* any time.  A row factory is the number of hashers around the            *)
(* application's own.  The driver's cursor is external: it holds the       *)
(* result of the last statement and the number of rows left.               *)
(***************************************************************************)
EXTENDS Naturals, Sequences, FiniteSets

CONSTANTS
  MaxStatements,  \* bound: statements executed
  MaxRows,        \* bound: rows of a result
  MaxSwitches     \* bound: how often the domain is enabled or disabled

ASSUME CursorAssumption ==
  /\ MaxStatements \in Nat /\ MaxRows \in Nat /\ MaxSwitches \in Nat

Statements == 1..MaxStatements

\* No uid, the result of no statement.
None == 0

\* Every hasher left on the cursor takes a switch during a fetch.
MaxDepth == MaxSwitches + 1

\* _self_row_factory before the first fetch.
NoFactory == MaxDepth + 1

VARIABLES
  enabled,    \* are the handlers of ResultHash registered?
  switches,   \* how often they have been registered or unregistered
  pc,         \* where the thread is in a call of the proxy
  after,      \* where _fetch_done returns to
  uid,        \* _self_query_uid
  fetching,   \* _self_fetch_in_progress
  factory,    \* row_factory of the driver's cursor
  saved,      \* _self_row_factory
  seen,       \* the rows that the hasher at a depth has taken
  hashes,     \* history: the result hashes computed
  result,     \* external: the statement whose result the driver holds
  left,       \* external: its rows not yet fetched
  count,      \* statements executed
  tracked,    \* those that were executed in a context
  delivered,  \* history: rows that the application has been given
  disturbed   \* history: the domain was switched during a fetch

domainVars == <<enabled, switches, disturbed>>
callVars == <<pc, after>>
proxyVars == <<uid, fetching>>
hashVars == <<factory, saved, seen, hashes>>
driverVars == <<result, left, delivered>>
vars == <<domainVars, callVars, proxyVars, hashVars, driverVars, count, tracked>>
-----------------------------------------------------------------------------
Goto(p) == pc' = p

\* _fetch_done, then on to p.
FetchDoneThen(p) == pc' = "done" /\ after' = p
-----------------------------------------------------------------------------
(* Fetching.                                                                *)

\* _fetch_started; the handler of ResultHash puts a hasher around the row
\* factory, which it saves.
FetchStarted(p) ==
  /\ pc = "idle" /\ p \in {"one", "all"}
  /\ fetching' = TRUE
  /\ IF ~fetching /\ enabled
     THEN /\ saved' = factory
          /\ factory' = factory + 1
          /\ seen' = [seen EXCEPT ![factory + 1] = {}]
     ELSE UNCHANGED <<saved, factory, seen>>
  /\ Goto(p)
  /\ UNCHANGED <<after, uid, hashes, domainVars, driverVars, count, tracked>>

\* The driver hands over n rows, which pass the hashers around the row factory.
Deliver(n) ==
  LET rows == {<<result, i>> : i \in (left - n + 1)..left}
  IN /\ left' = left - n
     /\ delivered' = delivered \cup rows
     /\ seen' = [i \in DOMAIN seen |-> IF i <= factory THEN seen[i] \cup rows ELSE seen[i]]

\* fetchone, and fetchmany of one row or more.
FetchSome ==
  /\ pc = "one" /\ result # None /\ left > 0
  /\ Deliver(1)
  /\ Goto("idle")
  /\ UNCHANGED <<after, proxyVars, factory, saved, hashes, result, domainVars, count, tracked>>

\* No row is left: the fetch is over.
FetchNone ==
  /\ pc = "one" /\ result # None /\ left = 0
  /\ FetchDoneThen("idle")
  /\ UNCHANGED <<proxyVars, hashVars, driverVars, domainVars, count, tracked>>

FetchAll ==
  /\ pc = "all" /\ result # None
  /\ Deliver(left)
  /\ FetchDoneThen("idle")
  /\ UNCHANGED <<proxyVars, factory, saved, hashes, result, domainVars, count, tracked>>

\* Without a result the driver raises, and the fetch stays in progress.
FetchRaises ==
  /\ pc \in {"one", "all"} /\ result = None
  /\ Goto("idle")
  /\ UNCHANGED <<after, proxyVars, hashVars, driverVars, domainVars, count, tracked>>

\* The digest of the hasher in place, under the cursor's uid.  The hash of no
\* rows under no uid, as a fetch past the end computes it, is not recorded.
WithDigest ==
  IF factory = 0 \/ (uid = None /\ seen[factory] = {}) THEN hashes
  ELSE Append(hashes, [uid |-> uid, rows |-> seen[factory]])

\* Variant for a mutation: the uid of the statement stays with the cursor.
FetchDoneKeepsUid ==
  /\ pc = "done"
  /\ IF fetching /\ enabled /\ saved # NoFactory
     THEN /\ factory' = saved
          /\ hashes' = WithDigest
     ELSE UNCHANGED <<factory, hashes>>
  /\ fetching' = FALSE
  /\ Goto(after)
  /\ UNCHANGED <<after, uid, saved, seen, driverVars, domainVars, count, tracked>>

\* Variant for a mutation: the row factory is not exchanged back.
FetchDoneKeepsFactory ==
  /\ pc = "done"
  /\ IF fetching /\ enabled /\ saved # NoFactory
     THEN hashes' = WithDigest
     ELSE UNCHANGED hashes
  /\ fetching' = FALSE
  /\ uid' = IF fetching THEN None ELSE uid
  /\ Goto(after)
  /\ UNCHANGED <<after, factory, saved, seen, driverVars, domainVars, count, tracked>>

\* _fetch_done; the handler of ResultHash restores the factory and asks the one
\* that was in place for its digest.  When none was ever saved, or the one in
\* place is no hasher, it raises, and fire logs the error.
FetchDone ==
  /\ pc = "done"
  /\ IF fetching /\ enabled /\ saved # NoFactory
     THEN /\ factory' = saved
          /\ hashes' = WithDigest
     ELSE UNCHANGED <<factory, hashes>>
  /\ fetching' = FALSE
  /\ uid' = IF fetching THEN None ELSE uid
  /\ Goto(after)
  /\ UNCHANGED <<after, saved, seen, driverVars, domainVars, count, tracked>>
-----------------------------------------------------------------------------
(* Executing and closing.                                                   *)

\* Variant for a mutation: a fetch in progress is not ended.
BeginExecuteEager ==
  /\ pc = "idle" /\ count < MaxStatements
  /\ Goto("execute")
  /\ UNCHANGED <<after, proxyVars, hashVars, driverVars, domainVars, count, tracked>>

BeginExecute ==
  /\ pc = "idle" /\ count < MaxStatements
  /\ FetchDoneThen("execute")
  /\ UNCHANGED <<proxyVars, hashVars, driverVars, domainVars, count, tracked>>

\* In a context the statement gets a uid; outside of one the proxy does nothing.
\* The driver may refuse the statement.
Execute ==
  /\ pc = "execute"
  /\ count' = count + 1
  /\ \/ uid' = count + 1 /\ tracked' = tracked \cup {count + 1}
     \/ UNCHANGED <<uid, tracked>>
  /\ \/ result' = count + 1 /\ left' \in 0..MaxRows
     \/ result' = None /\ left' = 0
  /\ Goto("idle")
  /\ UNCHANGED <<after, fetching, hashVars, delivered, domainVars>>

Close ==
  /\ pc = "idle"
  /\ result' = None /\ left' = 0
  /\ FetchDoneThen("idle")
  /\ UNCHANGED <<proxyVars, hashVars, delivered, domainVars, count, tracked>>
-----------------------------------------------------------------------------
\* ResultHash is enabled or disabled by another thread.
Switch ==
  /\ switches < MaxSwitches
  /\ switches' = switches + 1
  /\ enabled' = ~enabled
  /\ disturbed' = (disturbed \/ fetching)
  /\ UNCHANGED <<callVars, proxyVars, hashVars, driverVars, count, tracked>>

Init ==
  /\ enabled \in BOOLEAN /\ switches = 0 /\ disturbed = FALSE
  /\ pc = "idle" /\ after = "idle"
  /\ uid = None /\ fetching = FALSE
  /\ factory = 0 /\ saved = NoFactory
  /\ seen = [i \in 1..MaxDepth |-> {}]
  /\ hashes = <<>>
  /\ result = None /\ left = 0 /\ delivered = {}
  /\ count = 0 /\ tracked = {}

Next ==
  \/ \E p \in {"one", "all"} : FetchStarted(p)
  \/ FetchSome \/ FetchNone \/ FetchAll \/ FetchRaises \/ FetchDone
  \/ BeginExecute \/ Execute \/ Close \/ Switch

Spec == Init /\ [][Next]_vars
-----------------------------------------------------------------------------
Rows == Statements \X (1..MaxRows)

\* The variables have their types.
TypeOK ==
  /\ pc \in {"idle", "one", "all", "done", "execute"} /\ after \in {"idle", "execute"}
  /\ uid \in 0..MaxStatements /\ result \in 0..MaxStatements /\ count \in 0..MaxStatements
  /\ left \in 0..MaxRows /\ switches \in 0..MaxSwitches
  /\ fetching \in BOOLEAN /\ enabled \in BOOLEAN /\ disturbed \in BOOLEAN
  /\ factory \in 0..MaxDepth /\ saved \in 0..MaxDepth \cup {NoFactory}
  /\ seen \in [1..MaxDepth -> SUBSET Rows] /\ delivered \subseteq Rows
  /\ hashes \in Seq([uid : 0..MaxStatements, rows : SUBSET Rows])
  /\ tracked \subseteq Statements

\* No statement gets two result hashes, whatever is fetched after its end, and
\* however the domain is switched (db/tracking.py:105-112).
OneHashPerStatement ==
  \A i, j \in DOMAIN hashes :
    (i # j /\ hashes[i].uid # None) => hashes[i].uid # hashes[j].uid

Of(s, rows) == {r \in rows : r[1] = s}

\* Unless the domain was switched during a fetch, the rows of a tracked
\* statement are hashed under its uid and no other, and its hash is of all the
\* rows that the application was given (result_hash.py:28-37).
HashedUnderItsUid ==
  ~disturbed =>
    \A i \in DOMAIN hashes : \A s \in tracked :
      IF hashes[i].uid = s
      THEN Of(s, delivered) = Of(s, hashes[i].rows)
      ELSE Of(s, hashes[i].rows) = {}

\* Unless the domain was switched during a fetch, the application finds its own
\* row factory on the cursor between two fetches.
FactoryRestored == (~disturbed /\ ~fetching) => factory = 0
=============================================================================
