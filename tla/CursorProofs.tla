---------------------------- MODULE CursorProofs ----------------------------
(***************************************************************************)
(* Theorems about Cursor, for any number of statements, rows and switches  *)
(* of the domain.                                                          *)
(***************************************************************************)
EXTENDS Cursor, SequenceTheorems, TLAPS
-----------------------------------------------------------------------------
(* Sequences: a row joins at the end.                                        *)

\* What is in a sequence after one more has joined it.
LEMMA RangeAppend ==
  ASSUME NEW S, NEW s \in Seq(S), NEW i \in S
  PROVE  Range(Append(s, i)) = Range(s) \cup {i}
<1>1. DOMAIN s = 1..Len(s) /\ DOMAIN Append(s, i) = 1..(Len(s) + 1) /\ Len(s) \in Nat
  OBVIOUS
<1>2. \A n \in 1..(Len(s) + 1) : Append(s, i)[n] = IF n <= Len(s) THEN s[n] ELSE i
  OBVIOUS
<1> QED
  BY <1>1, <1>2 DEF Range
-----------------------------------------------------------------------------
\* While nobody switches the domain during a fetch: with hashing on a fetch has one
\* hasher around the row factory it saved, and nothing else is on the cursor.
FactoryInv ==
  /\ fetching \in BOOLEAN /\ enabled \in BOOLEAN /\ disturbed \in BOOLEAN
  /\ ~disturbed =>
       IF fetching /\ enabled THEN factory = 1 /\ saved = 0 ELSE factory = 0

\* No fetch has begun.
LEMMA FactoryInit == Init => FactoryInv
  BY DEF Init, FactoryInv

\* Every step preserves FactoryInv.
LEMMA FactoryNext == FactoryInv /\ [Next]_vars => FactoryInv'
<1> SUFFICES ASSUME FactoryInv, [Next]_vars PROVE FactoryInv'
  OBVIOUS
<1> USE DEF FactoryInv, domainVars, hashVars, proxyVars, callVars, driverVars
<1>1. ASSUME NEW p \in {"one", "all"}, FetchStarted(p) PROVE FactoryInv'
  BY <1>1 DEF FetchStarted
<1>2. CASE FetchSome
  BY <1>2 DEF FetchSome
<1>3. CASE FetchNone
  BY <1>3 DEF FetchNone
<1>4. CASE FetchAll
  BY <1>4 DEF FetchAll
<1>5. CASE FetchRaises
  BY <1>5 DEF FetchRaises
<1>6. CASE FetchDone
  <2>1. MaxSwitches \in Nat
    BY CursorAssumption
  <2>2. NoFactory # 0
    BY <2>1 DEF NoFactory, MaxDepth
  <2>3. CASE fetching /\ enabled /\ saved # NoFactory
    BY <1>6, <2>3 DEF FetchDone
  <2>4. CASE ~(fetching /\ enabled /\ saved # NoFactory)
    BY <1>6, <2>2, <2>4 DEF FetchDone
  <2> QED
    BY <2>3, <2>4
<1>7. CASE BeginExecute
  BY <1>7 DEF BeginExecute
<1>8. CASE Execute
  BY <1>8 DEF Execute
<1>9. CASE Close
  BY <1>9 DEF Close
<1>10. CASE Switch
  BY <1>10 DEF Switch
<1>11. CASE UNCHANGED vars
  BY <1>11 DEF vars
<1> QED
  BY <1>1, <1>2, <1>3, <1>4, <1>5, <1>6, <1>7, <1>8, <1>9, <1>10, <1>11 DEF Next

\* _on_fetch_done, ResultHash: between two fetches the application finds its own row
\* factory on the cursor, unless the domain was switched during a fetch.
THEOREM GivesFactoryBack == Spec => []FactoryRestored
<1>1. FactoryInv => FactoryRestored
  BY DEF FactoryInv, FactoryRestored
<1> QED
  BY <1>1, FactoryInit, FactoryNext, PTL DEF Spec
-----------------------------------------------------------------------------
Uids == {hashes[i].uid : i \in DOMAIN hashes}

\* The uids of the hashes are those of statements executed; the one that the cursor
\* remembers has not been used.
HashInv ==
  /\ count \in Nat /\ uid \in 0..count
  /\ hashes \in Seq(Range(hashes))
  /\ Uids \subseteq 0..count
  /\ uid # None => uid \notin Uids
  /\ OneHashPerStatement

\* No hash has been computed.
LEMMA HashInit == Init => HashInv
  BY DEF Init, HashInv, Uids, None, Range, OneHashPerStatement

\* A hash under a uid that has none leaves one per statement.
LEMMA HashAppended ==
  ASSUME HashInv, NEW h, h.uid = uid, hashes' = Append(hashes, h), uid' = None, count' = count
  PROVE  HashInv'
<1> DEFINE S == Range(hashes) \cup {h}
<1>1. hashes \in Seq(S) /\ h \in S
  <2>1. Range(hashes) \subseteq S
    OBVIOUS
  <2> QED
    BY <2>1 DEF HashInv
<1>2. hashes' \in Seq(S) /\ Range(hashes') = S
  BY <1>1, RangeAppend
<1>3. /\ DOMAIN hashes = 1..Len(hashes) /\ DOMAIN hashes' = 1..(Len(hashes) + 1)
      /\ Len(hashes) \in Nat
      /\ \A i \in 1..Len(hashes) : hashes'[i] = hashes[i]
      /\ hashes'[Len(hashes) + 1] = h
  BY <1>1
<1>4. \A i \in DOMAIN hashes' : i \in DOMAIN hashes \/ i = Len(hashes) + 1
  BY <1>3
<1>5. Uids' \subseteq Uids \cup {uid}
  BY <1>3, <1>4 DEF Uids
<1>6. OneHashPerStatement'
  <2>1. ASSUME NEW i \in DOMAIN hashes', NEW j \in DOMAIN hashes', i # j, hashes'[i].uid # None
        PROVE  hashes'[i].uid # hashes'[j].uid
    <3>1. CASE i \in DOMAIN hashes /\ j \in DOMAIN hashes
      BY <1>3, <2>1, <3>1 DEF HashInv, OneHashPerStatement
    <3>2. CASE i = Len(hashes) + 1
      <4>1. j \in DOMAIN hashes /\ hashes'[i] = h /\ hashes'[j] = hashes[j]
        BY <1>3, <1>4, <2>1, <3>2
      <4>2. hashes[j].uid \in Uids
        BY <4>1 DEF Uids
      <4> QED
        BY <2>1, <4>1, <4>2 DEF HashInv
    <3>3. CASE j = Len(hashes) + 1
      <4>1. i \in DOMAIN hashes /\ hashes'[j] = h /\ hashes'[i] = hashes[i]
        BY <1>3, <1>4, <2>1, <3>3
      <4>2. hashes[i].uid \in Uids
        BY <4>1 DEF Uids
      <4> QED
        BY <2>1, <4>1, <4>2 DEF HashInv
    <3> QED
      BY <1>4, <3>1, <3>2, <3>3
  <2> QED
    BY <2>1 DEF OneHashPerStatement
<1> QED
  BY <1>2, <1>5, <1>6 DEF HashInv, None

\* Every step preserves HashInv.
LEMMA HashNext == HashInv /\ [Next]_vars => HashInv'
<1> SUFFICES ASSUME HashInv, [Next]_vars PROVE HashInv'
  OBVIOUS
<1>1. ASSUME UNCHANGED <<hashes, count>>, uid' \in {uid, None} PROVE HashInv'
  BY <1>1 DEF HashInv, Uids, OneHashPerStatement, None
<1>2. ASSUME NEW p \in {"one", "all"}, FetchStarted(p) PROVE HashInv'
  BY <1>1, <1>2 DEF FetchStarted
<1>3. CASE FetchSome \/ FetchNone \/ FetchAll \/ FetchRaises
  BY <1>1, <1>3 DEF FetchSome, FetchNone, FetchAll, FetchRaises, proxyVars, hashVars
<1>4. CASE FetchDone
  <2>1. CASE hashes' = hashes
    BY <1>1, <1>4, <2>1 DEF FetchDone
  <2>2. CASE hashes' # hashes
    <3>1. /\ hashes' = Append(hashes, [uid |-> uid, rows |-> seen[factory]])
          /\ uid' = None /\ count' = count
      BY <1>4, <2>2 DEF FetchDone, WithDigest
    <3> QED
      BY <3>1, HashAppended
  <2> QED
    BY <2>1, <2>2
<1>5. CASE BeginExecute \/ Close \/ Switch
  BY <1>1, <1>5 DEF BeginExecute, Close, Switch, proxyVars, hashVars
<1>6. CASE Execute
  <2>1. count' = count + 1 /\ uid' \in {uid, count + 1} /\ hashes' = hashes
    BY <1>6 DEF Execute, hashVars
  <2>2. count + 1 \notin Uids
    BY DEF HashInv
  <2> QED
    BY <2>1, <2>2 DEF HashInv, Uids, OneHashPerStatement
<1>7. CASE UNCHANGED vars
  BY <1>1, <1>7 DEF vars, proxyVars, hashVars
<1> QED
  BY <1>2, <1>3, <1>4, <1>5, <1>6, <1>7 DEF Next

\* CursorProxy._fetch_done: no statement gets two result hashes, whatever is fetched
\* after its end, and however the domain is switched.
THEOREM OneHash == Spec => []OneHashPerStatement
<1>1. HashInv => OneHashPerStatement
  BY DEF HashInv
<1> QED
  BY <1>1, HashInit, HashNext, PTL DEF Spec
-----------------------------------------------------------------------------
\* Where the driver's result stands: it is that of the last statement, rows are only
\* handed over during a fetch, and a fetch that ends before anything but an execution
\* leaves none.
DriverOK ==
  /\ pc \in {"idle", "one", "all", "done", "execute"} /\ after \in {"idle", "execute"}
  /\ result \in {None, count} /\ left \in Nat /\ (result = None => left = 0)
  /\ tracked \subseteq 1..count
  /\ pc \in {"one", "all"} => fetching
  /\ pc = "execute" => ~fetching
  /\ pc = "done" /\ after = "idle" => left = 0

\* Rows are those of executed statements.
RowsOK ==
  /\ DOMAIN seen = 1..MaxDepth
  /\ \A r \in delivered : r[1] \in 1..count
  /\ ~disturbed => \A i \in DOMAIN hashes : \A r \in hashes[i].rows : r[1] \in 1..count

\* A statement whose uid the cursor still remembers has delivered nothing, unless it
\* is the one being fetched; the last one, when tracked, keeps its uid until it has
\* delivered what it will.
UidOK ==
  /\ uid # None /\ (~fetching \/ uid # count) => Of(uid, delivered) = {}
  /\ count \in tracked /\ uid # count /\ pc # "execute" => left = 0

\* The hasher in place has seen the rows of the last statement, all those delivered
\* under its uid, and none of it if its uid is used up.
HasherOK ==
  fetching /\ enabled =>
    /\ \A r \in seen[1] : r[1] = count /\ count # None
    /\ uid = count => Of(count, delivered) = Of(count, seen[1])
    /\ count \in tracked /\ uid # count => seen[1] = {}

AttributionInv ==
  DriverOK /\ RowsOK /\ UidOK /\ (~disturbed => HasherOK) /\ HashedUnderItsUid

\* Nothing has been executed.
LEMMA AttributionInit == Init => AttributionInv
<1> SUFFICES ASSUME Init PROVE AttributionInv
  OBVIOUS
<1>1. DOMAIN hashes = {} /\ 1..0 = {} /\ 0 \in Nat
  BY DEF Init
<1> QED
  BY <1>1 DEF Init, AttributionInv, DriverOK, RowsOK, UidOK, HasherOK, HashedUnderItsUid, None

\* Rows that the driver hands over during a fetch.
LEMMA RowsDelivered ==
  ASSUME FactoryInv, HashInv, AttributionInv, pc \in {"one", "all"}, result # None,
         NEW n \in 0..left, n = 0 \/ left > 0, Deliver(n),
         pc' \in {"idle", "done"}, pc' = "done" => after' = "idle" /\ left' = 0,
         after' \in {"idle", "execute"},
         UNCHANGED <<proxyVars, factory, saved, hashes, result, domainVars, count, tracked>>
  PROVE  AttributionInv'
<1> DEFINE rows == {<<result, i>> : i \in (left - n + 1)..left}
<1>1. /\ left' = left - n /\ delivered' = delivered \cup rows
      /\ seen' = [i \in DOMAIN seen |-> IF i <= factory THEN seen[i] \cup rows ELSE seen[i]]
  BY DEF Deliver
<1>2. /\ uid' = uid /\ fetching' = fetching /\ fetching /\ enabled' = enabled
      /\ disturbed' = disturbed /\ result = count /\ result' = result
      /\ count' = count /\ tracked' = tracked /\ hashes' = hashes
  BY DEF proxyVars, domainVars, AttributionInv, DriverOK
<1>3. \A r \in rows : r[1] = count
  BY <1>2
<1>4. left = 0 => rows = {}
  <2>1. left = 0 => (left - n + 1)..left = {}
    BY DEF AttributionInv, DriverOK
  <2> QED
    BY <2>1
<1> HIDE DEF rows
<1>5. count \in 1..count
  BY <1>2 DEF HashInv, None
<1>6. \A s : Of(s, delivered') = Of(s, delivered) \cup Of(s, rows)
  BY <1>1 DEF Of
<1>7. \A s : s # count => Of(s, rows) = {}
  BY <1>3 DEF Of
<1>8. DriverOK'
  <2>1. left' \in Nat
    BY <1>1 DEF AttributionInv, DriverOK
  <2>2. pc' \in {"idle", "done"} /\ (pc' = "done" => left' = 0)
    OBVIOUS
  <2>3. tracked' \subseteq 1..count' /\ result' \in {None, count'} /\ result' # None
    BY <1>2 DEF AttributionInv, DriverOK
  <2> QED
    BY <2>1, <2>2, <2>3 DEF DriverOK
<1>9. RowsOK'
  BY <1>1, <1>2, <1>3, <1>5 DEF AttributionInv, RowsOK
<1>10. UidOK'
  <2>1. uid # None /\ uid # count => Of(uid, delivered') = {}
    BY <1>2, <1>6, <1>7 DEF AttributionInv, UidOK
  <2>2. count \in tracked /\ uid # count => left = 0
    BY DEF AttributionInv, UidOK
  <2>3. left = 0 => left' = 0
    <3>1. left = 0 => n = 0 /\ 0 - 0 = 0
      OBVIOUS
    <3> QED
      BY <1>1, <3>1
  <2> QED
    BY <1>2, <2>1, <2>2, <2>3 DEF UidOK
<1>11. ~disturbed' => HasherOK'
  <2> SUFFICES ASSUME ~disturbed, enabled PROVE HasherOK'
    BY <1>2 DEF HasherOK
  <2>1. factory = 1 /\ 1 \in DOMAIN seen
    BY <1>2, CursorAssumption DEF FactoryInv, AttributionInv, RowsOK, MaxDepth
  <2>2. seen'[1] = seen[1] \cup rows
    BY <1>1, <2>1
  <2>3. HasherOK
    BY DEF AttributionInv
  <2>4. \A r \in seen'[1] : r[1] = count /\ count # None
    BY <1>2, <1>3, <2>2, <2>3 DEF HasherOK
  <2>5. uid = count => Of(count, delivered') = Of(count, seen'[1])
    BY <1>2, <1>6, <2>2, <2>3 DEF HasherOK, Of
  <2>6. count \in tracked /\ uid # count => seen'[1] = {}
    BY <1>2, <1>4, <2>2, <2>3 DEF HasherOK, AttributionInv, UidOK
  <2> QED
    BY <1>2, <2>4, <2>5, <2>6 DEF HasherOK
<1>12. HashedUnderItsUid'
  <2> SUFFICES ASSUME ~disturbed, NEW i \in DOMAIN hashes, NEW s \in tracked, hashes[i].uid = s
               PROVE  Of(s, delivered') = Of(s, delivered)
    BY <1>2 DEF HashedUnderItsUid, AttributionInv
  <2>1. CASE s # count
    BY <1>6, <1>7, <2>1
  <2>2. CASE s = count
    <3>1. uid # count
      BY <1>5, <2>2 DEF HashInv, Uids, None
    <3>2. rows = {}
      BY <1>4, <2>2, <3>1 DEF AttributionInv, UidOK
    <3> QED
      BY <1>1, <3>2
  <2> QED
    BY <2>1, <2>2
<1> QED
  BY <1>8, <1>9, <1>10, <1>11, <1>12 DEF AttributionInv

\* The end of a fetch, with or without a hash.
LEMMA FetchEnds ==
  ASSUME FactoryInv, HashInv, AttributionInv, FetchDone
  PROVE  AttributionInv'
<1>1. /\ fetching' = FALSE /\ pc = "done" /\ pc' = after
      /\ UNCHANGED <<after, seen, result, left, delivered, enabled, disturbed, count, tracked>>
      /\ uid' = IF fetching THEN None ELSE uid
  BY DEF FetchDone, Goto, driverVars, domainVars
<1>2. DriverOK'
  BY <1>1 DEF AttributionInv, DriverOK
<1>3. UidOK'
  BY <1>1 DEF AttributionInv, DriverOK, UidOK
<1>4. HasherOK'
  BY <1>1 DEF HasherOK
<1>5. CASE hashes' = hashes
  <2>1. RowsOK' /\ HashedUnderItsUid'
    BY <1>1, <1>5 DEF AttributionInv, RowsOK, HashedUnderItsUid
  <2> QED
    BY <1>2, <1>3, <1>4, <2>1 DEF AttributionInv
<1>6. CASE hashes' # hashes
  <2> DEFINE h == [uid |-> uid, rows |-> seen[factory]]
  <2>1. fetching /\ enabled /\ hashes' = Append(hashes, h)
    BY <1>6 DEF FetchDone, WithDigest
  <2>2. h.uid = uid /\ h.rows = seen[factory]
    OBVIOUS
  <2> HIDE DEF h
  <2>3. hashes \in Seq(Range(hashes) \cup {h})
    <3>1. Range(hashes) \subseteq Range(hashes) \cup {h}
      OBVIOUS
    <3> QED
      BY <3>1 DEF HashInv
  <2>4. /\ DOMAIN hashes' = 1..(Len(hashes) + 1) /\ Len(hashes) \in Nat
        /\ \A i \in 1..Len(hashes) : hashes'[i] = hashes[i] /\ i \in DOMAIN hashes
        /\ hashes'[Len(hashes) + 1] = h
    BY <2>1, <2>3
  <2>5. \A i \in DOMAIN hashes' :
          (i \in DOMAIN hashes /\ hashes'[i] = hashes[i]) \/ hashes'[i] = h
    BY <2>4
  <2>6. CASE disturbed
    <3>1. HashedUnderItsUid' /\ RowsOK'
      BY <1>1, <2>6 DEF HashedUnderItsUid, AttributionInv, RowsOK
    <3> QED
      BY <1>1, <1>2, <1>3, <1>4, <3>1 DEF AttributionInv
  <2>7. CASE ~disturbed
    <3>1. factory = 1 /\ HasherOK
      BY <2>1, <2>7 DEF FactoryInv, AttributionInv
    <3>2. /\ \A r \in h.rows : r[1] = count /\ count # None
          /\ uid = count => Of(count, delivered) = Of(count, h.rows)
          /\ count \in tracked /\ uid # count => h.rows = {}
      BY <2>1, <2>2, <3>1 DEF HasherOK
    <3>3. \A r \in h.rows : r[1] \in 1..count
      BY <3>2 DEF HashInv, None
    <3>4. RowsOK'
      BY <1>1, <2>5, <2>7, <3>3 DEF AttributionInv, RowsOK
    <3>5. ASSUME NEW s \in tracked
          PROVE  IF h.uid = s THEN Of(s, delivered) = Of(s, h.rows) ELSE Of(s, h.rows) = {}
      <4>1. s \in 1..count /\ s # None
        BY DEF AttributionInv, DriverOK, None
      <4>2. s # count => Of(s, h.rows) = {}
        BY <3>2 DEF Of
      <4>3. s = uid /\ s # count => Of(s, delivered) = {}
        BY <4>1 DEF AttributionInv, UidOK
      <4>4. s = count /\ s # uid => Of(s, h.rows) = {}
        BY <3>2 DEF Of
      <4> QED
        BY <2>2, <3>2, <4>2, <4>3, <4>4
    <3>6. HashedUnderItsUid'
      BY <1>1, <2>5, <2>7, <3>5 DEF AttributionInv, HashedUnderItsUid
    <3> QED
      BY <1>2, <1>3, <1>4, <3>4, <3>6 DEF AttributionInv
  <2> QED
    BY <2>6, <2>7
<1> QED
  BY <1>5, <1>6

\* Every step preserves AttributionInv.
LEMMA AttributionNext ==
  FactoryInv /\ HashInv /\ AttributionInv /\ [Next]_vars => AttributionInv'
<1> SUFFICES ASSUME FactoryInv, HashInv, AttributionInv, [Next]_vars PROVE AttributionInv'
  OBVIOUS
<1>0. count \in Nat /\ uid \in 0..count
  BY DEF HashInv
<1>1. ASSUME UNCHANGED <<count, tracked, delivered, hashes, result, left, seen, enabled, disturbed>>,
             UNCHANGED <<uid, fetching, after>>, pc' \in {"idle", "done", pc},
             pc' = "done" => pc = "done" \/ left = 0 \/ after = "execute",
             pc = "execute" => pc' = pc
      PROVE  AttributionInv'
  <2>1. DriverOK' /\ RowsOK'
    BY <1>1 DEF AttributionInv, DriverOK, RowsOK
  <2>2. UidOK' /\ (~disturbed' => HasherOK') /\ HashedUnderItsUid'
    BY <1>1 DEF AttributionInv, UidOK, HasherOK, HashedUnderItsUid
  <2> QED
    BY <2>1, <2>2 DEF AttributionInv
<1>2. ASSUME NEW p \in {"one", "all"}, FetchStarted(p) PROVE AttributionInv'
  <2>1. /\ pc = "idle" /\ pc' = p /\ fetching' = TRUE
        /\ UNCHANGED <<after, uid, hashes, enabled, disturbed, result, left, delivered, count, tracked>>
    BY <1>2 DEF FetchStarted, Goto, domainVars, driverVars
  <2>2. DriverOK'
    BY <2>1 DEF AttributionInv, DriverOK
  <2>3. DOMAIN seen' = DOMAIN seen
    BY <1>2 DEF FetchStarted
  <2>4. RowsOK' /\ HashedUnderItsUid'
    BY <2>1, <2>3 DEF AttributionInv, RowsOK, HashedUnderItsUid
  <2>5. UidOK'
    BY <2>1 DEF AttributionInv, UidOK
  <2>6. ~disturbed' => HasherOK'
    <3> SUFFICES ASSUME ~disturbed, enabled PROVE HasherOK'
      BY <2>1 DEF HasherOK
    <3>1. CASE fetching
      <4>1. seen' = seen
        BY <1>2, <3>1 DEF FetchStarted
      <4> QED
        BY <2>1, <3>1, <4>1 DEF AttributionInv, HasherOK
    <3>2. CASE ~fetching
      <4>1. factory = 0 /\ 1 \in DOMAIN seen
        BY <3>2, CursorAssumption DEF FactoryInv, AttributionInv, RowsOK, MaxDepth
      <4>2. seen' = [seen EXCEPT ![1] = {}]
        BY <1>2, <3>2, <4>1 DEF FetchStarted
      <4>3. seen'[1] = {}
        BY <4>1, <4>2
      <4>4. uid = count /\ count # 0 => Of(count, delivered) = {}
        BY <3>2 DEF AttributionInv, UidOK, None
      <4>5. count = 0 => Of(count, delivered) = {}
        BY DEF Of, AttributionInv, RowsOK
      <4> QED
        BY <2>1, <4>3, <4>4, <4>5 DEF HasherOK, Of
    <3> QED
      BY <3>1, <3>2
  <2> QED
    BY <2>2, <2>4, <2>5, <2>6 DEF AttributionInv
<1>3. CASE FetchSome
  <2>1. 1 \in 0..left
    BY <1>3 DEF FetchSome, AttributionInv, DriverOK
  <2> QED
    BY <1>3, <2>1, RowsDelivered DEF FetchSome, Goto, AttributionInv, DriverOK
<1>4. CASE FetchAll
  <2>1. left \in 0..left /\ (left' = left - left => left' = 0)
    BY DEF AttributionInv, DriverOK
  <2>2. left = 0 \/ left > 0
    BY DEF AttributionInv, DriverOK
  <2> QED
    BY <1>4, <2>1, <2>2, RowsDelivered DEF FetchAll, Deliver, FetchDoneThen
<1>5. CASE FetchNone
  <2>1. /\ left = 0 /\ pc' = "done" /\ after' = "idle" /\ pc = "one"
        /\ UNCHANGED <<count, tracked, delivered, hashes, result, left, seen, enabled, disturbed, uid, fetching>>
    BY <1>5 DEF FetchNone, FetchDoneThen, proxyVars, hashVars, driverVars, domainVars
  <2>2. DriverOK' /\ RowsOK'
    BY <2>1 DEF AttributionInv, DriverOK, RowsOK
  <2>3. UidOK' /\ (~disturbed' => HasherOK') /\ HashedUnderItsUid'
    BY <2>1 DEF AttributionInv, UidOK, HasherOK, HashedUnderItsUid
  <2> QED
    BY <2>2, <2>3 DEF AttributionInv
<1>6. CASE FetchRaises
  <2>1. /\ pc' = "idle" /\ pc \in {"one", "all"}
        /\ UNCHANGED <<count, tracked, delivered, hashes, result, left, seen, enabled, disturbed>>
        /\ UNCHANGED <<uid, fetching, after>>
    BY <1>6 DEF FetchRaises, Goto, proxyVars, hashVars, driverVars, domainVars
  <2> QED
    BY <1>1, <2>1
<1>7. CASE FetchDone
  BY <1>7, FetchEnds
<1>8. CASE BeginExecute
  <2>1. /\ pc = "idle" /\ pc' = "done" /\ after' = "execute"
        /\ UNCHANGED <<count, tracked, delivered, hashes, result, left, seen, enabled, disturbed, uid, fetching>>
    BY <1>8 DEF BeginExecute, FetchDoneThen, proxyVars, hashVars, driverVars, domainVars
  <2>2. DriverOK' /\ RowsOK'
    BY <2>1 DEF AttributionInv, DriverOK, RowsOK
  <2>3. UidOK' /\ (~disturbed' => HasherOK') /\ HashedUnderItsUid'
    BY <2>1 DEF AttributionInv, UidOK, HasherOK, HashedUnderItsUid
  <2> QED
    BY <2>2, <2>3 DEF AttributionInv
<1>9. CASE Execute
  <2>1. /\ pc = "execute" /\ pc' = "idle" /\ count' = count + 1 /\ ~fetching /\ ~fetching'
        /\ UNCHANGED <<after, seen, hashes, delivered, enabled, disturbed>>
        /\ \/ uid' = count + 1 /\ tracked' = tracked \cup {count + 1}
           \/ uid' = uid /\ tracked' = tracked
        /\ \/ result' = count + 1 /\ left' \in 0..MaxRows
           \/ result' = None /\ left' = 0
    BY <1>9 DEF Execute, Goto, hashVars, domainVars, AttributionInv, DriverOK
  <2>2. count + 1 # None /\ 0..MaxRows \subseteq Nat /\ \A n \in 1..count : n \in 1..(count + 1) /\ n # count + 1
    BY <1>0, CursorAssumption DEF None
  <2>3. DriverOK'
    <3>1. tracked' \subseteq 1..count'
      <4>1. tracked \subseteq 1..count
        BY DEF AttributionInv, DriverOK
      <4>2. count + 1 \in 1..(count + 1)
        BY <1>0
      <4>3. \A n \in tracked : n \in 1..(count + 1)
        BY <2>2, <4>1
      <4> QED
        BY <2>1, <4>2, <4>3
    <3>2. left' \in Nat /\ result' \in {None, count'} /\ (result' = None => left' = 0)
      BY <2>1, <2>2
    <3> QED
      BY <2>1, <3>1, <3>2 DEF AttributionInv, DriverOK
  <2>4. RowsOK'
    BY <2>1, <2>2 DEF AttributionInv, RowsOK
  <2>5. \A n \in tracked : n # count + 1
    BY <2>2 DEF AttributionInv, DriverOK
  <2>6. Of(count + 1, delivered) = {}
    BY <2>2 DEF Of, AttributionInv, RowsOK
  <2>7. UidOK'
    BY <2>1, <2>2, <2>5, <2>6 DEF AttributionInv, UidOK
  <2>8. HasherOK'
    BY <2>1 DEF HasherOK
  <2>9. HashedUnderItsUid'
    <3> SUFFICES ASSUME ~disturbed, NEW i \in DOMAIN hashes, NEW s \in tracked'
                 PROVE  IF hashes[i].uid = s THEN Of(s, delivered) = Of(s, hashes[i].rows)
                                             ELSE Of(s, hashes[i].rows) = {}
      BY <2>1 DEF HashedUnderItsUid
    <3>1. CASE s \in tracked
      BY <3>1 DEF AttributionInv, HashedUnderItsUid
    <3>2. CASE s = count + 1
      <4>1. hashes[i].uid # s
        <5>1. hashes[i].uid \in 0..count
          BY DEF HashInv, Uids
        <5> QED
          BY <1>0, <3>2, <5>1
      <4>2. Of(s, hashes[i].rows) = {}
        BY <2>2, <3>2 DEF Of, AttributionInv, RowsOK
      <4> QED
        BY <4>1, <4>2
    <3> QED
      BY <2>1, <3>1, <3>2
  <2> QED
    BY <2>3, <2>4, <2>7, <2>8, <2>9 DEF AttributionInv
<1>10. CASE Close
  <2>1. /\ pc = "idle" /\ pc' = "done" /\ after' = "idle" /\ result' = None /\ left' = 0
        /\ UNCHANGED <<count, tracked, delivered, hashes, seen, enabled, disturbed, uid, fetching>>
    BY <1>10 DEF Close, FetchDoneThen, proxyVars, hashVars, domainVars
  <2>2. DriverOK' /\ RowsOK'
    BY <2>1 DEF AttributionInv, DriverOK, RowsOK
  <2>3. UidOK' /\ (~disturbed' => HasherOK') /\ HashedUnderItsUid'
    BY <2>1 DEF AttributionInv, UidOK, HasherOK, HashedUnderItsUid
  <2> QED
    BY <2>2, <2>3 DEF AttributionInv
<1>11. CASE Switch
  <2>1. /\ UNCHANGED <<pc, after, uid, fetching, seen, hashes, result, left, delivered, count, tracked>>
        /\ disturbed' = (disturbed \/ fetching)
    BY <1>11 DEF Switch, callVars, proxyVars, hashVars, driverVars
  <2>2. DriverOK' /\ RowsOK' /\ UidOK'
    BY <2>1 DEF AttributionInv, DriverOK, RowsOK, UidOK
  <2>3. ~disturbed' => HasherOK'
    BY <2>1 DEF HasherOK
  <2>4. HashedUnderItsUid'
    BY <2>1 DEF AttributionInv, HashedUnderItsUid
  <2> QED
    BY <2>2, <2>3, <2>4 DEF AttributionInv
<1>12. CASE UNCHANGED vars
  <2>1. /\ UNCHANGED <<count, tracked, delivered, hashes, result, left, seen, enabled, disturbed>>
        /\ UNCHANGED <<uid, fetching, after, pc>>
    BY <1>12 DEF vars, callVars, proxyVars, hashVars, driverVars, domainVars
  <2>2. DriverOK' /\ RowsOK'
    BY <2>1 DEF AttributionInv, DriverOK, RowsOK
  <2>3. UidOK' /\ (~disturbed' => HasherOK') /\ HashedUnderItsUid'
    BY <2>1 DEF AttributionInv, UidOK, HasherOK, HashedUnderItsUid
  <2> QED
    BY <2>2, <2>3 DEF AttributionInv
<1> QED
  BY <1>2, <1>3, <1>4, <1>5, <1>6, <1>7, <1>8, <1>9, <1>10, <1>11, <1>12 DEF Next

\* ResultHash: unless the domain is switched during a fetch, the hash under the uid of a
\* tracked statement is of all the rows the application was given of it, and no other
\* hash has one of them, for any number of statements and rows.
THEOREM HashesAttributed == Spec => []HashedUnderItsUid
<1>1. AttributionInv => HashedUnderItsUid
  BY DEF AttributionInv
<1> QED
  BY <1>1, FactoryInit, FactoryNext, HashInit, HashNext, AttributionInit, AttributionNext, PTL
     DEF Spec
-----------------------------------------------------------------------------
(* Types                                                                    *)

\* Every hasher on the cursor, but that of a fetch with hashing on, took a switch.
DepthInv ==
  /\ switches \in 0..MaxSwitches /\ factory \in Nat
  /\ fetching \in BOOLEAN /\ enabled \in BOOLEAN
  /\ factory <= switches + 1 /\ (~(fetching /\ enabled) => factory <= switches)
  /\ saved \in 0..switches \/ (saved = NoFactory /\ factory = 0)

\* A statement is executed while there is one left, and the driver holds its rows.
BoundInv ==
  /\ pc \in {"idle", "one", "all", "done", "execute"} /\ after \in {"idle", "execute"}
  /\ count \in 0..MaxStatements /\ uid \in 0..MaxStatements /\ result \in 0..MaxStatements
  /\ left \in 0..MaxRows /\ tracked \subseteq Statements /\ disturbed \in BOOLEAN
  /\ pc = "execute" \/ (pc = "done" /\ after = "execute") => count < MaxStatements

Takings == [1..MaxDepth -> SUBSET Rows]
Hashings == [uid : 0..MaxStatements, rows : SUBSET Rows]

RowsInv == seen \in Takings /\ delivered \subseteq Rows /\ hashes \in Seq(Hashings)

\* Nothing has been executed.
LEMMA BoundsInit == Init => DepthInv /\ BoundInv /\ RowsInv
<1>1. /\ MaxSwitches \in Nat /\ MaxStatements \in Nat /\ MaxRows \in Nat /\ MaxDepth \in Nat
      /\ 0 \in 0..MaxSwitches /\ 0 \in 0..MaxStatements /\ 0 \in 0..MaxRows
  BY CursorAssumption DEF MaxDepth
<1>2. Init => DepthInv
  <2> SUFFICES ASSUME Init PROVE DepthInv
    OBVIOUS
  <2>1. switches = 0 /\ factory = 0 /\ saved = NoFactory
    BY DEF Init
  <2>2. fetching \in BOOLEAN /\ enabled \in BOOLEAN
    BY DEF Init
  <2>3. 0 \in Nat /\ 0 <= 0 /\ 0 <= 0 + 1
    OBVIOUS
  <2> QED
    BY <1>1, <2>1, <2>2, <2>3, Zenon DEF DepthInv
<1>3. Init => BoundInv
  BY <1>1 DEF Init, BoundInv, None
<1>4. Init => RowsInv
  <2>1. [i \in 1..MaxDepth |-> {}] \in Takings
    BY DEF Takings
  <2> QED
    BY <2>1 DEF Init, RowsInv
<1> QED
  BY <1>2, <1>3, <1>4

\* Every step preserves DepthInv.
LEMMA DepthNext == DepthInv /\ [Next]_vars => DepthInv'
<1> SUFFICES ASSUME DepthInv, [Next]_vars PROVE DepthInv'
  OBVIOUS
<1>0. MaxSwitches \in Nat /\ NoFactory = MaxSwitches + 2 /\ switches \in Nat
  BY CursorAssumption DEF NoFactory, MaxDepth, DepthInv
<1>1. ASSUME UNCHANGED <<switches, factory, fetching, enabled, saved>> PROVE DepthInv'
  BY <1>1 DEF DepthInv
<1>2. ASSUME NEW p \in {"one", "all"}, FetchStarted(p) PROVE DepthInv'
  <2>1. CASE ~fetching /\ enabled
    <3>1. saved' = factory /\ factory' = factory + 1 /\ factory \in 0..switches
      BY <1>0, <1>2, <2>1 DEF FetchStarted, DepthInv
    <3>2. fetching' = TRUE /\ enabled' = TRUE /\ switches' = switches
      BY <1>2, <2>1 DEF FetchStarted, domainVars
    <3> QED
      BY <1>0, <3>1, <3>2 DEF DepthInv
  <2>2. CASE ~(~fetching /\ enabled)
    <3>1. UNCHANGED <<saved, factory, switches, enabled>> /\ fetching' = TRUE
      BY <1>2, <2>2 DEF FetchStarted, domainVars
    <3> QED
      BY <1>0, <2>2, <3>1 DEF DepthInv
  <2> QED
    BY <2>1, <2>2
<1>3. CASE FetchDone
  <2>1. /\ UNCHANGED <<switches, enabled, saved>> /\ fetching' = FALSE
        /\ factory' \in {factory, saved}
    BY <1>3 DEF FetchDone, domainVars
  <2>2. factory' <= switches /\ factory' \in Nat /\ (saved = NoFactory => factory' = 0)
    <3>1. CASE fetching /\ enabled /\ saved # NoFactory
      <4>1. factory' = saved /\ saved \in 0..switches
        BY <1>3, <3>1 DEF FetchDone, DepthInv
      <4> QED
        BY <1>0, <3>1, <4>1
    <3>2. CASE saved = NoFactory
      <4>1. saved \notin 0..switches
        BY <1>0, <3>2 DEF DepthInv
      <4>2. factory = 0 /\ factory' = factory
        BY <1>3, <3>2, <4>1 DEF FetchDone, DepthInv
      <4> QED
        BY <1>0, <4>2
    <3>3. CASE ~(fetching /\ enabled) /\ saved # NoFactory
      <4>1. factory' = factory
        BY <1>3, <3>3 DEF FetchDone
      <4> QED
        BY <3>3, <4>1 DEF DepthInv
    <3> QED
      BY <3>1, <3>2, <3>3
  <2>3. factory' <= switches + 1
    BY <1>0, <2>2
  <2> QED
    BY <2>1, <2>2, <2>3 DEF DepthInv
<1>4. CASE Switch
  BY <1>0, <1>4 DEF Switch, DepthInv, proxyVars, hashVars
<1>5. CASE FetchSome \/ FetchNone \/ FetchAll \/ FetchRaises
  BY <1>1, <1>5 DEF FetchSome, FetchNone, FetchAll, FetchRaises, proxyVars, hashVars, domainVars
<1>6. CASE BeginExecute \/ Execute \/ Close \/ UNCHANGED vars
  BY <1>1, <1>6 DEF BeginExecute, Execute, Close, vars, proxyVars, hashVars, domainVars
<1> QED
  BY <1>2, <1>3, <1>4, <1>5, <1>6 DEF Next

\* Every step preserves BoundInv.
LEMMA BoundNext == BoundInv /\ [Next]_vars => BoundInv'
<1> SUFFICES ASSUME BoundInv, [Next]_vars PROVE BoundInv'
  OBVIOUS
<1> USE CursorAssumption DEF BoundInv, None
<1>1. ASSUME NEW p \in {"one", "all"}, FetchStarted(p) PROVE BoundInv'
  BY <1>1 DEF FetchStarted, Goto, domainVars, driverVars
<1>2. CASE FetchSome
  <2>1. left' = left - 1 /\ left > 0
    BY <1>2 DEF FetchSome, Deliver
  <2> QED
    BY <1>2, <2>1 DEF FetchSome, Goto, domainVars, proxyVars
<1>3. CASE FetchNone
  BY <1>3 DEF FetchNone, FetchDoneThen, domainVars, proxyVars, driverVars
<1>4. CASE FetchAll
  <2>1. left' = 0
    BY <1>4 DEF FetchAll, Deliver
  <2> QED
    BY <1>4, <2>1 DEF FetchAll, FetchDoneThen, domainVars, proxyVars
<1>5. CASE FetchRaises
  BY <1>5 DEF FetchRaises, Goto, domainVars, proxyVars, driverVars
<1>6. CASE FetchDone
  <2>1. pc = "done" /\ pc' = after /\ after' = after /\ uid' \in {uid, None}
    BY <1>6 DEF FetchDone, Goto
  <2> QED
    BY <1>6, <2>1 DEF FetchDone, domainVars, driverVars
<1>7. CASE BeginExecute
  BY <1>7 DEF BeginExecute, FetchDoneThen, domainVars, proxyVars, driverVars
<1>8. CASE Execute
  <2>1. /\ count < MaxStatements /\ count' = count + 1
        /\ pc' = "idle" /\ after' = after /\ disturbed' = disturbed
    BY <1>8 DEF Execute, Goto, domainVars
  <2>2. count' \in 0..MaxStatements /\ count + 1 \in 0..MaxStatements /\ count + 1 \in Statements
    BY <2>1 DEF Statements
  <2>3. uid' \in 0..MaxStatements /\ tracked' \subseteq Statements
    BY <1>8, <2>2 DEF Execute
  <2>4. result' \in 0..MaxStatements /\ left' \in 0..MaxRows
    BY <1>8, <2>2 DEF Execute
  <2> QED
    BY <2>1, <2>2, <2>3, <2>4
<1>9. CASE Close
  BY <1>9 DEF Close, FetchDoneThen, domainVars, proxyVars
<1>10. CASE Switch
  BY <1>10 DEF Switch, callVars, proxyVars, driverVars
<1>11. CASE UNCHANGED vars
  BY <1>11 DEF vars, domainVars, callVars, proxyVars, driverVars
<1> QED
  BY <1>1, <1>2, <1>3, <1>4, <1>5, <1>6, <1>7, <1>8, <1>9, <1>10, <1>11 DEF Next

\* Rows that the driver hands over are rows, wherever they go.
LEMMA DeliverRows ==
  ASSUME BoundInv, RowsInv, NEW n \in 0..left, result # None, Deliver(n)
  PROVE  seen' \in Takings /\ delivered' \subseteq Rows
<1> DEFINE rows == {<<result, i>> : i \in (left - n + 1)..left}
<1>1. rows \subseteq Rows
  <2>1. result \in Statements
    BY CursorAssumption DEF BoundInv, Statements, None
  <2>2. \A i \in (left - n + 1)..left : i \in 1..MaxRows
    BY CursorAssumption DEF BoundInv
  <2> QED
    BY <2>1, <2>2 DEF Rows
<1>2. delivered' = delivered \cup rows
      /\ seen' = [i \in DOMAIN seen |-> IF i <= factory THEN seen[i] \cup rows ELSE seen[i]]
  BY DEF Deliver
<1> HIDE DEF rows
<1> QED
  BY <1>1, <1>2 DEF RowsInv, Takings

\* Every step preserves RowsInv.
LEMMA RowsNext == DepthInv /\ BoundInv /\ RowsInv /\ [Next]_vars => RowsInv'
<1> SUFFICES ASSUME DepthInv, BoundInv, RowsInv, [Next]_vars PROVE RowsInv'
  OBVIOUS
<1>0. ASSUME UNCHANGED <<seen, delivered, hashes>> PROVE RowsInv'
  BY <1>0 DEF RowsInv
<1>1. ASSUME NEW p \in {"one", "all"}, FetchStarted(p) PROVE RowsInv'
  BY <1>1 DEF FetchStarted, RowsInv, Takings, driverVars
<1>2. CASE FetchSome
  <2>1. 1 \in 0..left
    BY <1>2 DEF FetchSome, BoundInv
  <2> QED
    BY <1>2, <2>1, DeliverRows DEF FetchSome, RowsInv
<1>3. CASE FetchAll
  <2>1. left \in 0..left
    BY DEF BoundInv
  <2> QED
    BY <1>3, <2>1, DeliverRows DEF FetchAll, RowsInv
<1>4. CASE FetchDone
  <2>1. WithDigest \in Seq(Hashings)
    <3>1. CASE factory = 0
      BY <3>1 DEF WithDigest, RowsInv
    <3>2. CASE factory # 0
      <4>1. factory \in 1..MaxDepth
        BY <3>2, CursorAssumption DEF DepthInv, MaxDepth
      <4>2. [uid |-> uid, rows |-> seen[factory]] \in Hashings
        BY <4>1 DEF RowsInv, Takings, Hashings, BoundInv
      <4> QED
        BY <4>2 DEF WithDigest, RowsInv
    <3> QED
      BY <3>1, <3>2
  <2> QED
    BY <1>4, <2>1 DEF FetchDone, RowsInv, driverVars
<1>5. CASE FetchNone \/ FetchRaises \/ BeginExecute
  BY <1>0, <1>5 DEF FetchNone, FetchRaises, BeginExecute, hashVars, driverVars
<1>6. CASE Execute \/ Close \/ Switch \/ UNCHANGED vars
  BY <1>0, <1>6 DEF Execute, Close, Switch, vars, hashVars, driverVars
<1> QED
  BY <1>1, <1>2, <1>3, <1>4, <1>5, <1>6 DEF Next

\* Every variable keeps its type and its bound: however the domain is switched, no more
\* hashers are on the cursor than switches and one.
THEOREM Typed == Spec => []TypeOK
<1>1. DepthInv /\ BoundInv /\ RowsInv => TypeOK
  <2> SUFFICES ASSUME DepthInv, BoundInv, RowsInv PROVE TypeOK
    OBVIOUS
  <2>1. factory \in 0..MaxDepth /\ saved \in 0..MaxDepth \cup {NoFactory}
    BY CursorAssumption DEF DepthInv, MaxDepth
  <2> QED
    BY <2>1 DEF DepthInv, BoundInv, RowsInv, Takings, Hashings, TypeOK
<1> QED
  BY <1>1, BoundsInit, DepthNext, BoundNext, RowsNext, PTL DEF Spec
=============================================================================
