---------------------------- MODULE ColumnsProofs ----------------------------
(***************************************************************************)
(* Theorems about Columns, for every number of threads, models, columns    *)
(* and installations and every width of the bit sets: what is reported as  *)
(* accessed is what was read, a report can be decoded, the keys that were  *)
(* loaded are required, and the operations of the bit sets agree.          *)
(***************************************************************************)
EXTENDS Columns, FiniteSetTheorems, WellFoundedInduction, TLAPS

\* A thread has begun to track a model, and has not finished with it.
Unfinished(t, m) == model[t] = m /\ pc[t] \in {"reset", "field", "wrap"}

\* The descriptor of a column of m is wrapped, or will never be.
Done(m, c) == IsWrapped(m, c) \/ c \in Unknown

\* The variables have their types, and what a thread does says what it has.
PlaceOK(t) ==
  /\ pc[t] # "idle" => model[t] \in Models
  /\ pc[t] \notin {"idle", "claim"} => model[t] \in models
  /\ pc[t] \in {"field", "wrap", "raise"} => Listed(model[t])
  /\ pc[t] = "field" => length[model[t]][t] < Size[model[t]]
  /\ pc[t] = "wrap" => length[model[t]][t] # 0
  /\ query[t].built => pc[t] \in {"fresh", "yielded"}

TypeInv == TypeOK /\ \A t \in Threads : PlaceOK(t)

\* Every column in a list is wrapped or of an unknown class, but the one that its
\* thread is about to wrap.
ListsDone ==
  \A m \in Models, t \in Threads : \A c \in 1..length[m][t] :
    Done(m, c) \/ (pc[t] = "wrap" /\ model[t] = m /\ c = length[m][t])

\* A column of an unknown class is the last in its list, and none after it is wrapped.
UnknownLast ==
  /\ \A t \in Threads : pc[t] \in {"field", "wrap"} =>
       \A c \in 1..length[model[t]][t] : c \notin Unknown
  /\ \A m \in Models : \A c \in wrapped[m] : \A d \in 1..c : d \notin Unknown

\* A list ends with the first column of an unknown class.
UnknownEnds ==
  \A m \in Models, t \in Threads : \A c \in 1..length[m][t] : c \in Unknown => c = length[m][t]

\* A known model has a list and its first column is done, unless a thread is at it.
FirstDone ==
  \A m \in models : (Listed(m) /\ Done(m, 1)) \/ \E t \in Threads : Unfinished(t, m)

\* A list that was begun once is complete, or ends with a column of an unknown class,
\* unless its thread is at it.
ListComplete ==
  \A m \in Models : (Listed(m) /\ m \notin relisted) =>
    \/ length[m][owner[m]] = Size[m]
    \/ length[m][owner[m]] \in Unknown
    \/ model[owner[m]] = m /\ pc[owner[m]] \in {"field", "wrap"}

TrackInv == ListsDone /\ UnknownLast /\ FirstDone /\ ListComplete

\* A query that began after its model was tracked sees the first column done, and
\* another thread that lists its model meets that column and gives up.
TrackedBefore ==
  \A t \in Threads \ early : Iterates(t) =>
    /\ Listed(model[t]) /\ Done(model[t], 1)
    /\ \A u \in Threads :
         /\ ~(model[u] = model[t] /\ pc[u] = "wrap")
         /\ model[u] = model[t] /\ pc[u] = "field"
              => length[model[t]][u] = 0 /\ model[t] \in relisted

\* What a query has when it is not iterated, and before its rows are made.
RowOK(t) ==
  /\ ~Iterates(t) => query[t] = NoRows /\ read[t] = {} /\ t \notin early
  /\ pc[t] \notin {"fresh", "required"} => own[t] = {} /\ fresh[t] = {}
  /\ ~query[t].built => query[t].accessed = {} /\ read[t] = {} /\ query[t].required = {}
  /\ ~query[t].built /\ pc[t] # "required" => query[t].loaded = {}
  /\ pc[t] # "idle" => query[t].fetched \cup fresh[t] \cup read[t] \subseteq Columns(model[t])

\* Bit i is that of column c.
IsBitOf(i, c) == i = Index(c) % Width

\* The bits of accessed columns are those of columns read, and of wrapped ones.
BitsRead(t) ==
  /\ \A i \in query[t].accessed : \E c \in read[t] : IsBitOf(i, c)
  /\ \A i \in own[t] : \E c \in fresh[t] : IsBitOf(i, c)
  /\ \A i \in query[t].accessed \cup own[t] :
       \E c \in Columns(model[t]) : IsBitOf(i, c) /\ IsWrapped(model[t], c)

\* Columns have been listed for the rows of a query.
Loaded(t) == pc[t] = "required" \/ query[t].built

\* The bits of loaded and required columns are in the list.
BitsListed(t) ==
  Loaded(t) /\ model[t] \notin relisted =>
    /\ Listed(model[t])
    /\ \A i \in query[t].loaded \cup query[t].required : i + 1 \in Listing(model[t])

\* A key that was loaded is required.
KeysRequired(t) ==
  query[t].built /\ model[t] \notin relisted =>
    \A c \in Needed(t) \cap query[t].fetched :
      Index(c) < Width /\ Index(c) \in query[t].loaded => Index(c) \in query[t].required

\* Column c of a known class has its bit among those in accessed, or is not loaded.
BitSetOrNotLoaded(t, c, accessed) ==
  c \notin Unknown /\ Index(c) < Width => Index(c) \in accessed \/ Index(c) \notin query[t].loaded

\* Column c of a known class has its bit set, or is in no list of the model.
BitSetOrNotListed(t, c) ==
  c \notin Unknown /\ Index(c) < Width =>
    Index(c) \in own[t] \/ (c # 1 /\ \A u \in Threads : length[model[t]][u] < c)

\* What is read is accessed or not loaded, if the query began after its model was tracked.
ReadOK(t) ==
  t \notin early =>
    /\ Loaded(t) =>
         /\ \A i \in query[t].loaded : Done(model[t], i + 1)
         /\ \A c \in read[t] : BitSetOrNotLoaded(t, c, query[t].accessed)
         /\ \A c \in fresh[t] : BitSetOrNotLoaded(t, c, own[t])
    /\ pc[t] = "fresh" /\ ~query[t].built => \A c \in fresh[t] : BitSetOrNotListed(t, c)

\* Of the columns loaded one is of an unknown class at most.
UnknownOnce(t) ==
  \A c, d \in Unknown : Index(c) \in query[t].loaded /\ Index(d) \in query[t].loaded => c = d

RowsOK == \A t \in Threads : RowOK(t)

ThreadInv(t) == RowOK(t) /\ BitsRead(t) /\ BitsListed(t) /\ KeysRequired(t) /\ ReadOK(t)

QueryInv == \A t \in Threads : ThreadInv(t)

ColumnsInv == TypeInv /\ TrackInv /\ TrackedBefore /\ QueryInv

-----------------------------------------------------------------------------
(* Bit sets.                                                                *)

\* The remainder is within the width and at most the number.
LEMMA Remainder ==
  ASSUME NEW n \in Nat
  PROVE  n % Width \in 0..(Width - 1) /\ n % Width <= n /\ (n < Width => n % Width = n)
BY WidthAssumption

\* Setting the bit of a column adds it, or none when it is beyond the width.
LEMMA SetOne ==
  ASSUME NEW v \in Values, NEW c \in Nat \ {0}, NEW w \in BitSetSet(v, Index(c))
  PROVE  /\ w \in Values /\ v \subseteq w
         /\ \A i \in w : i \in v \/ IsBitOf(i, c)
         /\ Index(c) < Width => Index(c) \in w
<1>1. Index(c) \in Nat
  BY DEF Index
<1>2. PICK b \in Shift(Index(c)) : w = v \cup b
  BY DEF BitSetSet
<1>3. /\ b \subseteq {Index(c) % Width}
      /\ Index(c) < Width => Index(c) \in b
  BY <1>1, <1>2, Remainder DEF Shift
<1>4. b \in Values
  BY <1>1, <1>3, Remainder DEF Values
<1> QED
  BY <1>2, <1>3, <1>4 DEF IsBitOf, Values

\* Setting the bits of columns: each bit is of a column that is not before it, and
\* the columns within the width have theirs.
LEMMA SetMany ==
  ASSUME NEW S \in SUBSET (Nat \ {0}), NEW v \in SetAll(S)
  PROVE  /\ v \in Values
         /\ \A i \in v : i \in Nat /\ \E c \in S : i + 1 <= c
         /\ \A c \in S : Index(c) < Width => Index(c) \in v
<1>1. v \in Values
  BY DEF SetAll
<1>2. ASSUME NEW i \in v PROVE i \in Nat /\ \E c \in S : i + 1 <= c
  <2>1. PICK c \in S : {i} \in Shift(Index(c))
    BY DEF SetAll
  <2>2. i \in Nat
    BY <1>1 DEF Values
  <2>3. Index(c) \in Nat /\ Index(c) + 1 = c
    BY DEF Index
  <2>4. i = Index(c) \/ i = Index(c) % Width
    BY <2>1 DEF Shift
  <2> QED
    BY <2>2, <2>3, <2>4, Remainder
<1>3. ASSUME NEW c \in S, Index(c) < Width PROVE Index(c) \in v
  BY <1>3 DEF SetAll, Shift
<1> QED
  BY <1>1, <1>2, <1>3

\* Columns are numbers from one.
LEMMA ColumnNumbers ==
  /\ \A m \in Models : Columns(m) \subseteq Nat \ {0} /\ Columns(m) \subseteq AllColumns
  /\ AllColumns \subseteq Nat \ {0}
BY ColumnsAssumption DEF Columns, AllColumns
-----------------------------------------------------------------------------
(* Types.                                                                   *)

LEMMA NoRowsTyped ==
  NoRows \in [built : BOOLEAN, loaded : Values, required : Values,
              accessed : Values, fetched : SUBSET AllColumns, joined : BOOLEAN]
BY DEF NoRows, NewBitSet, Values

LEMMA TypeInvInit == Init => TypeInv
<1> SUFFICES ASSUME Init PROVE TypeInv
  OBVIOUS
<1>1. TypeOK
  BY ColumnsAssumption, NoRowsTyped DEF Init, TypeOK, NewBitSet, Values
<1>2. \A t \in Threads : PlaceOK(t)
  BY DEF Init, PlaceOK, NoRows
<1> QED
  BY <1>1, <1>2 DEF TypeInv

\* The steps of tracking preserve the types.
LEMMA TypeInvTrack ==
  ASSUME TypeInv, NEW t \in Threads,
         BeginQuery(t) \/ Claim(t) \/ Reset(t) \/ ListColumn(t) \/ WrapColumn(t) \/ TrackRaises(t)
  PROVE  TypeInv'
<1> USE ColumnsAssumption DEF TypeInv, PlaceOK, TypeOK, Goto, queryVars, historyVars, modelVars,
        Listed
<1>1. CASE BeginQuery(t)
  BY <1>1 DEF BeginQuery
<1>2. CASE Claim(t)
  BY <1>2 DEF Claim
<1>3. CASE Reset(t)
  BY <1>3 DEF Reset
<1>4. CASE ListColumn(t)
  <2> DEFINE m == model[t]
             c == length[m][t] + 1
  <2>1. m \in Models /\ c <= Size[m] /\ c \in Nat \ {0}
    BY <1>4 DEF ListColumn
  <2>2. length' \in [Models -> [Threads -> Nat]] /\ length'[m][t] = c
    BY <1>4, <2>1 DEF ListColumn
  <2>3. \A n \in Models, u \in Threads : length'[n][u] <= Size[n]
    BY <1>4, <2>1 DEF ListColumn
  <2>4. pc' = [pc EXCEPT ![t] = "raise"] \/ pc' = [pc EXCEPT ![t] = "wrap"]
    BY <1>4 DEF ListColumn
  <2>5. \A u \in Threads \ {t} : \A n \in Models : length'[n][u] = length[n][u]
    BY <1>4 DEF ListColumn
  <2>6. relisted' \subseteq Models
    BY <1>4, <2>1 DEF ListColumn
  <2>7. UNCHANGED <<models, owner, wrapped, query, own, read, fresh, early, installs, model>>
    BY <1>4 DEF ListColumn
  <2>8. TypeOK'
    <3>1. pc' \in [Threads -> {"idle", "claim", "reset", "field", "wrap", "raise", "query",
                               "fresh", "required", "yielded"}]
      BY <2>4, ZenonT(30)
    <3>2. \A n \in Models :
            wrapped'[n] \subseteq Columns(n) /\ \A u \in Threads : length'[n][u] <= Size[n]
      BY <2>3, <2>7
    <3> QED
      BY <2>2, <2>6, <2>7, <3>1, <3>2
  <2>9. PlaceOK(t)'
    <3>1. pc[t] = "field" /\ ~query[t].built /\ Listed(m)
      BY <1>4 DEF ListColumn
    <3> QED
      BY <2>1, <2>2, <2>4, <2>7, <3>1
  <2>10. ASSUME NEW u \in Threads \ {t} PROVE PlaceOK(u)'
    BY <2>4, <2>5, <2>7
  <2> QED
    BY <2>8, <2>9, <2>10
<1>5. CASE WrapColumn(t)
  <2> DEFINE m == model[t]
  <2>1. m \in Models /\ length[m][t] \in Columns(m)
    BY <1>5 DEF WrapColumn, Columns
  <2>2. /\ wrapped' \in [Models -> SUBSET AllColumns]
        /\ \A n \in Models : wrapped'[n] \subseteq Columns(n)
    BY <1>5, <2>1, ColumnNumbers DEF WrapColumn
  <2>3. \/ pc' = [pc EXCEPT ![t] = "query"]
        \/ pc' = [pc EXCEPT ![t] = "field"] /\ length[m][t] # Size[m]
    BY <1>5 DEF WrapColumn
  <2>4. UNCHANGED <<models, owner, length, query, own, read, fresh, early, relisted,
                  installs, model>>
    BY <1>5 DEF WrapColumn
  <2>5. TypeOK'
    <3>1. pc' \in [Threads -> {"idle", "claim", "reset", "field", "wrap", "raise", "query",
                               "fresh", "required", "yielded"}]
      BY <2>3
    <3>2. \A n \in Models :
            wrapped'[n] \subseteq Columns(n) /\ \A u \in Threads : length'[n][u] <= Size[n]
      BY <2>2, <2>4
    <3> QED
      BY <2>2, <2>4, <3>1, <3>2
  <2>6. PlaceOK(t)'
    <3>1. pc[t] = "wrap" /\ ~query[t].built /\ Listed(m) /\ m \in models
      BY <1>5 DEF WrapColumn
    <3>2. length[m][t] \in Nat /\ Size[m] \in Nat /\ length[m][t] <= Size[m]
      BY <2>1
    <3>3. pc'[t] = "query" \/ (pc'[t] = "field" /\ length[m][t] # Size[m])
      BY <2>3
    <3>4. length[m][t] # Size[m] => length[m][t] < Size[m]
      <4> HIDE DEF m, TypeInv
      <4> QED
        BY <3>2
    <3>5. /\ model'[t] = m /\ models' = models /\ query'[t] = query[t]
          /\ length'[m][t] = length[m][t] /\ owner'[m] = owner[m]
      BY <2>4
    <3> HIDE DEF m, TypeOK, TypeInv
    <3> QED
      BY <2>1, <3>1, <3>3, <3>4, <3>5
  <2>7. ASSUME NEW u \in Threads \ {t} PROVE PlaceOK(u)'
    BY <2>3, <2>4
  <2> QED
    BY <2>5, <2>6, <2>7
<1>6. CASE TrackRaises(t)
  BY <1>6 DEF TrackRaises
<1> QED
  BY <1>1, <1>2, <1>3, <1>4, <1>5, <1>6

RowTypes == [built : BOOLEAN, loaded : Values, required : Values,
             accessed : Values, fetched : SUBSET AllColumns, joined : BOOLEAN]

\* Only the rows of a thread, and where it is in its query.
LEMMA TypeInvRows ==
  ASSUME TypeInv, NEW t \in Threads, UNCHANGED <<modelVars, relisted, installs, model>>,
         query' \in [Threads -> RowTypes], own' \in [Threads -> Values],
         read' \in [Threads -> SUBSET AllColumns], fresh' \in [Threads -> SUBSET AllColumns],
         early' \subseteq Threads, pc[t] \in {"query", "fresh", "required", "yielded"},
         NEW p \in {"fresh", "required", "yielded"}, Goto(t, p),
         \A u \in Threads \ {t} : query'[u] = query[u],
         query'[t].built => p \in {"fresh", "yielded"}
  PROVE  TypeInv'
BY DEF TypeInv, PlaceOK, TypeOK, RowTypes, Goto, modelVars, Listed

\* The steps of a query preserve the types.
LEMMA TypeInvQuery ==
  ASSUME TypeInv, NEW t \in Threads,
         \/ StartQuery(t) \/ ReadFresh(t) \/ ReadAttached(t) \/ Load(t) \/ Require(t)
         \/ Attach(t) \/ NextInstance(t) \/ Report(t)
  PROVE  TypeInv'
<1> DEFINE m == model[t]
<1>a. /\ query \in [Threads -> RowTypes] /\ own \in [Threads -> Values]
      /\ read \in [Threads -> SUBSET AllColumns] /\ fresh \in [Threads -> SUBSET AllColumns]
      /\ early \subseteq Threads
      /\ pc[t] # "idle" => m \in Models
  BY DEF TypeInv, PlaceOK, TypeOK, RowTypes
<1>b. m \in Models => Columns(m) \subseteq AllColumns /\ Columns(m) \subseteq Nat \ {0}
  BY ColumnNumbers
<1>c. pc = [pc EXCEPT ![t] = pc[t]]
  BY DEF TypeInv, PlaceOK, TypeOK
<1>1. CASE StartQuery(t)
  <2>1. PICK left \in SUBSET (Deferrable \ {Pk(m)}), j \in BOOLEAN :
          query' = [query EXCEPT ![t] = [NoRows EXCEPT !.fetched = Columns(m) \ left, !.joined = j]]
    BY <1>1 DEF StartQuery
  <2>2. [NoRows EXCEPT !.fetched = Columns(m) \ left, !.joined = j] \in RowTypes
    BY <1>1, <1>a, <1>b, NoRowsTyped DEF StartQuery, RowTypes
  <2>3. query' \in [Threads -> RowTypes]
    BY <1>a, <2>1, <2>2
  <2> QED
    BY <1>1, <1>a, <2>3, TypeInvRows DEF StartQuery
<1>2. CASE ReadFresh(t)
  <2>0. PICK c \in Columns(m) :
          /\ fresh' = [fresh EXCEPT ![t] = @ \cup {c}]
          /\ \E b \in BitSetSet(own[t], Index(c)) :
               own' = IF IsWrapped(m, c) THEN [own EXCEPT ![t] = b] ELSE own
    BY <1>2 DEF ReadFresh
  <2>1. PICK b \in BitSetSet(own[t], Index(c)) :
          own' = IF IsWrapped(m, c) THEN [own EXCEPT ![t] = b] ELSE own
    BY <2>0
  <2>2. b \in Values /\ c \in AllColumns
    BY <1>2, <1>a, <1>b, <2>1, SetOne DEF ReadFresh
  <2>3. own' \in [Threads -> Values] /\ fresh' \in [Threads -> SUBSET AllColumns]
    BY <1>a, <2>0, <2>1, <2>2
  <2> QED
    BY <1>2, <1>a, <1>c, <2>3, TypeInvRows
       DEF ReadFresh, Goto, historyVars, TypeInv, PlaceOK
<1>3. CASE ReadAttached(t)
  <2>0. PICK c \in Columns(m) :
          /\ read' = [read EXCEPT ![t] = @ \cup {c}]
          /\ \E b \in BitSetSet(query[t].accessed, Index(c)) :
               query' = IF IsWrapped(m, c) THEN [query EXCEPT ![t].accessed = b] ELSE query
    BY <1>3 DEF ReadAttached
  <2>1. PICK b \in BitSetSet(query[t].accessed, Index(c)) :
          query' = IF IsWrapped(m, c) THEN [query EXCEPT ![t].accessed = b] ELSE query
    BY <2>0
  <2>2. pc[t] \in {"fresh", "yielded"}
    BY <1>3 DEF ReadAttached, TypeInv, PlaceOK
  <2>3. b \in Values /\ c \in AllColumns
    BY <1>a, <1>b, <2>1, <2>2, SetOne DEF RowTypes
  <2>4. query' \in [Threads -> RowTypes] /\ read' \in [Threads -> SUBSET AllColumns]
    BY <1>a, <2>0, <2>1, <2>3 DEF RowTypes
  <2>5. /\ \A u \in Threads \ {t} : query'[u] = query[u]
        /\ query'[t].built = query[t].built
    BY <1>a, <2>1 DEF RowTypes
  <2>6. UNCHANGED <<modelVars, own, fresh, historyVars, installs, pc, model>>
    BY <1>3 DEF ReadAttached
  <2> QED
    BY <1>a, <1>c, <2>2, <2>4, <2>5, <2>6, TypeInvRows DEF Goto, historyVars
<1>4. CASE Load(t)
  <2>1. CASE Listed(m)
    <3>1. PICK v \in SetAll(Listing(m) \cap query[t].fetched) :
            query' = [query EXCEPT ![t].loaded = v]
      BY <1>4, <2>1 DEF Load
    <3>2. v \in Values
      BY DEF SetAll
    <3>3. query' \in [Threads -> RowTypes]
      BY <1>a, <3>1, <3>2 DEF RowTypes
    <3>4. query'[t].built = FALSE /\ \A u \in Threads \ {t} : query'[u] = query[u]
      BY <1>4, <1>a, <3>1 DEF Load, RowTypes
    <3> QED
      BY <1>4, <1>a, <2>1, <3>3, <3>4, TypeInvRows DEF Load, historyVars
  <2>2. CASE ~Listed(m)
    <3>1. own' \in [Threads -> Values] /\ fresh' \in [Threads -> SUBSET AllColumns]
      BY <1>4, <1>a, <2>2 DEF Load, NewBitSet, Values
    <3> QED
      BY <1>4, <1>a, <2>2, <3>1, TypeInvRows DEF Load, historyVars
  <2> QED
    BY <2>1, <2>2
<1>5. CASE Require(t)
  <2>1. PICK v \in SetAll(Needed(t) \cap Listing(m)) :
          query' = [query EXCEPT ![t].required = v, ![t].built = TRUE]
    BY <1>5 DEF Require
  <2>2. v \in Values
    BY DEF SetAll
  <2>3. query' \in [Threads -> RowTypes] /\ \A u \in Threads \ {t} : query'[u] = query[u]
    BY <1>a, <2>1, <2>2 DEF RowTypes
  <2> QED
    BY <1>5, <1>a, <2>3, TypeInvRows DEF Require, historyVars
<1>6. CASE Attach(t)
  <2>1. query' \in [Threads -> RowTypes] /\ \A u \in Threads \ {t} : query'[u] = query[u]
    BY <1>6, <1>a DEF Attach, RowTypes, BitSetIor, Values
  <2>2. /\ own' \in [Threads -> Values]
        /\ read' \in [Threads -> SUBSET AllColumns] /\ fresh' \in [Threads -> SUBSET AllColumns]
    BY <1>6, <1>a DEF Attach, NewBitSet, Values
  <2> QED
    BY <1>6, <1>a, <2>1, <2>2, TypeInvRows DEF Attach, historyVars
<1>7. CASE NextInstance(t)
  BY <1>7, <1>a, TypeInvRows DEF NextInstance, queryVars, historyVars
<1>8. CASE Report(t)
  <2>1. query' \in [Threads -> RowTypes] /\ read' \in [Threads -> SUBSET AllColumns]
    BY <1>8, <1>a, NoRowsTyped DEF Report, RowTypes
  <2>2. TypeOK'
    BY <1>8, <2>1 DEF Report, TypeInv, TypeOK, RowTypes, Goto, modelVars
  <2>3. PlaceOK(t)'
    BY <1>8, <1>a DEF Report, TypeInv, TypeOK, PlaceOK, Goto, NoRows
  <2>4. ASSUME NEW u \in Threads \ {t} PROVE PlaceOK(u)'
    BY <1>8, <1>a DEF Report, TypeInv, TypeOK, PlaceOK, Goto, modelVars, Listed
  <2> QED
    BY <2>2, <2>3, <2>4 DEF TypeInv
<1> QED
  BY <1>1, <1>2, <1>3, <1>4, <1>5, <1>6, <1>7, <1>8

LEMMA TypeInvNext == TypeInv /\ [Next]_vars => TypeInv'
<1> SUFFICES ASSUME TypeInv, [Next]_vars PROVE TypeInv'
  OBVIOUS
<1>1. CASE Reinstall
  BY <1>1, ColumnsAssumption
     DEF Reinstall, TypeInv, PlaceOK, TypeOK, Listed, queryVars, historyVars
<1>2. CASE UNCHANGED vars
  BY <1>2 DEF vars, modelVars, queryVars, historyVars, TypeInv, PlaceOK, TypeOK, Listed
<1> QED
  BY <1>1, <1>2, TypeInvTrack, TypeInvQuery DEF Next
-----------------------------------------------------------------------------
(* Tracking.                                                                *)

\* A step wraps no more than a column of a list, and unwraps none.
LEMMA WrappedGrows ==
  ASSUME TypeInv, [Next]_vars
  PROVE  /\ \A m \in Models : wrapped[m] \subseteq wrapped'[m]
         /\ \A m \in Models, c \in Nat : Done(m, c) => Done(m, c)'
<1>1. \A m \in Models : wrapped[m] \subseteq wrapped'[m]
  <2>1. ASSUME NEW t \in Threads, WrapColumn(t)
        PROVE  \A m \in Models : wrapped[m] \subseteq wrapped'[m]
    BY <2>1 DEF WrapColumn, TypeInv, TypeOK
  <2> QED
    BY <2>1 DEF Next, vars, modelVars, Reinstall, BeginQuery, Claim, Reset, ListColumn,
                TrackRaises, StartQuery, ReadFresh, ReadAttached, Load, Require, Attach,
                NextInstance, Report
<1> QED
  BY <1>1, ColumnsAssumption DEF Done, IsWrapped

LEMMA TrackInvInit == Init => TrackInv
BY DEF Init, TrackInv, ListsDone, UnknownLast, FirstDone, ListComplete, Listed

\* A step before and after which its thread is not listing columns.
LEMMA TrackInvQuiet ==
  ASSUME TypeInv, TrackInv, NEW t \in Threads,
         UNCHANGED <<models, owner, length, wrapped, relisted>>,
         \A u \in Threads \ {t} : pc'[u] = pc[u] /\ model'[u] = model[u],
         pc[t] \notin {"reset", "field", "wrap"}, pc'[t] \notin {"reset", "field", "wrap"}
  PROVE  TrackInv'
<1>1. ListsDone'
  BY DEF TrackInv, ListsDone, Done, IsWrapped
<1>2. UnknownLast'
  BY DEF TrackInv, UnknownLast
<1>3. FirstDone'
  BY DEF TrackInv, FirstDone, Listed, Done, IsWrapped, Unfinished
<1>4. ListComplete'
  <2> SUFFICES ASSUME NEW m \in Models, Listed(m), m \notin relisted
               PROVE  \/ length[m][owner[m]] = Size[m]
                      \/ length[m][owner[m]] \in Unknown
                      \/ model'[owner[m]] = m /\ pc'[owner[m]] \in {"field", "wrap"}
    BY DEF ListComplete, Listed
  <2>1. owner[m] \in Threads
    BY DEF TypeInv, TypeOK, Listed
  <2> QED
    BY <2>1 DEF TrackInv, ListComplete
<1> QED
  BY <1>1, <1>2, <1>3, <1>4 DEF TrackInv

LEMMA TrackInvClaim ==
  ASSUME TypeInv, TrackInv, NEW t \in Threads, Claim(t)
  PROVE  TrackInv'
<1>1. /\ models' = models \cup {model[t]} /\ pc[t] = "claim"
      /\ pc'[t] = "reset" /\ \A u \in Threads : u # t => pc'[u] = pc[u]
      /\ UNCHANGED <<owner, length, wrapped, relisted, model>>
  BY DEF Claim, Goto, TypeInv, TypeOK, historyVars
<1>2. ListsDone'
  BY <1>1 DEF TrackInv, ListsDone, Done, IsWrapped
<1>3. UnknownLast'
  BY <1>1 DEF TrackInv, UnknownLast
<1>4. FirstDone'
  BY <1>1 DEF TrackInv, FirstDone, Listed, Done, IsWrapped, Unfinished
<1>5. ListComplete'
  <2> SUFFICES ASSUME NEW m \in Models, Listed(m), m \notin relisted
               PROVE  \/ length[m][owner[m]] = Size[m]
                      \/ length[m][owner[m]] \in Unknown
                      \/ model[owner[m]] = m /\ pc'[owner[m]] \in {"field", "wrap"}
    BY <1>1 DEF ListComplete, Listed
  <2>1. owner[m] \in Threads
    BY DEF TypeInv, TypeOK, Listed
  <2> QED
    BY <1>1, <2>1 DEF TrackInv, ListComplete
<1> QED
  BY <1>2, <1>3, <1>4, <1>5 DEF TrackInv

LEMMA TrackInvReset ==
  ASSUME TypeInv, TrackInv, NEW t \in Threads, Reset(t)
  PROVE  TrackInv'
<1> DEFINE m == model[t]
<1>1. /\ pc[t] = "reset" /\ m \in Models
      /\ owner' = [owner EXCEPT ![m] = t] /\ length' = [length EXCEPT ![m][t] = 0]
      /\ pc'[t] = "field" /\ \A u \in Threads : u # t => pc'[u] = pc[u]
      /\ relisted \subseteq relisted'
      /\ UNCHANGED <<models, wrapped, model>>
  BY DEF Reset, Goto, TypeInv, TypeOK, PlaceOK
<1>2. /\ owner \in [Models -> Threads \cup {NoThread}]
      /\ length \in [Models -> [Threads -> Nat]]
  BY DEF TypeInv, TypeOK
<1>3. /\ length'[m][t] = 0 /\ owner'[m] = t
      /\ \A n \in Models, u \in Threads : <<n, u>> # <<m, t>> => length'[n][u] = length[n][u]
      /\ \A n \in Models : n # m => owner'[n] = owner[n]
  BY <1>1, <1>2
<1>5. ListsDone'
  <2> SUFFICES ASSUME NEW n \in Models, NEW u \in Threads, NEW c \in 1..length'[n][u]
               PROVE  Done(n, c)' \/ (pc'[u] = "wrap" /\ model'[u] = n /\ c = length'[n][u])
    BY DEF ListsDone
  <2>1. <<n, u>> # <<m, t>>
    BY <1>3
  <2> QED
    BY <1>1, <1>3, <2>1 DEF TrackInv, ListsDone, Done, IsWrapped
<1>6. UnknownLast'
  <2>1. ASSUME NEW u \in Threads, pc'[u] \in {"field", "wrap"}, NEW c \in 1..length'[model[u]][u]
        PROVE  c \notin Unknown
    <3>1. u # t
      BY <1>3, <2>1
    <3>2. pc[u] = pc'[u] /\ model[u] \in Models
      BY <1>1, <2>1, <3>1 DEF TypeInv, PlaceOK
    <3> QED
      BY <1>3, <2>1, <3>1, <3>2 DEF TrackInv, UnknownLast
  <2> QED
    BY <1>1, <2>1 DEF TrackInv, UnknownLast
<1>7. FirstDone'
  <2> SUFFICES ASSUME NEW n \in models
               PROVE  (Listed(n)' /\ Done(n, 1)') \/ \E u \in Threads : Unfinished(u, n)'
    BY <1>1 DEF FirstDone
  <2>1. CASE n = m
    BY <1>1, <2>1 DEF Unfinished
  <2>2. CASE n # m
    <3>1. n \in Models
      BY DEF TypeInv, TypeOK
    <3> QED
      BY <1>1, <1>3, <2>2, <3>1 DEF TrackInv, FirstDone, Listed, Done, IsWrapped, Unfinished
  <2> QED
    BY <2>1, <2>2
<1>8. ListComplete'
  <2> SUFFICES ASSUME NEW n \in Models, Listed(n)', n \notin relisted'
               PROVE  \/ length'[n][owner'[n]] = Size[n]
                      \/ length'[n][owner'[n]] \in Unknown
                      \/ model'[owner'[n]] = n /\ pc'[owner'[n]] \in {"field", "wrap"}
    BY DEF ListComplete
  <2>1. CASE n = m
    BY <1>1, <1>3, <2>1
  <2>2. CASE n # m
    <3>1. owner[n] \in Threads /\ Listed(n) /\ n \notin relisted
      BY <1>1, <1>2, <1>3, <2>2 DEF Listed
    <3> QED
      BY <1>1, <1>3, <2>2, <3>1 DEF TrackInv, ListComplete
  <2> QED
    BY <2>1, <2>2
<1> QED
  BY <1>5, <1>6, <1>7, <1>8 DEF TrackInv

LEMMA TrackInvList ==
  ASSUME TypeInv, TrackInv, NEW t \in Threads, ListColumn(t)
  PROVE  TrackInv'
<1> DEFINE m == model[t]
           c == length[m][t] + 1
<1>1. /\ pc[t] = "field" /\ m \in Models /\ Listed(m)
      /\ length' = [length EXCEPT ![m][t] = c]
      /\ \A u \in Threads : u # t => pc'[u] = pc[u]
      /\ relisted \subseteq relisted'
      /\ UNCHANGED <<models, owner, wrapped, model>>
  BY DEF ListColumn, Goto, TypeInv, TypeOK, PlaceOK
<1>2. \/ pc'[t] = "raise" /\ Done(m, c) /\ (c \in Unknown \/ m \in relisted')
      \/ pc'[t] = "wrap" /\ c \notin Unknown
  BY <1>1 DEF ListColumn, Goto, TypeInv, TypeOK, Done
<1>3. /\ length \in [Models -> [Threads -> Nat]]
      /\ owner \in [Models -> Threads \cup {NoThread}]
  BY DEF TypeInv, TypeOK
<1>4. /\ length'[m][t] = c /\ c \in Nat \ {0}
      /\ \A n \in Models, u \in Threads : <<n, u>> # <<m, t>> => length'[n][u] = length[n][u]
  BY <1>1, <1>3
<1>5. \A d \in 1..c : d \in 1..length[m][t] \/ d = c
  BY <1>1, <1>3
<1>6. \A d \in 1..length[m][t] : Done(m, d) /\ d \notin Unknown
  BY <1>1 DEF TrackInv, ListsDone, UnknownLast
<1>7. ListsDone'
  <2> SUFFICES ASSUME NEW n \in Models, NEW u \in Threads, NEW d \in 1..length'[n][u]
               PROVE  Done(n, d) \/ (pc'[u] = "wrap" /\ model[u] = n /\ d = length'[n][u])
    BY <1>1 DEF ListsDone, Done, IsWrapped
  <2>1. CASE n = m /\ u = t
    BY <1>2, <1>4, <1>5, <1>6, <2>1
  <2>2. CASE ~(n = m /\ u = t)
    <3>1. Done(n, d) \/ (pc[u] = "wrap" /\ model[u] = n /\ d = length[n][u])
      BY <1>4, <2>2 DEF TrackInv, ListsDone
    <3> QED
      BY <1>1, <1>4, <2>2, <3>1
  <2> QED
    BY <2>1, <2>2
<1>8. UnknownLast'
  <2>1. ASSUME NEW u \in Threads, pc'[u] \in {"field", "wrap"}, NEW d \in 1..length'[model[u]][u]
        PROVE  d \notin Unknown
    <3>1. CASE u = t
      BY <1>2, <1>4, <1>5, <1>6, <2>1, <3>1
    <3>2. CASE u # t
      <4>1. pc[u] = pc'[u] /\ model[u] \in Models
        BY <1>1, <2>1, <3>2 DEF TypeInv, PlaceOK
      <4> QED
        BY <1>4, <2>1, <3>2, <4>1 DEF TrackInv, UnknownLast
    <3> QED
      BY <3>1, <3>2
  <2> QED
    BY <1>1, <2>1 DEF TrackInv, UnknownLast
<1>9. FirstDone'
  <2> SUFFICES ASSUME NEW n \in models
               PROVE  (Listed(n) /\ Done(n, 1)) \/ \E u \in Threads : Unfinished(u, n)'
    BY <1>1 DEF FirstDone, Listed, Done, IsWrapped
  <2>1. CASE n = m
    <3>1. CASE pc'[t] = "wrap"
      BY <1>1, <2>1, <3>1 DEF Unfinished
    <3>2. CASE pc'[t] # "wrap"
      <4>1. 1 = c \/ 1 \in 1..length[m][t]
        BY <1>3, <1>1
      <4> QED
        BY <1>1, <1>2, <1>6, <2>1, <3>2, <4>1
    <3> QED
      BY <3>1, <3>2
  <2>2. CASE n # m
    BY <1>1, <2>2 DEF TrackInv, FirstDone, Unfinished
  <2> QED
    BY <2>1, <2>2
<1>10. ListComplete'
  <2> SUFFICES ASSUME NEW n \in Models, Listed(n), n \notin relisted'
               PROVE  \/ length'[n][owner[n]] = Size[n]
                      \/ length'[n][owner[n]] \in Unknown
                      \/ model[owner[n]] = n /\ pc'[owner[n]] \in {"field", "wrap"}
    BY <1>1 DEF ListComplete, Listed
  <2>1. owner[n] \in Threads
    BY <1>3 DEF Listed
  <2>2. CASE n = m /\ owner[n] = t
    BY <1>1, <1>2, <1>4, <2>2
  <2>3. CASE ~(n = m /\ owner[n] = t)
    <3>1. \/ length[n][owner[n]] = Size[n]
          \/ length[n][owner[n]] \in Unknown
          \/ model[owner[n]] = n /\ pc[owner[n]] \in {"field", "wrap"}
      BY <1>1 DEF TrackInv, ListComplete
    <3> QED
      BY <1>1, <1>4, <2>1, <2>3, <3>1
  <2> QED
    BY <2>2, <2>3
<1> QED
  BY <1>7, <1>8, <1>9, <1>10 DEF TrackInv

LEMMA TrackInvWrap ==
  ASSUME TypeInv, TrackInv, NEW t \in Threads, WrapColumn(t)
  PROVE  TrackInv'
<1> DEFINE m == model[t]
           c == length[m][t]
<1>1. /\ pc[t] = "wrap" /\ m \in Models /\ Listed(m) /\ c # 0
      /\ (pc'[t] = "query" /\ c = Size[m]) \/ pc'[t] = "field"
      /\ \A u \in Threads : u # t => pc'[u] = pc[u]
      /\ UNCHANGED <<models, owner, length, relisted, model>>
  BY DEF WrapColumn, Goto, historyVars, TypeInv, TypeOK, PlaceOK
<1>2. /\ \A n \in Models : n # m => wrapped'[n] = wrapped[n]
      /\ wrapped'[m] = wrapped[m] \cup {c}
  BY <1>1 DEF WrapColumn, TypeInv, TypeOK
<1>3. /\ length \in [Models -> [Threads -> Nat]]
      /\ owner \in [Models -> Threads \cup {NoThread}]
  BY DEF TypeInv, TypeOK
<1>4. \A n \in Models, d \in Nat : Done(n, d) => Done(n, d)'
  BY <1>2, ColumnsAssumption DEF Done, IsWrapped
<1>5. Done(m, c)'
  BY <1>1, <1>2 DEF Done, IsWrapped
<1>6. ListsDone'
  <2> SUFFICES ASSUME NEW n \in Models, NEW u \in Threads, NEW d \in 1..length[n][u]
               PROVE  Done(n, d)' \/ (pc'[u] = "wrap" /\ model[u] = n /\ d = length[n][u])
    BY <1>1 DEF ListsDone
  <2>1. Done(n, d) \/ (pc[u] = "wrap" /\ model[u] = n /\ d = length[n][u])
    BY DEF TrackInv, ListsDone
  <2> QED
    BY <1>1, <1>3, <1>4, <1>5, <2>1
<1>7. UnknownLast'
  <2>1. ASSUME NEW u \in Threads, pc'[u] \in {"field", "wrap"}, NEW d \in 1..length[model[u]][u]
        PROVE  d \notin Unknown
    <3>1. pc[u] \in {"field", "wrap"}
      BY <1>1, <2>1
    <3> QED
      BY <2>1, <3>1 DEF TrackInv, UnknownLast
  <2>2. \A d \in 1..c : d \notin Unknown
    BY <1>1 DEF TrackInv, UnknownLast
  <2>3. \A n \in Models : \A b \in wrapped'[n] : \A d \in 1..b : d \notin Unknown
    BY <1>2, <2>2 DEF TrackInv, UnknownLast
  <2> QED
    BY <1>1, <2>1, <2>3 DEF UnknownLast
<1>8. FirstDone'
  <2> SUFFICES ASSUME NEW n \in models
               PROVE  (Listed(n) /\ Done(n, 1)') \/ \E u \in Threads : Unfinished(u, n)'
    BY <1>1 DEF FirstDone, Listed
  <2>1. CASE n = m
    <3>1. 1 \in 1..c
      BY <1>1, <1>3
    <3>2. Done(m, 1) \/ 1 = c
      BY <1>1, <3>1 DEF TrackInv, ListsDone
    <3> QED
      BY <1>1, <1>4, <1>5, <2>1, <3>2
  <2>2. CASE n # m
    <3>1. n \in Models
      BY DEF TypeInv, TypeOK
    <3> QED
      BY <1>1, <1>4, <2>2, <3>1 DEF TrackInv, FirstDone, Unfinished
  <2> QED
    BY <2>1, <2>2
<1>9. ListComplete'
  <2> SUFFICES ASSUME NEW n \in Models, Listed(n), n \notin relisted
               PROVE  \/ length[n][owner[n]] = Size[n]
                      \/ length[n][owner[n]] \in Unknown
                      \/ model[owner[n]] = n /\ pc'[owner[n]] \in {"field", "wrap"}
    BY <1>1 DEF ListComplete, Listed
  <2>1. owner[n] \in Threads
    BY <1>3 DEF Listed
  <2>2. \/ length[n][owner[n]] = Size[n]
        \/ length[n][owner[n]] \in Unknown
        \/ model[owner[n]] = n /\ pc[owner[n]] \in {"field", "wrap"}
    BY DEF TrackInv, ListComplete
  <2> QED
    BY <1>1, <2>1, <2>2
<1> QED
  BY <1>6, <1>7, <1>8, <1>9 DEF TrackInv

\* The steps of a query leave the lists and the descriptors alone.
LEMMA QueryFrame ==
  ASSUME TypeInv, NEW t \in Threads,
         \/ StartQuery(t) \/ ReadFresh(t) \/ ReadAttached(t) \/ Load(t) \/ Require(t)
         \/ Attach(t) \/ NextInstance(t) \/ Report(t)
  PROVE  /\ UNCHANGED <<models, owner, length, wrapped, relisted>>
         /\ \A u \in Threads \ {t} : pc'[u] = pc[u] /\ model'[u] = model[u]
         /\ pc[t] \notin {"idle", "claim", "reset", "field", "wrap", "raise"}
         /\ pc'[t] \notin {"reset", "field", "wrap", "raise"}
<1>1. pc \in [Threads -> {"idle", "claim", "reset", "field", "wrap", "raise", "query",
                          "fresh", "required", "yielded"}]
      /\ model \in [Threads -> Models \cup {NoModel}]
      /\ (query[t].built => pc[t] \in {"fresh", "yielded"})
  BY DEF TypeInv, TypeOK, PlaceOK
<1> USE <1>1 DEF modelVars, historyVars, queryVars, Goto
<1>2. CASE StartQuery(t)
  BY <1>2 DEF StartQuery
<1>3. CASE ReadFresh(t)
  BY <1>3 DEF ReadFresh
<1>4. CASE ReadAttached(t)
  BY <1>4 DEF ReadAttached
<1>5. CASE Load(t)
  BY <1>5 DEF Load
<1>6. CASE Require(t)
  BY <1>6 DEF Require
<1>7. CASE Attach(t)
  BY <1>7 DEF Attach
<1>8. CASE NextInstance(t)
  BY <1>8 DEF NextInstance
<1>9. CASE Report(t)
  BY <1>9 DEF Report
<1> QED
  BY <1>2, <1>3, <1>4, <1>5, <1>6, <1>7, <1>8, <1>9

LEMMA TrackInvNext == TypeInv /\ TrackInv /\ [Next]_vars => TrackInv'
<1> SUFFICES ASSUME TypeInv, TrackInv, [Next]_vars PROVE TrackInv'
  OBVIOUS
<1>1. CASE Reinstall
  BY <1>1 DEF Reinstall, TrackInv, ListsDone, UnknownLast, FirstDone, ListComplete, Listed
<1>2. ASSUME NEW t \in Threads, BeginQuery(t) \/ TrackRaises(t) PROVE TrackInv'
  <2>1. /\ UNCHANGED <<models, owner, length, wrapped, relisted>>
        /\ \A u \in Threads \ {t} : pc'[u] = pc[u] /\ model'[u] = model[u]
        /\ pc[t] \notin {"reset", "field", "wrap"} /\ pc'[t] \notin {"reset", "field", "wrap"}
    BY <1>2 DEF BeginQuery, TrackRaises, Goto, modelVars, historyVars, TypeInv, TypeOK
  <2> QED
    BY <2>1, TrackInvQuiet
<1>3. ASSUME NEW t \in Threads,
             \/ StartQuery(t) \/ ReadFresh(t) \/ ReadAttached(t) \/ Load(t) \/ Require(t)
             \/ Attach(t) \/ NextInstance(t) \/ Report(t)
      PROVE  TrackInv'
  BY <1>3, QueryFrame, TrackInvQuiet
<1>4. CASE UNCHANGED vars
  BY <1>4 DEF vars, modelVars, historyVars, TrackInv, ListsDone, UnknownLast, FirstDone,
              ListComplete, Listed, Done, IsWrapped, Unfinished
<1> QED
  BY <1>1, <1>2, <1>3, <1>4, TrackInvClaim, TrackInvReset, TrackInvList, TrackInvWrap DEF Next
-----------------------------------------------------------------------------
(* Queries that began after their model was tracked.                        *)

\* An iterated query keeps its model, and only StartQuery begins to iterate.
LEMMA IteratesFrame ==
  ASSUME TypeInv, RowsOK, [Next]_vars, NEW t \in Threads, Iterates(t)', t \notin early'
  PROVE  \/ StartQuery(t)
         \/ Iterates(t) /\ t \notin early /\ model'[t] = model[t] /\ ~Reinstall
<1>1. CASE Reinstall
  BY <1>1 DEF Reinstall, Iterates
<1>2. ASSUME NEW u \in Threads,
             \/ BeginQuery(u) \/ Claim(u) \/ Reset(u) \/ ListColumn(u) \/ WrapColumn(u)
             \/ TrackRaises(u)
      PROVE  Iterates(t) /\ t \notin early /\ model'[t] = model[t] /\ pc[u] # "fresh"
  BY <1>2 DEF BeginQuery, Claim, Reset, ListColumn, WrapColumn, TrackRaises, Goto, historyVars,
              Iterates, TypeInv, TypeOK
<1>3. ASSUME NEW u \in Threads, StartQuery(u)
      PROVE  u = t \/ (Iterates(t) /\ t \notin early /\ model'[t] = model[t])
  BY <1>3 DEF StartQuery, Goto, Iterates, TypeInv, TypeOK
<1>4. ASSUME NEW u \in Threads,
             \/ ReadFresh(u) \/ ReadAttached(u) \/ Load(u) \/ Require(u)
             \/ Attach(u) \/ NextInstance(u) \/ Report(u)
      PROVE  Iterates(t) /\ t \notin early /\ model'[t] = model[t]
  BY <1>4 DEF ReadFresh, ReadAttached, Load, Require, Attach, NextInstance, Report, Goto,
              historyVars, Iterates, TypeInv, TypeOK
<1>5. ASSUME UNCHANGED vars PROVE Iterates(t) /\ t \notin early /\ model'[t] = model[t]
  BY <1>5 DEF vars, historyVars, Iterates
<1>6. Iterates(t) => ~Reinstall
  BY DEF Iterates, Reinstall
<1> QED
  BY <1>1, <1>2, <1>3, <1>4, <1>5, <1>6 DEF Next

LEMMA RelistedGrows == TypeInv /\ [Next]_vars => relisted \subseteq relisted'
<1> SUFFICES ASSUME TypeInv, [Next]_vars PROVE relisted \subseteq relisted'
  OBVIOUS
<1>1. ASSUME NEW t \in Threads,
             \/ BeginQuery(t) \/ Claim(t) \/ Reset(t) \/ ListColumn(t) \/ WrapColumn(t)
             \/ TrackRaises(t)
      PROVE  relisted \subseteq relisted'
  BY <1>1 DEF BeginQuery, Claim, Reset, ListColumn, WrapColumn, TrackRaises, historyVars
<1>2. Reinstall \/ UNCHANGED vars => relisted' = relisted
  BY DEF Reinstall, vars, historyVars
<1> QED
  BY <1>1, <1>2, QueryFrame DEF Next

\* A thread that tracks a model whose first column is done gives up on that column.
LEMMA GivesUp ==
  ASSUME TypeInv, [Next]_vars, ~Reinstall, NEW u \in Threads,
         NEW m \in Models, Done(m, 1), Listed(m),
         ~(model[u] = m /\ pc[u] = "wrap"),
         model[u] = m /\ pc[u] = "field" => length[m][u] = 0 /\ m \in relisted
  PROVE  /\ ~(model'[u] = m /\ pc'[u] = "wrap")
         /\ model'[u] = m /\ pc'[u] = "field" => length'[m][u] = 0 /\ m \in relisted'
<1>1. ASSUME NEW t \in Threads, Reset(t)
      PROVE  /\ ~(model'[u] = m /\ pc'[u] = "wrap")
             /\ model'[u] = m /\ pc'[u] = "field" => length'[m][u] = 0 /\ m \in relisted'
  <2>1. \A n \in Models : length'[n][u] = length[n][u] \/ length'[n][u] = 0
    BY <1>1 DEF Reset, TypeInv, TypeOK, PlaceOK
  <2>2. t = u => length'[model[t]][t] = 0 /\ model[t] \in Models
    BY <1>1 DEF Reset, TypeInv, TypeOK, PlaceOK
  <2>3. /\ pc'[t] = "field" /\ model' = model
        /\ \A w \in Threads : w # t => pc'[w] = pc[w]
    BY <1>1 DEF Reset, Goto, TypeInv, TypeOK
  <2>4. t = u /\ model[t] = m => m \in relisted'
    BY <1>1 DEF Reset
  <2> QED
    BY <2>1, <2>2, <2>3, <2>4, RelistedGrows
<1>2. ASSUME NEW t \in Threads, ListColumn(t)
      PROVE  /\ ~(model'[u] = m /\ pc'[u] = "wrap")
             /\ model'[u] = m /\ pc'[u] = "field" => length'[m][u] = 0 /\ m \in relisted'
  <2>1. model' = model /\ \A w \in Threads : w # t => pc'[w] = pc[w]
    BY <1>2 DEF ListColumn, Goto, TypeInv, TypeOK
  <2>2. u # t => length'[m][u] = length[m][u]
    BY <1>2 DEF ListColumn, TypeInv, TypeOK
  <2>3. model[t] = m /\ t = u => pc'[t] = "raise"
    BY <1>2 DEF ListColumn, Goto, TypeInv, TypeOK, Done
  <2> QED
    BY <2>1, <2>2, <2>3, RelistedGrows
<1>3. ASSUME NEW t \in Threads, Claim(t) \/ TrackRaises(t) \/ BeginQuery(t)
      PROVE  /\ pc'[u] \in {"field", "wrap"} => pc'[u] = pc[u] /\ model'[u] = model[u]
             /\ length' = length
  BY <1>3 DEF Claim, TrackRaises, BeginQuery, Goto, modelVars, TypeInv, TypeOK
<1>4. ASSUME NEW t \in Threads, WrapColumn(t)
      PROVE  /\ model' = model /\ length' = length
             /\ u # t => pc'[u] = pc[u]
             /\ pc[t] = "wrap" /\ pc'[t] # "wrap"
  BY <1>4 DEF WrapColumn, Goto, TypeInv, TypeOK
<1>5. ASSUME NEW t \in Threads,
             \/ StartQuery(t) \/ ReadFresh(t) \/ ReadAttached(t) \/ Load(t) \/ Require(t)
             \/ Attach(t) \/ NextInstance(t) \/ Report(t)
      PROVE  /\ pc'[u] \in {"field", "wrap"} => pc'[u] = pc[u] /\ model'[u] = model[u]
             /\ length' = length
  BY <1>5, QueryFrame
<1>6. CASE UNCHANGED vars
  BY <1>6 DEF vars, modelVars, historyVars
<1> QED
  BY <1>1, <1>2, <1>3, <1>4, <1>5, <1>6, RelistedGrows DEF Next

LEMMA TrackedBeforeNext ==
  ASSUME TypeInv, TrackInv, RowsOK, TrackedBefore, [Next]_vars
  PROVE  TrackedBefore'
<1> SUFFICES ASSUME NEW t \in Threads, t \notin early', Iterates(t)'
             PROVE  /\ Listed(model[t])' /\ Done(model[t], 1)'
                    /\ \A u \in Threads :
                         /\ ~(model'[u] = model'[t] /\ pc'[u] = "wrap")
                         /\ model'[u] = model'[t] /\ pc'[u] = "field"
                              => length'[model'[t]][u] = 0 /\ model'[t] \in relisted'
  BY DEF TrackedBefore
<1> DEFINE m == model[t]
<1>1. CASE StartQuery(t)
  <2>1. m \in models /\ m \in Models
    BY <1>1 DEF StartQuery, TypeInv, TypeOK, PlaceOK
  <2>2. \A u \in Threads : ~(u # t /\ Tracking(u, m))
    BY <1>1 DEF StartQuery
  <2>3. \A u \in Threads : ~Unfinished(u, m)
    BY <1>1, <2>2 DEF StartQuery, Tracking, Unfinished
  <2>4. Listed(m) /\ Done(m, 1)
    BY <2>1, <2>3 DEF TrackInv, FirstDone
  <2>5. UNCHANGED <<modelVars, model>> /\ pc' = [pc EXCEPT ![t] = "fresh"]
    BY <1>1 DEF StartQuery, Goto
  <2>6. \A u \in Threads : pc'[u] \in {"field", "wrap"} => u # t /\ pc'[u] = pc[u]
    BY <2>5 DEF TypeInv, TypeOK
  <2>7. \A u \in Threads : pc'[u] \in {"field", "wrap"} => model[u] # m
    BY <2>3, <2>6 DEF Unfinished
  <2> QED
    BY <2>4, <2>5, <2>7 DEF modelVars, Listed, Done, IsWrapped
<1>2. CASE Iterates(t) /\ t \notin early /\ model'[t] = m /\ ~Reinstall
  <2>1. m \in Models /\ 1 \in Nat
    BY <1>2 DEF Iterates, TypeInv, PlaceOK
  <2>2. Listed(m) /\ Done(m, 1)
    BY <1>2 DEF TrackedBefore
  <2>3. Done(m, 1)'
    BY <1>2, <2>1, <2>2, WrappedGrows DEF Done, IsWrapped
  <2>4. owner'[m] # NoThread
    <3>1. ASSUME NEW u \in Threads, Reset(u) PROVE owner'[m] # NoThread
      BY <2>1, <2>2, <3>1, ColumnsAssumption DEF Reset, TypeInv, TypeOK, Listed
    <3>2. ASSUME NEW u \in Threads,
                 BeginQuery(u) \/ Claim(u) \/ ListColumn(u) \/ WrapColumn(u) \/ TrackRaises(u)
          PROVE  owner' = owner
      BY <3>2 DEF BeginQuery, Claim, ListColumn, WrapColumn, TrackRaises, modelVars
    <3>3. UNCHANGED vars => owner' = owner
      BY DEF vars, modelVars
    <3> QED
      BY <1>2, <2>2, <3>1, <3>2, <3>3, QueryFrame DEF Next, Listed
  <2>5. ASSUME NEW u \in Threads
        PROVE  /\ ~(model'[u] = m /\ pc'[u] = "wrap")
               /\ model'[u] = m /\ pc'[u] = "field" => length'[m][u] = 0 /\ m \in relisted'
    <3>1. /\ ~(model[u] = m /\ pc[u] = "wrap")
          /\ model[u] = m /\ pc[u] = "field" => length[m][u] = 0 /\ m \in relisted
      BY <1>2 DEF TrackedBefore
    <3> QED
      BY <1>2, <2>1, <2>2, <3>1, GivesUp
  <2> QED
    BY <1>2, <2>3, <2>4, <2>5 DEF Listed, Done, IsWrapped
<1> QED
  BY <1>1, <1>2, IteratesFrame
-----------------------------------------------------------------------------
(* Rows.                                                                    *)

QueryStep(t) ==
  \/ StartQuery(t) \/ ReadFresh(t) \/ ReadAttached(t) \/ Load(t) \/ Require(t)
  \/ Attach(t) \/ NextInstance(t) \/ Report(t)

SameRows(t) ==
  /\ query'[t] = query[t] /\ own'[t] = own[t] /\ read'[t] = read[t] /\ fresh'[t] = fresh[t]
  /\ t \in early' <=> t \in early

\* A step is one of the thread's query, or leaves its rows alone; then it also leaves
\* the thread where it is, or does not touch an iterated query.
LEMMA RowsFrame ==
  ASSUME TypeInv, [Next]_vars, NEW t \in Threads
  PROVE  \/ QueryStep(t)
         \/ /\ SameRows(t)
            /\ \/ pc'[t] = pc[t] /\ model'[t] = model[t]
               \/ /\ pc[t] \notin {"fresh", "required", "yielded"}
                  /\ pc'[t] \notin {"idle", "fresh", "required", "yielded"}
                  /\ ~query[t].built
<1>1. ASSUME NEW u \in Threads, QueryStep(u) PROVE u = t \/ SameRows(t)
  BY <1>1, ZenonT(60) DEF QueryStep, SameRows, StartQuery, ReadFresh, ReadAttached, Load, Require,
              Attach, NextInstance, Report, queryVars, historyVars, TypeInv, TypeOK
<1>2. ASSUME NEW u \in Threads, QueryStep(u)
      PROVE  u = t \/ (pc'[t] = pc[t] /\ model'[t] = model[t])
  BY <1>2, QueryFrame DEF QueryStep
<1>3. ASSUME NEW u \in Threads,
             \/ BeginQuery(u) \/ Claim(u) \/ Reset(u) \/ ListColumn(u) \/ WrapColumn(u)
             \/ TrackRaises(u)
      PROVE  /\ SameRows(t)
             /\ u # t => pc'[t] = pc[t] /\ model'[t] = model[t]
             /\ pc[u] \notin {"fresh", "required", "yielded"}
             /\ pc'[u] \notin {"idle", "fresh", "required", "yielded"}
  BY <1>3 DEF BeginQuery, Claim, Reset, ListColumn, WrapColumn, TrackRaises, Goto, queryVars,
              historyVars, SameRows, TypeInv, TypeOK
<1>4. CASE Reinstall
  BY <1>4 DEF Reinstall, SameRows, queryVars, historyVars
<1>5. CASE UNCHANGED vars
  BY <1>5 DEF vars, SameRows, queryVars, historyVars
<1>6. query[t].built => pc[t] \in {"fresh", "yielded"}
  BY DEF TypeInv, PlaceOK
<1> QED
  BY <1>1, <1>2, <1>3, <1>4, <1>5, <1>6 DEF Next, QueryStep

\* Unless a model is listed anew its list only grows.
LEMMA ListGrows ==
  ASSUME TypeInv, [Next]_vars, ~Reinstall, NEW m \in Models, Listed(m), m \notin relisted'
  PROVE  m \notin relisted /\ owner'[m] = owner[m] /\ Listing(m) \subseteq Listing(m)'
<1>1. length \in [Models -> [Threads -> Nat]] /\ owner[m] \in Threads
  BY DEF TypeInv, TypeOK, Listed
<1>2. /\ owner'[m] = owner[m]
      /\ length'[m][owner[m]] \in {length[m][owner[m]], length[m][owner[m]] + 1}
  <2>1. ASSUME NEW t \in Threads, Reset(t)
        PROVE  owner'[m] = owner[m] /\ length'[m] = length[m]
    <3>1. model[t] # m
      BY <2>1 DEF Reset
    <3> QED
      BY <2>1, <3>1 DEF Reset, TypeInv, TypeOK
  <2>2. ASSUME NEW t \in Threads, ListColumn(t)
        PROVE  /\ owner' = owner
               /\ length'[m][owner[m]] \in {length[m][owner[m]], length[m][owner[m]] + 1}
    BY <1>1, <2>2 DEF ListColumn
  <2>3. ASSUME NEW t \in Threads, BeginQuery(t) \/ Claim(t) \/ WrapColumn(t) \/ TrackRaises(t)
        PROVE  UNCHANGED <<owner, length>>
    BY <2>3 DEF BeginQuery, Claim, WrapColumn, TrackRaises, modelVars
  <2>4. UNCHANGED vars => UNCHANGED <<owner, length>>
    BY DEF vars, modelVars
  <2> QED
    BY <2>1, <2>2, <2>3, <2>4, QueryFrame DEF Next
<1> QED
  BY <1>1, <1>2, RelistedGrows DEF Listing

\* Once the first column is done, no list of a model grows beyond it.
LEMMA ListsStayShort ==
  ASSUME TypeInv, [Next]_vars, ~Reinstall, NEW m \in Models,
         \A u \in Threads : model[u] = m /\ pc[u] = "field" => length[m][u] = 0
  PROVE  \A u \in Threads : length'[m][u] <= length[m][u] \/ length'[m][u] = 1
<1>1. length \in [Models -> [Threads -> Nat]]
  BY DEF TypeInv, TypeOK
<1>2. ASSUME NEW t \in Threads, Reset(t)
      PROVE  \A u \in Threads : length'[m][u] <= length[m][u]
  <2>1. \A u \in Threads : length'[m][u] = length[m][u] \/ length'[m][u] = 0
    BY <1>1, <1>2 DEF Reset, TypeInv, PlaceOK
  <2> QED
    BY <1>1, <2>1
<1>3. ASSUME NEW t \in Threads, ListColumn(t)
      PROVE  \A u \in Threads : length'[m][u] = length[m][u] \/ length'[m][u] = 1
  BY <1>1, <1>3 DEF ListColumn, TypeInv, PlaceOK
<1>4. ASSUME NEW t \in Threads, BeginQuery(t) \/ Claim(t) \/ WrapColumn(t) \/ TrackRaises(t)
      PROVE  length' = length
  BY <1>4 DEF BeginQuery, Claim, WrapColumn, TrackRaises, modelVars
<1>5. UNCHANGED vars => length' = length
  BY DEF vars, modelVars
<1> QED
  BY <1>1, <1>2, <1>3, <1>4, <1>5, QueryFrame DEF Next

LEMMA ThreadInvInit == Init => QueryInv
BY DEF Init, QueryInv, ThreadInv, RowOK, BitsRead, BitsListed, KeysRequired, ReadOK, Loaded,
       NoRows, NewBitSet, Iterates

\* What other threads do, and what the thread does outside a query.
LEMMA ThreadInvFrame ==
  ASSUME TypeInv, TrackedBefore, [Next]_vars, NEW t \in Threads, ThreadInv(t), SameRows(t),
         \/ pc'[t] = pc[t] /\ model'[t] = model[t]
         \/ /\ pc[t] \notin {"fresh", "required", "yielded"}
            /\ pc'[t] \notin {"idle", "fresh", "required", "yielded"}
            /\ ~query[t].built
  PROVE  ThreadInv(t)'
<1> DEFINE m == model[t]
<1>1. CASE /\ pc[t] \notin {"fresh", "required", "yielded"}
           /\ pc'[t] \notin {"fresh", "required", "yielded"}
           /\ ~query[t].built
  <2>1. /\ query'[t] = NoRows /\ own'[t] = {} /\ read'[t] = {} /\ fresh'[t] = {}
        /\ t \notin early'
    BY <1>1 DEF ThreadInv, RowOK, Iterates, SameRows
  <2> QED
    BY <1>1, <2>1 DEF ThreadInv, RowOK, BitsRead, BitsListed, KeysRequired, ReadOK, Loaded,
                     Iterates, NoRows, NewBitSet
<1>2. CASE Iterates(t) /\ pc'[t] = pc[t] /\ model'[t] = m
  <2>1. m \in Models /\ ~Reinstall /\ Columns(m) \subseteq Nat
    BY <1>2, ColumnNumbers DEF Iterates, TypeInv, PlaceOK, Reinstall
  <2>2. RowOK(t)'
    BY <1>2 DEF ThreadInv, RowOK, SameRows, Iterates
  <2>3. BitsRead(t)'
    <3>1. \A c : IsWrapped(m, c) => IsWrapped(m, c)'
      BY <1>2, <2>1, WrappedGrows, ColumnsAssumption DEF IsWrapped
    <3> QED
      BY <1>2, <3>1 DEF ThreadInv, BitsRead, SameRows, IsWrapped
  <2>4. relisted \subseteq relisted' /\ (Loaded(t)' <=> Loaded(t))
    BY <1>2, RelistedGrows DEF SameRows, Loaded
  <2>5. BitsListed(t)'
    <3> SUFFICES ASSUME Loaded(t), m \notin relisted'
                 PROVE  /\ owner'[m] # NoThread
                        /\ \A i \in query[t].loaded \cup query[t].required : i + 1 \in Listing(m)'
      BY <1>2, <2>4 DEF BitsListed, SameRows, Listed, Listing
    <3>1. /\ Listed(m)
          /\ \A i \in query[t].loaded \cup query[t].required : i + 1 \in Listing(m)
      BY <2>4 DEF ThreadInv, BitsListed
    <3>2. owner'[m] = owner[m] /\ 1..length[m][owner[m]] \subseteq 1..length'[m][owner'[m]]
      BY <2>1, <3>1, ListGrows DEF Listing
    <3> QED
      BY <1>2, <3>1, <3>2 DEF Listed, Listing
  <2>6. KeysRequired(t)'
    BY <1>2, <2>4 DEF ThreadInv, KeysRequired, SameRows, Needed
  <2>7. ReadOK(t)'
    <3> SUFFICES ASSUME t \notin early PROVE ReadOK(t)'
      BY DEF ReadOK, SameRows
    <3>1. ASSUME Loaded(t), NEW i \in query[t].loaded PROVE Done(m, i + 1)'
      <4>1. i + 1 \in Nat /\ Done(m, i + 1)
        BY <3>1 DEF ThreadInv, ReadOK, TypeInv, TypeOK, Values
      <4> QED
        BY <1>2, <2>1, <4>1, WrappedGrows DEF Done, IsWrapped
    <3>2. \A u \in Threads : length'[m][u] <= length[m][u] \/ length'[m][u] = 1
      BY <1>2, <2>1, ListsStayShort DEF TrackedBefore
    <3>3. ASSUME NEW c \in fresh[t], BitSetOrNotListed(t, c) PROVE BitSetOrNotListed(t, c)'
      <4>1. /\ c \in Nat \ {0} /\ length \in [Models -> [Threads -> Nat]]
            /\ length' \in [Models -> [Threads -> Nat]]
        BY TypeInvNext, ColumnNumbers DEF TypeInv, TypeOK
      <4>2. c # 1 /\ (\A u \in Threads : length[m][u] < c)
              => \A u \in Threads : length'[m][u] < c
        <5> SUFFICES ASSUME c # 1, NEW u \in Threads, length[m][u] < c
                     PROVE  length'[m][u] < c
          OBVIOUS
        <5>1. length[m][u] \in Nat /\ length'[m][u] \in Nat
          BY <2>1, <4>1
        <5>2. length'[m][u] <= length[m][u] \/ length'[m][u] = 1
          BY <3>2
        <5>3. length[m][u] < c /\ c # 1 /\ c \in Nat \ {0}
          BY <4>1
        <5> HIDE DEF m
        <5> QED
          BY <5>1, <5>2, <5>3
      <4> QED
        BY <1>2, <3>3, <4>2 DEF BitSetOrNotListed, SameRows
    <3> QED
      BY <1>2, <2>4, <3>1, <3>3
         DEF ThreadInv, ReadOK, SameRows, Loaded, BitSetOrNotLoaded, Done, IsWrapped
  <2> QED
    BY <2>2, <2>3, <2>5, <2>6, <2>7 DEF ThreadInv
<1>3. ~query[t].built \/ Iterates(t)
  BY DEF TypeInv, PlaceOK, Iterates
<1> QED
  BY <1>1, <1>2, <1>3 DEF Iterates

LEMMA StartQueryRows ==
  ASSUME TypeInv, NEW t \in Threads, ThreadInv(t), StartQuery(t)
  PROVE  ThreadInv(t)'
<1> DEFINE m == model[t]
<1>1. PICK left \in SUBSET (Deferrable \ {Pk(m)}), j \in BOOLEAN :
        query' = [query EXCEPT ![t] = [NoRows EXCEPT !.fetched = Columns(m) \ left, !.joined = j]]
  BY DEF StartQuery
<1>2. /\ query'[t].built = FALSE /\ query'[t].accessed = {} /\ query'[t].loaded = {}
      /\ query'[t].required = {} /\ query'[t].fetched \subseteq Columns(m)
  BY <1>1 DEF NoRows, NewBitSet, TypeInv, TypeOK
<1>3. own'[t] = {} /\ read'[t] = {} /\ fresh'[t] = {} /\ pc'[t] = "fresh" /\ model'[t] = m
  BY DEF StartQuery, Goto, ThreadInv, RowOK, Iterates, TypeInv, TypeOK
<1> QED
  BY <1>2, <1>3 DEF ThreadInv, RowOK, BitsRead, BitsListed, KeysRequired, ReadOK, Loaded, Iterates

\* A column that is not done is in no list of its model.
LEMMA NotListed ==
  ASSUME TypeInv, TrackInv, NEW m \in Models, Done(m, 1), NEW c \in Columns(m), ~Done(m, c),
         \A u \in Threads : ~(model[u] = m /\ pc[u] = "wrap")
  PROVE  c # 1 /\ \A u \in Threads : length[m][u] < c
<1>1. c \in Nat \ {0} /\ \A u \in Threads : length[m][u] \in Nat
  BY ColumnNumbers DEF TypeInv, TypeOK
<1>2. \A u \in Threads : c \notin 1..length[m][u]
  BY DEF TrackInv, ListsDone
<1> QED
  BY <1>1, <1>2

LEMMA ReadFreshRows ==
  ASSUME TypeInv, TrackInv, TrackedBefore, NEW t \in Threads, ThreadInv(t), ReadFresh(t)
  PROVE  ThreadInv(t)'
<1> DEFINE m == model[t]
<1>1. PICK c \in Columns(m) :
        /\ fresh' = [fresh EXCEPT ![t] = @ \cup {c}]
        /\ \E b \in BitSetSet(own[t], Index(c)) :
             own' = IF IsWrapped(m, c) THEN [own EXCEPT ![t] = b] ELSE own
  BY DEF ReadFresh
<1>2. PICK b \in BitSetSet(own[t], Index(c)) :
        own' = IF IsWrapped(m, c) THEN [own EXCEPT ![t] = b] ELSE own
  BY <1>1
<1>3. pc[t] = "fresh" /\ m \in Models /\ c \in Nat \ {0} /\ own[t] \in Values
  BY ColumnNumbers DEF ReadFresh, TypeInv, TypeOK, PlaceOK
<1>4. /\ fresh'[t] = fresh[t] \cup {c} /\ own[t] \subseteq own'[t]
      /\ \A i \in own'[t] : i \in own[t] \/ (IsBitOf(i, c) /\ IsWrapped(m, c))
      /\ IsWrapped(m, c) /\ Index(c) < Width => Index(c) \in own'[t]
  BY <1>1, <1>2, <1>3, SetOne DEF TypeInv, TypeOK
<1>5. UNCHANGED <<models, owner, length, wrapped, query, read, early, relisted, pc, model>>
  BY DEF ReadFresh, modelVars, historyVars
<1>6. RowOK(t)'
  BY <1>3, <1>4, <1>5 DEF ThreadInv, RowOK, Iterates
<1>7. BitsRead(t)'
  BY <1>4, <1>5 DEF ThreadInv, BitsRead, IsWrapped
<1>8. BitsListed(t)' /\ KeysRequired(t)'
  BY <1>5 DEF ThreadInv, BitsListed, KeysRequired, Needed, Listed, Listing, Loaded
<1>9. ReadOK(t)'
  <2> SUFFICES ASSUME t \notin early PROVE ReadOK(t)'
    BY <1>5 DEF ReadOK
  <2>1. ASSUME Loaded(t) PROVE BitSetOrNotLoaded(t, c, own'[t])
    <3>1. Index(c) \in query[t].loaded => Done(m, c)
      BY <1>3, <2>1 DEF ThreadInv, ReadOK, Index
    <3> QED
      BY <1>4, <3>1 DEF BitSetOrNotLoaded, Done
  <2>2. ASSUME ~query[t].built PROVE BitSetOrNotListed(t, c)'
    <3>1. ~Done(m, c) => c # 1 /\ \A u \in Threads : length[m][u] < c
      BY <1>3, NotListed DEF TrackedBefore, Iterates
    <3> QED
      BY <1>4, <1>5, <3>1 DEF BitSetOrNotListed, Done
  <2> QED
    BY <1>3, <1>4, <1>5, <2>1, <2>2
       DEF ThreadInv, ReadOK, Loaded, BitSetOrNotLoaded, BitSetOrNotListed, Done, IsWrapped
<1> QED
  BY <1>6, <1>7, <1>8, <1>9 DEF ThreadInv

LEMMA ReadAttachedRows ==
  ASSUME TypeInv, NEW t \in Threads, ThreadInv(t), ReadAttached(t)
  PROVE  ThreadInv(t)'
<1> DEFINE m == model[t]
<1>1. PICK c \in Columns(m) :
        /\ read' = [read EXCEPT ![t] = @ \cup {c}]
        /\ \E b \in BitSetSet(query[t].accessed, Index(c)) :
             query' = IF IsWrapped(m, c) THEN [query EXCEPT ![t].accessed = b] ELSE query
  BY DEF ReadAttached
<1>2. PICK b \in BitSetSet(query[t].accessed, Index(c)) :
        query' = IF IsWrapped(m, c) THEN [query EXCEPT ![t].accessed = b] ELSE query
  BY <1>1
<1>3. /\ query[t].built /\ pc[t] \in {"fresh", "yielded"} /\ m \in Models
      /\ c \in Nat \ {0} /\ query[t].accessed \in Values
  <2>1. query[t].built /\ pc[t] \in {"fresh", "yielded"} /\ m \in Models
    BY DEF ReadAttached, TypeInv, PlaceOK
  <2> QED
    BY <2>1, ColumnNumbers DEF TypeInv, TypeOK
<1>4. /\ read'[t] = read[t] \cup {c} /\ query[t].accessed \subseteq query'[t].accessed
      /\ \A i \in query'[t].accessed : i \in query[t].accessed \/ (IsBitOf(i, c) /\ IsWrapped(m, c))
      /\ IsWrapped(m, c) /\ Index(c) < Width => Index(c) \in query'[t].accessed
  BY <1>1, <1>2, <1>3, SetOne DEF TypeInv, TypeOK
<1>5. /\ query'[t].built = query[t].built /\ query'[t].loaded = query[t].loaded
      /\ query'[t].required = query[t].required /\ query'[t].fetched = query[t].fetched
      /\ query'[t].joined = query[t].joined
  BY <1>2 DEF TypeInv, TypeOK
<1>6. UNCHANGED <<models, owner, length, wrapped, own, fresh, early, relisted, pc, model>>
  BY DEF ReadAttached, modelVars, historyVars
<1>7. RowOK(t)'
  BY <1>3, <1>4, <1>5, <1>6 DEF ThreadInv, RowOK, Iterates
<1>8. BitsRead(t)'
  BY <1>4, <1>6 DEF ThreadInv, BitsRead, IsWrapped
<1>9. BitsListed(t)' /\ KeysRequired(t)'
  BY <1>5, <1>6 DEF ThreadInv, BitsListed, KeysRequired, Needed, Listed, Listing, Loaded
<1>10. ReadOK(t)'
  <2>1. t \notin early => (Index(c) \in query[t].loaded => Done(m, c))
    BY <1>3 DEF ThreadInv, ReadOK, Index, Loaded
  <2> QED
    BY <1>3, <1>4, <1>5, <1>6, <2>1
       DEF ThreadInv, ReadOK, Loaded, BitSetOrNotLoaded, Done, IsWrapped
<1> QED
  BY <1>7, <1>8, <1>9, <1>10 DEF ThreadInv

LEMMA LoadRows ==
  ASSUME TypeInv, TrackInv, TrackedBefore, NEW t \in Threads, ThreadInv(t), Load(t)
  PROVE  ThreadInv(t)'
<1> DEFINE m == model[t]
           S == Listing(m) \cap query[t].fetched
<1>1. /\ pc[t] = "fresh" /\ ~query[t].built /\ m \in Models /\ read[t] = {}
      /\ query[t].accessed = {} /\ query[t].required = {}
  BY DEF Load, TypeInv, PlaceOK, ThreadInv, RowOK
<1>2. UNCHANGED <<models, owner, length, wrapped, read, early, relisted, model>>
  BY DEF Load, modelVars, historyVars
<1>3. length \in [Models -> [Threads -> Nat]] /\ (Listed(m) => owner[m] \in Threads)
  BY <1>1 DEF TypeInv, TypeOK, Listed
<1>4. CASE Listed(m)
  <2>1. PICK v \in SetAll(S) : query' = [query EXCEPT ![t].loaded = v]
    BY <1>4 DEF Load
  <2>2. /\ pc'[t] = "required" /\ own'[t] = own[t] /\ fresh'[t] = fresh[t]
        /\ query'[t] = [query[t] EXCEPT !.loaded = v]
    BY <1>4, <2>1 DEF Load, Goto, TypeInv, TypeOK
  <2>3. /\ query'[t].built = FALSE /\ query'[t].loaded = v
        /\ query'[t].accessed = {} /\ query'[t].required = {}
        /\ query'[t].fetched = query[t].fetched
    BY <1>1, <2>2 DEF TypeInv, TypeOK
  <2>4. S \in SUBSET (Nat \ {0}) /\ \A c \in S : c <= length[m][owner[m]]
    BY <1>1, <1>3, <1>4 DEF Listing
  <2>5. \A i \in v : i \in Nat /\ i + 1 \in 1..length[m][owner[m]]
    <3> SUFFICES ASSUME NEW i \in v PROVE i \in Nat /\ i + 1 \in 1..length[m][owner[m]]
      OBVIOUS
    <3>1. PICK c \in S : i \in Nat /\ i + 1 <= c
      BY <2>4, SetMany
    <3>2. c \in Nat /\ c <= length[m][owner[m]] /\ length[m][owner[m]] \in Nat
      BY <1>1, <1>3, <1>4, <2>4
    <3> QED
      BY <3>1, <3>2
  <2>6. RowOK(t)'
    BY <1>1, <1>2, <2>2, <2>3 DEF ThreadInv, RowOK, Iterates
  <2>7. BitsRead(t)'
    BY <1>1, <1>2, <2>2, <2>3 DEF ThreadInv, BitsRead, IsWrapped
  <2>8. BitsListed(t)'
    BY <1>2, <1>4, <2>3, <2>5 DEF BitsListed, Listed, Listing
  <2>9. KeysRequired(t)'
    BY <2>3 DEF KeysRequired
  <2>10. ReadOK(t)'
    <3> SUFFICES ASSUME t \notin early PROVE ReadOK(t)'
      BY <1>2 DEF ReadOK
    <3>1. \A u \in Threads : ~(model[u] = m /\ pc[u] = "wrap")
      BY <1>1 DEF TrackedBefore, Iterates
    <3>2. ASSUME NEW i \in v PROVE Done(m, i + 1)
      BY <1>1, <1>3, <1>4, <2>5, <3>1 DEF TrackInv, ListsDone
    <3>3. ASSUME NEW c \in fresh[t], c \notin Unknown, Index(c) < Width
          PROVE  Index(c) \in own[t] \/ Index(c) \notin v
      <4>1. Index(c) \in own[t] \/ length[m][owner[m]] < c
        BY <1>1, <1>3, <1>4, <3>3 DEF ThreadInv, ReadOK, BitSetOrNotListed
      <4>2. c \in Nat /\ Index(c) + 1 = c /\ length[m][owner[m]] \in Nat
        BY <1>1, <1>3, <1>4, ColumnNumbers DEF TypeInv, TypeOK, Index
      <4>3. Index(c) \in v => c <= length[m][owner[m]]
        BY <2>5, <4>2
      <4> HIDE DEF m
      <4> QED
        BY <4>1, <4>2, <4>3
    <3> QED
      BY <1>1, <1>2, <2>2, <2>3, <3>2, <3>3
         DEF ReadOK, Loaded, BitSetOrNotLoaded, Done, IsWrapped
  <2> QED
    BY <2>6, <2>7, <2>8, <2>9, <2>10 DEF ThreadInv
<1>5. CASE ~Listed(m)
  <2>1. t \in early
    BY <1>1, <1>5 DEF TrackedBefore, Iterates
  <2>2. /\ pc'[t] = "yielded" /\ own'[t] = {} /\ fresh'[t] = {} /\ query' = query
        /\ query[t].loaded = {}
    BY <1>1, <1>5 DEF Load, Goto, NewBitSet, TypeInv, TypeOK, ThreadInv, RowOK
  <2> QED
    BY <1>1, <1>2, <2>1, <2>2
       DEF ThreadInv, RowOK, BitsRead, BitsListed, KeysRequired, ReadOK, Loaded, Iterates
<1> QED
  BY <1>4, <1>5

LEMMA RequireRows ==
  ASSUME TypeInv, NEW t \in Threads, ThreadInv(t), Require(t)
  PROVE  ThreadInv(t)'
<1> DEFINE m == model[t]
           S == Needed(t) \cap Listing(m)
<1>1. PICK v \in SetAll(S) : query' = [query EXCEPT ![t].required = v, ![t].built = TRUE]
  BY DEF Require
<1>2. /\ pc[t] = "required" /\ m \in Models /\ ~query[t].built
  BY DEF Require, TypeInv, PlaceOK
<1>3. /\ pc'[t] = "fresh"
      /\ UNCHANGED <<models, owner, length, wrapped, own, read, fresh, early, relisted, model>>
  BY DEF Require, Goto, modelVars, historyVars, TypeInv, TypeOK
<1>4. /\ query'[t].built = TRUE /\ query'[t].required = v
      /\ query'[t].loaded = query[t].loaded /\ query'[t].accessed = query[t].accessed
      /\ query'[t].fetched = query[t].fetched /\ query'[t].joined = query[t].joined
  BY <1>1 DEF TypeInv, TypeOK
<1>5. RowOK(t)'
  BY <1>2, <1>3, <1>4 DEF ThreadInv, RowOK, Iterates
<1>6. BitsRead(t)'
  BY <1>3, <1>4 DEF ThreadInv, BitsRead, IsWrapped
<1>7. ASSUME m \notin relisted
      PROVE  /\ Listed(m) /\ S \in SUBSET (Nat \ {0})
             /\ \A i \in query[t].loaded \cup v : i + 1 \in Listing(m)
  <2>1. Listed(m) /\ \A i \in query[t].loaded : i + 1 \in Listing(m)
    BY <1>2, <1>7 DEF ThreadInv, BitsListed, Loaded
  <2>2. length[m][owner[m]] \in Nat
    BY <1>2, <2>1 DEF TypeInv, TypeOK, Listed
  <2>3. S \in SUBSET (Nat \ {0}) /\ \A c \in S : c <= length[m][owner[m]]
    BY <2>2 DEF Listing
  <2>4. ASSUME NEW i \in v PROVE i + 1 \in 1..length[m][owner[m]]
    <3>1. PICK c \in S : i \in Nat /\ i + 1 <= c
      BY <2>3, SetMany
    <3>2. c \in Nat /\ c <= length[m][owner[m]]
      BY <2>3
    <3> QED
      BY <2>2, <3>1, <3>2
  <2> QED
    BY <2>1, <2>3, <2>4 DEF Listing
<1>8. BitsListed(t)'
  BY <1>3, <1>4, <1>7 DEF BitsListed, Listed, Listing
<1>9. KeysRequired(t)'
  <2> SUFFICES ASSUME m \notin relisted, NEW c \in Needed(t) \cap query[t].fetched,
                      Index(c) < Width, Index(c) \in query[t].loaded
               PROVE  Index(c) \in v
    BY <1>3, <1>4 DEF KeysRequired, Needed
  <2>1. c \in Nat /\ Index(c) + 1 = c
    BY <1>2, ColumnNumbers DEF ThreadInv, RowOK, Index
  <2>2. c \in S
    BY <1>7, <2>1
  <2> QED
    BY <1>7, <2>2, SetMany
<1>10. ReadOK(t)'
  BY <1>2, <1>3, <1>4 DEF ThreadInv, ReadOK, Loaded, BitSetOrNotLoaded, Done, IsWrapped
<1> QED
  BY <1>5, <1>6, <1>8, <1>9, <1>10 DEF ThreadInv

LEMMA AttachRows ==
  ASSUME TypeInv, NEW t \in Threads, ThreadInv(t), Attach(t)
  PROVE  ThreadInv(t)'
<1>1. /\ pc[t] = "fresh" /\ pc'[t] = "yielded" /\ query[t].built
      /\ own'[t] = {} /\ fresh'[t] = {} /\ read'[t] = read[t] \cup fresh[t]
      /\ UNCHANGED <<models, owner, length, wrapped, early, relisted, model>>
  BY DEF Attach, Goto, NewBitSet, modelVars, historyVars, TypeInv, TypeOK
<1>2. /\ query'[t].accessed = query[t].accessed \cup own[t]
      /\ query'[t].built = query[t].built /\ query'[t].loaded = query[t].loaded
      /\ query'[t].required = query[t].required /\ query'[t].fetched = query[t].fetched
      /\ query'[t].joined = query[t].joined
  BY DEF Attach, BitSetIor, TypeInv, TypeOK
<1>3. RowOK(t)'
  BY <1>1, <1>2 DEF ThreadInv, RowOK, Iterates
<1>4. BitsRead(t)'
  BY <1>1, <1>2 DEF ThreadInv, BitsRead, IsWrapped
<1>5. BitsListed(t)' /\ KeysRequired(t)'
  BY <1>1, <1>2 DEF ThreadInv, BitsListed, KeysRequired, Needed, Listed, Listing, Loaded
<1>6. ReadOK(t)'
  BY <1>1, <1>2 DEF ThreadInv, ReadOK, Loaded, BitSetOrNotLoaded, Done, IsWrapped
<1> QED
  BY <1>3, <1>4, <1>5, <1>6 DEF ThreadInv

LEMMA InstanceOrReportRows ==
  ASSUME TypeInv, NEW t \in Threads, ThreadInv(t), NextInstance(t) \/ Report(t)
  PROVE  ThreadInv(t)'
<1>1. CASE NextInstance(t)
  <2>1. /\ pc[t] = "yielded" /\ pc'[t] = "fresh" /\ own[t] = {} /\ fresh[t] = {}
        /\ UNCHANGED <<models, owner, length, wrapped, query, own, read, fresh, early, relisted,
                       model>>
    BY <1>1 DEF NextInstance, Goto, modelVars, queryVars, historyVars, TypeInv, TypeOK,
               ThreadInv, RowOK
  <2> QED
    BY <2>1 DEF ThreadInv, RowOK, BitsRead, BitsListed, KeysRequired, ReadOK, Loaded, Iterates,
                BitSetOrNotLoaded, Needed, Listed, Listing, Done, IsWrapped
<1>2. CASE Report(t)
  <2>1. /\ pc'[t] = "idle" /\ query'[t] = NoRows /\ read'[t] = {} /\ t \notin early'
        /\ own'[t] = {} /\ fresh'[t] = {}
    BY <1>2 DEF Report, Goto, TypeInv, TypeOK, ThreadInv, RowOK
  <2> QED
    BY <2>1 DEF ThreadInv, RowOK, BitsRead, BitsListed, KeysRequired, ReadOK, Loaded, Iterates,
                NoRows, NewBitSet
<1> QED
  BY <1>1, <1>2

LEMMA QueryInvNext ==
  ASSUME TypeInv, TrackInv, TrackedBefore, QueryInv, [Next]_vars
  PROVE  QueryInv'
<1> SUFFICES ASSUME NEW t \in Threads PROVE ThreadInv(t)'
  BY DEF QueryInv
<1>1. ThreadInv(t)
  BY DEF QueryInv
<1>2. CASE QueryStep(t)
  BY <1>1, <1>2, StartQueryRows, ReadFreshRows, ReadAttachedRows, LoadRows, RequireRows,
     AttachRows, InstanceOrReportRows DEF QueryStep
<1>3. CASE ~QueryStep(t)
  BY <1>1, <1>3, RowsFrame, ThreadInvFrame
<1> QED
  BY <1>2, <1>3
-----------------------------------------------------------------------------
(* Columns of an unknown class.                                             *)

\* The listing stops at the first column of an unknown class.
LEMMA UnknownEndsNext ==
  ASSUME TypeInv, TrackInv, UnknownEnds, [Next]_vars
  PROVE  UnknownEnds'
<1>0. length \in [Models -> [Threads -> Nat]]
  BY DEF TypeInv, TypeOK
<1>1. ASSUME NEW t \in Threads, Reset(t) PROVE UnknownEnds'
  <2>1. \A m \in Models, u \in Threads : length'[m][u] \in {0, length[m][u]}
    BY <1>0, <1>1 DEF Reset, TypeInv, PlaceOK
  <2> QED
    BY <2>1 DEF UnknownEnds
<1>2. ASSUME NEW t \in Threads, ListColumn(t) PROVE UnknownEnds'
  <2> DEFINE n == length[model[t]][t] + 1
  <2>1. pc[t] = "field" /\ model[t] \in Models /\ length' = [length EXCEPT ![model[t]][t] = n]
    BY <1>2 DEF ListColumn, TypeInv, PlaceOK
  <2>2. \A c \in 1..n : c \in Unknown => c = n
    BY <1>0, <2>1 DEF TrackInv, UnknownLast
  <2>3. \A m \in Models, u \in Threads :
          length'[m][u] = IF m = model[t] /\ u = t THEN n ELSE length[m][u]
    BY <1>0, <2>1
  <2> QED
    BY <2>2, <2>3 DEF UnknownEnds
<1>3. ASSUME NEW t \in Threads, BeginQuery(t) \/ Claim(t) \/ WrapColumn(t) \/ TrackRaises(t)
      PROVE  length' = length
  BY <1>3 DEF BeginQuery, Claim, WrapColumn, TrackRaises, modelVars
<1>4. CASE Reinstall
  BY <1>4 DEF Reinstall, UnknownEnds
<1>5. UNCHANGED vars => length' = length
  BY DEF vars, modelVars
<1>6. length' = length => UnknownEnds'
  BY DEF UnknownEnds
<1> QED
  BY <1>1, <1>2, <1>3, <1>4, <1>5, <1>6, QueryFrame DEF Next

\* What is loaded is in a list, in which one column at most is of an unknown class, also
\* where columns beyond the width share the bits of others.
LEMMA UnknownOnceNext ==
  ASSUME TypeInv, UnknownEnds, NEW t \in Threads, UnknownOnce(t), [Next]_vars
  PROVE  UnknownOnce(t)'
<1>1. CASE query'[t].loaded \subseteq query[t].loaded
  BY <1>1 DEF UnknownOnce
<1>2. CASE Load(t) /\ Listed(model[t])
  <2> DEFINE m == model[t]
             n == length[m][owner[m]]
             S == Listing(m) \cap query[t].fetched
  <2>1. PICK v \in SetAll(S) : query' = [query EXCEPT ![t].loaded = v]
    BY <1>2 DEF Load
  <2>2. m \in Models /\ owner[m] \in Threads /\ n \in Nat /\ query'[t].loaded = v
    BY <1>2, <2>1 DEF Load, Listed, TypeInv, TypeOK, PlaceOK
  <2>3. S \in SUBSET (Nat \ {0}) /\ \A c \in S : c <= n
    BY <2>2 DEF Listing
  <2>4. \A i \in v : i \in Nat /\ i + 1 \in 1..n
    <3> SUFFICES ASSUME NEW i \in v PROVE i \in Nat /\ i + 1 \in 1..n
      OBVIOUS
    <3>1. PICK c \in S : i \in Nat /\ i + 1 <= c
      BY <2>3, SetMany
    <3>2. c \in Nat /\ c <= n
      BY <2>3
    <3> QED
      BY <2>2, <3>1, <3>2
  <2>5. ASSUME NEW c \in Unknown, Index(c) \in v PROVE c = n
    <3>1. Index(c) + 1 = c
      BY ColumnsAssumption DEF Index
    <3>2. c \in 1..n
      BY <2>4, <2>5, <3>1
    <3> QED
      BY <2>2, <3>2 DEF UnknownEnds
  <2> QED
    BY <2>2, <2>5 DEF UnknownOnce
<1>3. CASE QueryStep(t) /\ ~(Load(t) /\ Listed(model[t]))
  <2>0. query \in [Threads -> [built : BOOLEAN, loaded : Values, required : Values,
                              accessed : Values, fetched : SUBSET AllColumns, joined : BOOLEAN]]
    BY DEF TypeInv, TypeOK
  <2>1. CASE StartQuery(t)
    <3>1. query'[t].loaded = {}
      BY <2>0, <2>1 DEF StartQuery, NoRows, NewBitSet
    <3> QED
      BY <1>1, <3>1
  <2>2. CASE Report(t)
    <3>1. query'[t].loaded = {}
      BY <2>0, <2>2 DEF Report, NoRows, NewBitSet
    <3> QED
      BY <1>1, <3>1
  <2>3. CASE ReadFresh(t) \/ NextInstance(t) \/ Load(t)
    BY <1>1, <1>3, <2>3 DEF ReadFresh, NextInstance, Load, queryVars
  <2>4. CASE ReadAttached(t)
    BY <1>1, <2>0, <2>4 DEF ReadAttached
  <2>5. CASE Require(t)
    BY <1>1, <2>0, <2>5 DEF Require
  <2>6. CASE Attach(t)
    BY <1>1, <2>0, <2>6 DEF Attach
  <2> QED
    BY <1>3, <2>1, <2>2, <2>3, <2>4, <2>5, <2>6 DEF QueryStep
<1>4. CASE SameRows(t)
  BY <1>1, <1>4 DEF SameRows
<1> QED
  BY <1>2, <1>3, <1>4, RowsFrame
-----------------------------------------------------------------------------
(* Theorems.                                                                *)

LEMMA ColumnsInvHolds == Spec => []ColumnsInv
<1>1. Init => ColumnsInv
  <2>1. Init => TrackedBefore
    BY DEF Init, TrackedBefore, Iterates
  <2> QED
    BY <2>1, TypeInvInit, TrackInvInit, ThreadInvInit DEF ColumnsInv
<1>2. ColumnsInv /\ [Next]_vars => ColumnsInv'
  <2>1. QueryInv => RowsOK
    BY DEF QueryInv, ThreadInv, RowsOK
  <2> QED
    BY <2>1, TypeInvNext, TrackInvNext, TrackedBeforeNext, QueryInvNext DEF ColumnsInv
<1> QED
  BY <1>1, <1>2, PTL DEF Spec

\* Every variable of the models, the queries and their rows keeps its type, and a
\* thread's list of a model is never longer than the model, however often it is listed.
THEOREM Typed == Spec => []TypeOK
<1>1. ColumnsInv => TypeOK
  BY DEF ColumnsInv, TypeInv
<1> QED
  BY <1>1, ColumnsInvHolds, PTL

\* A column that Django or the application read is not reported as loaded and never
\* accessed, and each bit reported as accessed is that of a column that was read.
THEOREM ReadsReported == Spec => []ReportsWhatWasRead
<1>1. ColumnsInv => ReportsWhatWasRead
  <2> SUFFICES ASSUME ColumnsInv, NEW t \in Threads
               PROVE  /\ \A c \in read[t] \ Unknown :
                           (t \notin early /\ query[t].built /\ Index(c) < Width)
                             => ~ReportedUnused(t, c)
                      /\ \A i \in query[t].accessed : \E c \in read[t] : Index(c) % Width = i
    BY DEF ReportsWhatWasRead
  <2>1. BitsRead(t) /\ ReadOK(t)
    BY DEF ColumnsInv, QueryInv, ThreadInv
  <2> QED
    BY <2>1 DEF BitsRead, ReadOK, Loaded, BitSetOrNotLoaded, ReportedUnused, IsBitOf
<1> QED
  BY <1>1, ColumnsInvHolds, PTL

\* However many columns have descriptors of an unknown class, one at most of those that
\* were read is reported as loaded and unused.
THEOREM UnknownIsContained == Spec => []UnknownCostsOne
<1> DEFINE UnknownInv == UnknownEnds /\ \A t \in Threads : UnknownOnce(t)
<1>1. Init => UnknownInv
  BY DEF Init, UnknownEnds, UnknownOnce, NoRows, NewBitSet
<1>2. ColumnsInv /\ UnknownInv /\ [Next]_vars => UnknownInv'
  BY UnknownEndsNext, UnknownOnceNext DEF ColumnsInv
<1>3. ColumnsInv /\ UnknownInv => UnknownCostsOne
  <2> SUFFICES ASSUME ColumnsInv, UnknownInv, NEW t \in Threads \ early,
                      NEW c \in read[t], NEW d \in read[t],
                      ReportedUnused(t, c), ReportedUnused(t, d)
               PROVE  c = d
    BY DEF UnknownCostsOne
  <2>1. query[t].built
    BY DEF ColumnsInv, QueryInv, ThreadInv, RowOK
  <2>2. ASSUME NEW b \in read[t], ReportedUnused(t, b) PROVE b \in Unknown
    <3>1. query[t].loaded \subseteq 0..(Width - 1)
      BY DEF ColumnsInv, TypeInv, TypeOK, Values
    <3>2. Index(b) < Width
      BY <2>2, <3>1, WidthAssumption DEF ReportedUnused
    <3> QED
      BY <2>1, <2>2, <3>2 DEF ColumnsInv, QueryInv, ThreadInv, ReadOK, Loaded, BitSetOrNotLoaded,
                              ReportedUnused
  <2> QED
    BY <2>2 DEF UnknownOnce, ReportedUnused
<1> HIDE DEF UnknownInv
<1> QED
  BY <1>1, <1>2, <1>3, ColumnsInvHolds, PTL DEF Spec

\* A wrapped column of a model that was listed once is in its list.
LEMMA WrappedIsListed ==
  ASSUME ColumnsInv, NEW m \in Models, Listed(m), m \notin relisted,
         ~(model[owner[m]] = m /\ pc[owner[m]] \in {"field", "wrap"}),
         NEW c \in Columns(m), IsWrapped(m, c)
  PROVE  c \in Listing(m)
<1> DEFINE n == length[m][owner[m]]
<1>1. owner[m] \in Threads /\ n \in Nat /\ c \in Nat \ {0} /\ c <= Size[m]
  BY ColumnNumbers, ColumnsAssumption DEF ColumnsInv, TypeInv, TypeOK, Listed, Columns
<1>2. n = Size[m] \/ n \in Unknown
  BY <1>1 DEF ColumnsInv, TrackInv, ListComplete
<1>3. \A d \in 1..c : d \notin Unknown
  BY ColumnsAssumption DEF ColumnsInv, TrackInv, UnknownLast, IsWrapped
<1>4. Size[m] \in Nat
  BY ColumnsAssumption
<1> QED
  BY <1>1, <1>2, <1>3, <1>4, ColumnsAssumption DEF Listing

\* The list sent with the rows of a query that began after its model was tracked
\* names every bit in them, unless the model was listed twice.
THEOREM ReportsDecodable == Spec => []Decodable
<1>1. ColumnsInv => Decodable
  <2> SUFFICES ASSUME ColumnsInv, NEW t \in Threads \ early, query[t].built,
                      model[t] \notin relisted,
                      NEW i \in query[t].loaded \cup query[t].accessed \cup query[t].required
               PROVE  i + 1 \in Listing(model[t])
    BY DEF Decodable
  <2> DEFINE m == model[t]
  <2>1. BitsRead(t) /\ BitsListed(t)
    BY DEF ColumnsInv, QueryInv, ThreadInv
  <2>2. Listed(m)
    BY <2>1 DEF BitsListed, Loaded
  <2>3. Iterates(t) /\ m \in Models
    BY DEF ColumnsInv, TypeInv, PlaceOK, Iterates
  <2>4. owner[m] \in Threads /\ length[m][owner[m]] \in Nat
    BY <2>2, <2>3 DEF ColumnsInv, TypeInv, TypeOK, Listed
  <2>5. CASE i \in query[t].loaded \cup query[t].required
    BY <2>1, <2>5 DEF BitsListed, Loaded
  <2>6. CASE i \in query[t].accessed
    <3>1. PICK c \in Columns(m) : IsBitOf(i, c) /\ IsWrapped(m, c)
      BY <2>1, <2>6 DEF BitsRead
    <3>2. ~(model[owner[m]] = m /\ pc[owner[m]] \in {"field", "wrap"})
      BY <2>3, <2>4 DEF ColumnsInv, TrackedBefore
    <3>3. c \in 1..length[m][owner[m]]
      BY <2>2, <2>3, <3>1, <3>2, WrappedIsListed DEF Listing
    <3>4. Index(c) \in Nat /\ Index(c) + 1 = c
      BY <2>4, <3>3 DEF Index
    <3>5. i \in Nat /\ i <= Index(c)
      BY <3>1, <3>4, Remainder DEF IsBitOf
    <3>6. i + 1 \in 1..length[m][owner[m]]
      BY <2>4, <3>3, <3>4, <3>5
    <3> QED
      BY <3>6 DEF Listing
  <2> QED
    BY <2>5, <2>6
<1> QED
  BY <1>1, ColumnsInvHolds, PTL

\* The primary key and the column of a join, if they are reported as loaded, are
\* reported as required, whether or not the query began in time.
THEOREM KeysAreRequired == Spec => []LoadedKeysAreRequired
<1>1. ColumnsInv => LoadedKeysAreRequired
  BY DEF ColumnsInv, QueryInv, ThreadInv, KeysRequired, LoadedKeysAreRequired
<1> QED
  BY <1>1, ColumnsInvHolds, PTL

-----------------------------------------------------------------------------
(* The operations of the bit sets.                                          *)

\* s holds the numbers of v in order.
IsListOf(s, v) ==
  /\ s \in Seq(v)
  /\ \A i, j \in 1..Len(s) : i < j => s[i] < s[j]
  /\ \A x \in v : \E i \in 1..Len(s) : s[i] = x

\* A set of numbers has a least one.
LEMMA LeastOf ==
  ASSUME NEW T \in SUBSET Nat, T # {}
  PROVE  \E k \in T : \A j \in T : k <= j
<1> DEFINE R == OpToRel(<, Nat)
<1>1. IsWellFoundedOn(R, Nat)
  BY NatLessThanWellFounded
<1>2. \A x, y \in Nat : y < x => <<y, x>> \in R
  BY DEF OpToRel
<1> HIDE DEF R
<1>3. T \subseteq Nat
  OBVIOUS
<1>4. PICK k \in T : \A j \in T : ~(<<j, k>> \in R)
  BY <1>1, <1>3, WFMin, Zenon
<1>5. \A j \in T : k \in Nat /\ j \in Nat /\ ~(j < k)
  BY <1>2, <1>3, <1>4
<1> QED
  BY <1>5

\* __builtin_ctzll finds the lowest bit.
LEMMA LowestIs ==
  ASSUME NEW v \in SUBSET Nat, v # {}
  PROVE  Lowest(v) \in v /\ \A j \in v : Lowest(v) <= j
BY LeastOf DEF Lowest

\* A list is as long as its set is large.
LEMMA ListLength ==
  ASSUME NEW v \in SUBSET Nat, NEW s, IsListOf(s, v)
  PROVE  IsFiniteSet(v) /\ Cardinality(v) = Len(s)
<1> DEFINE f == [i \in 1..Len(s) |-> s[i]]
<1>1. /\ Len(s) \in Nat /\ f \in [1..Len(s) -> v]
      /\ \A i, j \in 1..Len(s) : i < j => f[i] < f[j]
      /\ \A x \in v : \E i \in 1..Len(s) : f[i] = x
  BY DEF IsListOf
<1>2. \A i, j \in 1..Len(s) : f[i] = f[j] => i = j
  <2> SUFFICES ASSUME NEW i \in 1..Len(s), NEW j \in 1..Len(s), f[i] = f[j], i # j PROVE FALSE
    OBVIOUS
  <2>1. f[i] \in Nat /\ f[j] \in Nat
    BY <1>1
  <2>2. i < j \/ j < i
    BY <1>1
  <2> HIDE DEF f
  <2> QED
    BY <1>1, <2>1, <2>2
<1> HIDE DEF f
<1>3. ExistsBijection(1..Len(s), v)
  BY <1>1, <1>2, Zenon DEF ExistsBijection, Bijection, Injection, Surjection, IsInjective
<1>4. IsFiniteSet(1..Len(s)) /\ Cardinality(1..Len(s)) = Len(s)
  BY <1>1, FS_Interval
<1> QED
  BY <1>3, <1>4, FS_Bijection

\* There is one list of a set.
LEMMA OneList ==
  ASSUME NEW v \in SUBSET Nat, NEW s, NEW r, IsListOf(s, v), IsListOf(r, v)
  PROVE  s = r
<1>1. /\ s \in Seq(v) /\ r \in Seq(v) /\ Len(s) = Len(r) /\ Len(s) \in Nat
  BY ListLength DEF IsListOf
<1> DEFINE T == {i \in 1..Len(s) : s[i] # r[i]}
<1>2. T = {}
  <2> SUFFICES ASSUME T # {} PROVE FALSE
    OBVIOUS
  <2>1. T \in SUBSET Nat
    BY <1>1
  <2> HIDE DEF T
  <2>2. PICK k \in T : \A j \in T : k <= j
    BY <2>1, LeastOf
  <2> USE DEF T
  <2>3. k \in 1..Len(s) /\ s[k] # r[k] /\ \A j \in 1..Len(s) : j < k => s[j] = r[j]
    BY <1>1, <2>1, <2>2
  <2> HIDE DEF T
  <2>4. s[k] \in v /\ r[k] \in v
    BY <1>1, <2>3
  <2>5. PICK i \in 1..Len(s) : s[i] = r[k]
    BY <2>4 DEF IsListOf
  <2>6. PICK j \in 1..Len(r) : r[j] = s[k]
    BY <2>4 DEF IsListOf
  <2>7. k < i /\ k < j
    <3>1. ASSUME i < k PROVE FALSE
      <4>1. r[i] < r[k] /\ r[i] = r[k] /\ r[k] \in Nat
        BY <1>1, <2>3, <2>4, <2>5, <3>1 DEF IsListOf
      <4> QED
        BY <4>1
    <3>2. ASSUME j < k PROVE FALSE
      <4>1. s[j] < s[k] /\ s[j] = s[k] /\ s[k] \in Nat
        BY <1>1, <2>3, <2>4, <2>6, <3>2 DEF IsListOf
      <4> QED
        BY <4>1
    <3> QED
      BY <1>1, <2>3, <2>5, <2>6, <3>1, <3>2
  <2>8. s[k] < s[i] /\ r[k] < r[j]
    BY <1>1, <2>3, <2>7 DEF IsListOf
  <2>9. s[k] \in Nat /\ r[k] \in Nat
    BY <2>4
  <2> QED
    BY <2>5, <2>6, <2>8, <2>9
<1> QED
  BY <1>1, <1>2

\* The lowest number in front of a list of the others.
LEMMA PutInFront ==
  ASSUME NEW v \in SUBSET Nat, v # {}, NEW s, IsListOf(s, v \ {Lowest(v)})
  PROVE  IsListOf(<<Lowest(v)>> \o s, v)
<1> DEFINE l == Lowest(v)
           r == <<l>> \o s
<1>1. l \in v /\ \A j \in v : l <= j
  BY LowestIs
<1> HIDE DEF l
<1>2. s \in Seq(v \ {l}) /\ s \in Seq(v) /\ Len(s) \in Nat
  BY DEF IsListOf, l
<1>3. /\ r \in Seq(v) /\ Len(r) = Len(s) + 1
      /\ r[1] = l /\ \A i \in 1..Len(s) : r[i + 1] = s[i]
  BY <1>1, <1>2
<1> HIDE DEF r
<1>4. ASSUME NEW i \in 1..Len(r), NEW j \in 1..Len(r), i < j PROVE r[i] < r[j]
  <2>1. j - 1 \in 1..Len(s) /\ r[j] = s[j - 1] /\ s[j - 1] \in v \ {l}
    BY <1>2, <1>3, <1>4
  <2>2. CASE i = 1
    <3>1. l <= r[j] /\ r[j] # l /\ l \in Nat /\ r[j] \in Nat
      BY <1>1, <2>1
    <3> QED
      BY <1>3, <2>2, <3>1
  <2>3. CASE i # 1
    <3>1. i - 1 \in 1..Len(s) /\ r[i] = s[i - 1] /\ i - 1 < j - 1
      BY <1>2, <1>3, <1>4, <2>3
    <3> QED
      BY <2>1, <3>1 DEF IsListOf, l
  <2> QED
    BY <2>2, <2>3
<1>5. ASSUME NEW x \in v PROVE \E i \in 1..Len(r) : r[i] = x
  <2>1. CASE x = l
    BY <1>2, <1>3, <2>1
  <2>2. CASE x # l
    <3>1. PICK i \in 1..Len(s) : s[i] = x
      BY <2>2 DEF IsListOf, l
    <3> QED
      BY <1>2, <1>3, <3>1
  <2> QED
    BY <2>1, <2>2
<1>6. r \in Seq(v) /\ r = <<Lowest(v)>> \o s
  BY <1>3 DEF r, l
<1> QED
  BY <1>4, <1>5, <1>6 DEF IsListOf

\* A statement about values that holds of {} and of a value whenever it holds of what
\* is left without its lowest bit holds of every value: no smallest one is without it.
LEMMA ValuesInduction ==
  ASSUME NEW P, {} \in P, \A v \in Values : v # {} /\ v \ {Lowest(v)} \in P => v \in P
  PROVE  Values \subseteq P
<1>1. ASSUME NEW v \in Values
      PROVE  v \in SUBSET Nat /\ IsFiniteSet(v) /\ Cardinality(v) \in Nat
  <2>1. Width - 1 \in Int /\ v \subseteq 0..(Width - 1) /\ v \in SUBSET Nat
    BY WidthAssumption DEF Values
  <2>2. IsFiniteSet(0..(Width - 1))
    BY <2>1, FS_Interval
  <2> QED
    BY <2>1, <2>2, FS_Subset, FS_CardinalityType
<1> DEFINE T == {n \in Nat : \E v \in Values : v \notin P /\ Cardinality(v) = n}
<1> SUFFICES ASSUME NEW w \in Values, w \notin P PROVE FALSE
  OBVIOUS
<1>2. Cardinality(w) \in T
  BY <1>1
<1>3. T \in SUBSET Nat
  OBVIOUS
<1>4. PICK k \in T : \A j \in T : k <= j
  <2> HIDE DEF T
  <2> QED
    BY <1>2, <1>3, LeastOf
<1>5. PICK v \in Values : v \notin P /\ Cardinality(v) = k
  OBVIOUS
<1>6. v # {} /\ Lowest(v) \in v
  BY <1>1, <1>5, LowestIs
<1>7. v \ {Lowest(v)} \in Values /\ v \ {Lowest(v)} \notin P
  BY <1>5, <1>6 DEF Values
<1>8. Cardinality(v \ {Lowest(v)}) = k - 1 /\ k - 1 \in Nat
  <2>1. Cardinality(v \ {Lowest(v)}) = Cardinality(v) - 1
    BY <1>1, <1>6, FS_RemoveElement
  <2>2. Cardinality(v \ {Lowest(v)}) \in Nat
    BY <1>1, <1>7
  <2> QED
    BY <1>5, <2>1, <2>2
<1>9. k - 1 \in T
  BY <1>7, <1>8
<1> QED
  BY <1>3, <1>4, <1>8, <1>9

\* Every value has a list.
LEMMA EveryList == \A v \in Values : \E s : IsListOf(s, v)
<1> DEFINE P == {v \in Values : \E s : IsListOf(s, v)}
<1>1. {} \in P
  <2>1. {} \in Values /\ <<>> \in Seq({}) /\ 1..Len(<<>>) = {}
    BY DEF Values
  <2>2. IsListOf(<<>>, {})
    BY <2>1 DEF IsListOf
  <2> QED
    BY <2>1, <2>2
<1>2. ASSUME NEW v \in Values, v # {}, v \ {Lowest(v)} \in P PROVE v \in P
  <2>1. PICK s : IsListOf(s, v \ {Lowest(v)})
    BY <1>2
  <2>2. v \in SUBSET Nat
    BY WidthAssumption DEF Values
  <2>3. IsListOf(<<Lowest(v)>> \o s, v)
    BY <1>2, <2>1, <2>2, PutInFront
  <2> QED
    BY <2>3
<1> HIDE DEF P
<1>3. Values \subseteq P
  BY <1>1, <1>2, ValuesInduction
<1> QED
  BY <1>3 DEF P

\* The recursion of list has a solution.
LEMMA ListEquation ==
  BitSetList = [v \in Values |-> IF v = {} THEN <<>>
                                 ELSE <<Lowest(v)>> \o BitSetList[v \ {Lowest(v)}]]
<1> DEFINE L(v) == CHOOSE s : IsListOf(s, v)
           F == [v \in Values |-> L(v)]
           Step(v, f) == IF v = {} THEN <<>> ELSE <<Lowest(v)>> \o f[v \ {Lowest(v)}]
<1>1. \A v \in Values : IsListOf(L(v), v)
  BY EveryList
<1>2. ASSUME NEW v \in Values PROVE F[v] = Step(v, F)
  <2>1. v \in SUBSET Nat
    BY WidthAssumption DEF Values
  <2>2. CASE v = {}
    <3>1. L(v) \in Seq({})
      BY <1>1, <2>2 DEF IsListOf
    <3>2. L(v) = <<>>
      BY <3>1
    <3> QED
      BY <2>2, <3>2
  <2>3. CASE v # {}
    <3>1. v \ {Lowest(v)} \in Values
      BY DEF Values
    <3>2. IsListOf(L(v \ {Lowest(v)}), v \ {Lowest(v)}) /\ IsListOf(L(v), v)
      BY <1>1, <3>1
    <3> HIDE DEF L
    <3>3. IsListOf(<<Lowest(v)>> \o L(v \ {Lowest(v)}), v)
      BY <2>1, <2>3, <3>2, PutInFront
    <3>4. L(v) = <<Lowest(v)>> \o L(v \ {Lowest(v)})
      BY <2>1, <3>2, <3>3, OneList
    <3> QED
      BY <2>3, <3>1, <3>4
  <2> QED
    BY <2>2, <2>3
<1> HIDE DEF L
<1>3. F = [v \in Values |-> Step(v, F)]
  BY <1>2
<1> HIDE DEF F
<1>4. \E f : f = [v \in Values |-> Step(v, f)]
  BY <1>3
<1> QED
  BY <1>4 DEF BitSetList

\* list returns the numbers of a value in order.
LEMMA ListIs == \A v \in Values : IsListOf(BitSetList[v], v)
<1> DEFINE P == {v \in Values : IsListOf(BitSetList[v], v)}
<1>1. {} \in P
  <2>1. {} \in Values /\ <<>> \in Seq({}) /\ 1..Len(<<>>) = {}
    BY DEF Values
  <2>2. IsListOf(<<>>, {})
    BY <2>1 DEF IsListOf
  <2>3. BitSetList[{}] = <<>>
    BY <2>1, ListEquation
  <2> QED
    BY <2>1, <2>2, <2>3
<1>2. ASSUME NEW v \in Values, v # {}, v \ {Lowest(v)} \in P PROVE v \in P
  <2>1. v \in SUBSET Nat
    BY WidthAssumption DEF Values
  <2>2. IsListOf(<<Lowest(v)>> \o BitSetList[v \ {Lowest(v)}], v)
    BY <1>2, <2>1, PutInFront
  <2>3. BitSetList[v] = <<Lowest(v)>> \o BitSetList[v \ {Lowest(v)}]
    BY <1>2, ListEquation
  <2> QED
    BY <2>2, <2>3
<1> HIDE DEF P
<1>3. Values \subseteq P
  BY <1>1, <1>2, ValuesInduction
<1> QED
  BY <1>3 DEF P

\* has tells of a number within the width whether it is there.
LEMMA HasTells ==
  ASSUME NEW v, NEW p \in 0..(Width - 1)
  PROVE  BitSetHas(v, p) = IF p \in v THEN {TRUE} ELSE {FALSE}
<1>1. Shift(p) = {{p}}
  BY WidthAssumption DEF Shift
<1>2. BitSetHas(v, p) = {v \cap {p} # {}}
  BY <1>1 DEF BitSetHas
<1>3. CASE p \in v
  <2>1. (v \cap {p} # {}) = TRUE
    BY <1>3
  <2> QED
    BY <1>2, <1>3, <2>1
<1>4. CASE p \notin v
  <2>1. (v \cap {p} # {}) = FALSE
    BY <1>4
  <2> QED
    BY <1>2, <1>4, <2>1
<1> QED
  BY <1>3, <1>4

\* A list holds each number once, has tells what is in it, and setting or clearing a
\* number within the width changes no other.
LEMMA AgreesAlways ==
  ASSUME NEW v \in Values
  PROVE  Agrees(v)
<1> DEFINE list == BitSetList[v]
<1>1. v \in SUBSET Nat /\ IsListOf(list, v)
  BY ListIs, WidthAssumption DEF Values
<1> HIDE DEF list
<1>2. list \in Seq(v) /\ DOMAIN list = 1..Len(list) /\ Len(list) = Cardinality(v)
  <2>1. Cardinality(v) = Len(list)
    BY <1>1, ListLength, Zenon
  <2> QED
    BY <1>1, <2>1 DEF IsListOf
<1>3. {list[i] : i \in DOMAIN list} = v
  <2>1. \A i \in DOMAIN list : list[i] \in v
    BY <1>2
  <2>2. \A x \in v : \E i \in DOMAIN list : list[i] = x
    BY <1>1, <1>2 DEF IsListOf
  <2> QED
    BY <2>1, <2>2, Zenon
<1>4. ASSUME NEW p \in 0..(Width - 1), NEW q \in 0..(Width - 1)
      PROVE  /\ BitSetHas(v, p) = IF \E i \in DOMAIN list : list[i] = p THEN {TRUE} ELSE {FALSE}
             /\ \A w \in BitSetSet(v, p) : BitSetHas(w, q) = IF q = p THEN {TRUE} ELSE BitSetHas(v, q)
             /\ \A w \in BitSetClear(v, p) : BitSetHas(w, q) = IF q = p THEN {FALSE} ELSE BitSetHas(v, q)
  <2>1. Shift(p) = {{p}}
    BY WidthAssumption DEF Shift
  <2>3. BitSetSet(v, p) = {v \cup {p}} /\ BitSetClear(v, p) = {v \ {p}}
    BY <2>1 DEF BitSetSet, BitSetClear
  <2>4. (p \in v) <=> \E i \in DOMAIN list : list[i] = p
    BY <1>3
  <2>5. BitSetHas(v, p) = IF \E i \in DOMAIN list : list[i] = p THEN {TRUE} ELSE {FALSE}
    BY <2>4, HasTells
  <2>6. \A w \in BitSetSet(v, p) : BitSetHas(w, q) = IF q = p THEN {TRUE} ELSE BitSetHas(v, q)
    <3>1. (q \in v \cup {p}) <=> q = p \/ q \in v
      OBVIOUS
    <3>2. BitSetHas(v \cup {p}, q) = IF q \in v \cup {p} THEN {TRUE} ELSE {FALSE}
      BY HasTells
    <3>3. BitSetHas(v \cup {p}, q) = IF q = p THEN {TRUE} ELSE BitSetHas(v, q)
      BY <3>1, <3>2, HasTells
    <3> QED
      BY <2>3, <3>3
  <2>7. \A w \in BitSetClear(v, p) : BitSetHas(w, q) = IF q = p THEN {FALSE} ELSE BitSetHas(v, q)
    <3>1. (q \in v \ {p}) <=> q # p /\ q \in v
      OBVIOUS
    <3>2. BitSetHas(v \ {p}, q) = IF q \in v \ {p} THEN {TRUE} ELSE {FALSE}
      BY HasTells
    <3>3. BitSetHas(v \ {p}, q) = IF q = p THEN {FALSE} ELSE BitSetHas(v, q)
      BY <3>1, <3>2, HasTells
    <3> QED
      BY <2>3, <3>3
  <2> QED
    BY <2>5, <2>6, <2>7, Zenon
<1>5. \A i, j \in DOMAIN list : i < j => list[i] < list[j]
  BY <1>1, <1>2 DEF IsListOf
<1>6. Len(list) = BitSetLength(v) /\ BitSetInt({list[i] : i \in DOMAIN list}) = BitSetInt(v)
  BY <1>2, <1>3, Zenon DEF BitSetLength
<1> QED
  BY <1>4, <1>5, <1>6, Zenon DEF Agrees, list

\* BitSet: list, length, has, set, clear and int agree with each other on every bit set
\* that tracking makes, of every width.
THEOREM OperationsAgree == Spec => []BitSetsAgree
<1>1. TypeInv => BitSetsAgree
  <2> SUFFICES ASSUME TypeInv, NEW t \in Threads,
                      NEW v \in {own[t], query[t].loaded, query[t].accessed}
               PROVE  <<v, "agree">> \in Verdicts
    BY DEF BitSetsAgree
  <2>1. v \in Values
    BY DEF TypeInv, TypeOK
  <2>2. Agrees(v)
    BY <2>1, AgreesAlways
  <2> QED
    BY <2>1, <2>2 DEF Verdicts
<1> QED
  BY <1>1, ColumnsInvHolds, PTL DEF ColumnsInv
=============================================================================
