------------------------------ MODULE Columns -------------------------------
(***************************************************************************)
(* Which columns of a Django query are loaded, required and read:          *)
(* QueryTracking._track_model (qorme_django/domains/queries.py) and        *)
(* ColumnsTracking (qorme_django/domains/columns.py), which lists the      *)
(* columns of a model, wraps their descriptors and reports the rows of a   *)
(* query as three bit sets.                                                *)
(*                                                                         *)
(* A model's columns are the numbers from 1 to its size, in the order of   *)
(* its fields.  A child model inherits the columns, and so the             *)
(* descriptors, of the base model (inheritance in several tables, or a     *)
(* proxy).  A query returns instances of one model; those of a joined      *)
(* model have rows of their own and go the same way.  A list or a bit set  *)
(* belongs to the installation of the domain; descriptors are never        *)
(* unwrapped (columns.py:141).                                             *)
(***************************************************************************)
EXTENDS BitSet

CONSTANTS
  Threads,
  Models,
  Base,         \* the model that the others inherit from
  Size,         \* the number of columns of a model
  Unknown,      \* columns, of any model, whose descriptor is of an unknown class
  Deferrable,   \* bound: columns that a query may leave out
  Join,         \* the column of the foreign key that a query may join on
  MaxIterating,   \* bound: queries that are iterated at a time
  MaxEarlyReads,  \* bound: columns read before an instance is handed over
  MaxInstalls,  \* bound: installations after the first
  NoThread, NoModel

ASSUME ColumnsAssumption ==
  /\ NoThread \notin Threads /\ NoModel \notin Models
  /\ Base \in Models /\ Unknown \subseteq Nat \ {0}
  /\ Size \in [Models -> Nat \ {0}] /\ \A m \in Models : Size[Base] <= Size[m]
  /\ MaxInstalls \in Nat /\ MaxEarlyReads \in Nat /\ MaxIterating \in Nat

Columns(m) == 1..Size[m]

\* _meta.pk: a child's own is the link to its base, after the inherited columns.
Pk(m) == IF m = Base \/ Size[m] = Size[Base] THEN 1 ELSE Size[Base] + 1

Index(c) == c - 1

VARIABLES
  models,    \* _models of QueryTracking
  owner,     \* the thread whose list is idx_to_columns of a model
  length,    \* the length of the list that a thread made for a model
  wrapped,   \* the columns whose descriptor is wrapped in the class of a model
  installs,  \* installations after the first
  pc,        \* where a thread is
  model,     \* the model that a thread queries
  query,     \* the rows that a thread's query reports, and what it asks for
  own,       \* __columns_accessed__ of an instance that is not attached
  read,      \* history: columns read on the instances that were attached
  fresh,     \* history: columns read on the instance that is not
  early,     \* history: threads whose query began while another tracked the model
  relisted  \* history: models listed twice, or that met a wrapped descriptor

modelVars == <<models, owner, length, wrapped>>
queryVars == <<query, own, read, fresh>>
historyVars == <<early, relisted>>
vars == <<modelVars, queryVars, historyVars, installs, pc, model>>
-----------------------------------------------------------------------------
Goto(t, p) == pc' = [pc EXCEPT ![t] = p]

\* idx_to_columns[model] is there.
Listed(m) == owner[m] # NoThread

\* The columns in it.
Listing(m) == 1..length[m][owner[m]]

\* getattr(model, column) finds a wrapper, in the class or in the base.
IsWrapped(m, c) == c \in wrapped[m] \/ c \in wrapped[Base]

\* Is a thread in _track_model_handler for m?
Tracking(t, m) == model[t] = m /\ pc[t] \in {"reset", "field", "wrap", "raise"}

\* Is a thread iterating its query?
Iterates(t) == pc[t] \in {"fresh", "required", "yielded"}

NoRows == [built |-> FALSE, loaded |-> NewBitSet, required |-> NewBitSet,
           accessed |-> NewBitSet, fetched |-> {}, joined |-> FALSE]
-----------------------------------------------------------------------------
(* _track_model.                                                            *)

\* skip_query: is the model known?
BeginQuery(t) ==
  /\ pc[t] = "idle"
  /\ \E m \in Models :
       /\ model' = [model EXCEPT ![t] = m]
       /\ Goto(t, IF m \in models THEN "query" ELSE "claim")
  /\ UNCHANGED <<modelVars, queryVars, historyVars, installs>>

\* The model becomes known before its columns are listed.
Claim(t) ==
  /\ pc[t] = "claim"
  /\ models' = models \cup {model[t]}
  /\ Goto(t, "reset")
  /\ UNCHANGED <<owner, length, wrapped, queryVars, historyVars, installs, model>>

\* _track_model_handler: a new list, and a new map of the same columns.
Reset(t) ==
  /\ pc[t] = "reset"
  /\ owner' = [owner EXCEPT ![model[t]] = t]
  /\ length' = [length EXCEPT ![model[t]][t] = 0]
  /\ relisted' = IF Listed(model[t]) THEN relisted \cup {model[t]} ELSE relisted
  /\ Goto(t, "field")
  /\ UNCHANGED <<models, wrapped, queryVars, early, installs, model>>

\* The next column is listed, whatever its descriptor turns out to be.
ListColumn(t) ==
  /\ pc[t] = "field"
  /\ length' = [length EXCEPT ![model[t]][t] = @ + 1]
  /\ LET c == length[model[t]][t] + 1
     IN IF IsWrapped(model[t], c) \/ c \in Unknown
        THEN /\ Goto(t, "raise")
             /\ relisted' = IF c \in Unknown THEN relisted ELSE relisted \cup {model[t]}
        ELSE Goto(t, "wrap") /\ UNCHANGED relisted
  /\ UNCHANGED <<models, owner, wrapped, queryVars, early, installs, model>>

\* setattr(model, column, DeferredAttributeDescriptor(...)).
WrapColumn(t) ==
  /\ pc[t] = "wrap"
  /\ wrapped' = [wrapped EXCEPT ![model[t]] = @ \cup {length[model[t]][t]}]
  /\ Goto(t, IF length[model[t]][t] = Size[model[t]] THEN "query" ELSE "field")
  /\ UNCHANGED <<models, owner, length, queryVars, historyVars, installs, model>>

\* UnknownDescriptorError, which fire logs: the rest is neither listed nor wrapped.
TrackRaises(t) ==
  /\ pc[t] = "raise"
  /\ Goto(t, "query")
  /\ UNCHANGED <<modelVars, queryVars, historyVars, installs, model>>
-----------------------------------------------------------------------------
(* The query and its instances.                                             *)

\* ORMQuery is entered, the statement is executed and yields an instance.  Django
\* refuses to defer the column that it joins on.
StartQuery(t) ==
  /\ pc[t] = "query" /\ Cardinality({u \in Threads : Iterates(u)}) < MaxIterating
  /\ \E left \in SUBSET (Deferrable \ {Pk(model[t])}), j \in BOOLEAN :
       /\ j => Join \notin left
       /\ query' = [query EXCEPT ![t] = [NoRows EXCEPT !.fetched = Columns(model[t]) \ left,
                                                       !.joined = j]]
  /\ early' = IF \E u \in Threads \ {t} : Tracking(u, model[t]) THEN early \cup {t} ELSE early
  /\ Goto(t, "fresh")
  /\ UNCHANGED <<modelVars, own, read, fresh, relisted, installs, model>>

\* Django reads a column of an instance that it has not handed over yet.  A
\* wrapped descriptor gives the instance a bit set of its own.
ReadFresh(t) ==
  /\ pc[t] = "fresh" /\ Cardinality(fresh[t]) < MaxEarlyReads
  /\ \E c \in Columns(model[t]) :
       /\ fresh' = [fresh EXCEPT ![t] = @ \cup {c}]
       /\ \E b \in BitSetSet(own[t], Index(c)) :
            own' = IF IsWrapped(model[t], c) THEN [own EXCEPT ![t] = b] ELSE own
  /\ UNCHANGED <<modelVars, query, read, historyVars, installs, pc, model>>

\* Code reads a column of an attached instance.
ReadAttached(t) ==
  /\ query[t].built
  /\ \E c \in Columns(model[t]) :
       /\ read' = [read EXCEPT ![t] = @ \cup {c}]
       /\ \E b \in BitSetSet(query[t].accessed, Index(c)) :
            query' = IF IsWrapped(model[t], c) THEN [query EXCEPT ![t].accessed = b] ELSE query
  /\ UNCHANGED <<modelVars, own, fresh, historyVars, installs, pc, model>>

\* The bit sets that may come of setting the index of each column in S: each bit is
\* that of some column, and each column has set its own.
SetAll(S) ==
  {v \in Values : /\ \A i \in v : \E c \in S : {i} \in Shift(Index(c))
                  /\ \A c \in S : \E b \in Shift(Index(c)) : b \subseteq v}

\* Variant for a mutation: the columns are numbered from one.
LoadFromOne(t) ==
  /\ pc[t] = "fresh" /\ ~query[t].built /\ Listed(model[t])
  /\ \E v \in SetAll({c + 1 : c \in Listing(model[t]) \cap query[t].fetched}) :
       query' = [query EXCEPT ![t].loaded = v]
  /\ Goto(t, "required")
  /\ UNCHANGED <<modelVars, own, read, fresh, historyVars, installs, model>>

\* get_rows, _get_columns_loaded: a model that is not listed is a KeyError, which
\* fire logs; the instance is not attached.
Load(t) ==
  /\ pc[t] = "fresh" /\ ~query[t].built
  /\ IF Listed(model[t])
     THEN /\ \E v \in SetAll(Listing(model[t]) \cap query[t].fetched) :
               query' = [query EXCEPT ![t].loaded = v]
          /\ Goto(t, "required")
          /\ UNCHANGED <<own, fresh>>
     ELSE /\ Goto(t, "yielded")
          /\ own' = [own EXCEPT ![t] = NewBitSet]
          /\ fresh' = [fresh EXCEPT ![t] = {}]
          /\ UNCHANGED query
  /\ UNCHANGED <<modelVars, read, historyVars, installs, model>>

\* What a query must load to work: the primary key and the column of a join.
Needed(t) == {Pk(model[t])} \cup (IF query[t].joined THEN {Join} ELSE {})

\* Variant for a mutation: the columns of joins are forgotten.
RequireKey(t) ==
  /\ pc[t] = "required"
  /\ \E v \in SetAll({Pk(model[t])} \cap Listing(model[t])) :
       query' = [query EXCEPT ![t].required = v, ![t].built = TRUE]
  /\ Goto(t, "fresh")
  /\ UNCHANGED <<modelVars, own, read, fresh, historyVars, installs, model>>

\* get_rows, _get_columns_required: the rows are complete.
Require(t) ==
  /\ pc[t] = "required"
  /\ \E v \in SetAll(Needed(t) \cap Listing(model[t])) :
       query' = [query EXCEPT ![t].required = v, ![t].built = TRUE]
  /\ Goto(t, "fresh")
  /\ UNCHANGED <<modelVars, own, read, fresh, historyVars, installs, model>>

\* Variant for a mutation: what was read before is dropped.
AttachNew(t) ==
  /\ pc[t] = "fresh" /\ query[t].built
  /\ own' = [own EXCEPT ![t] = NewBitSet]
  /\ read' = [read EXCEPT ![t] = @ \cup fresh[t]]
  /\ fresh' = [fresh EXCEPT ![t] = {}]
  /\ Goto(t, "yielded")
  /\ UNCHANGED <<modelVars, query, historyVars, installs, model>>

\* _new_instance_handler: the instance's own bit set is merged, and the rows'
\* takes its place.
Attach(t) ==
  /\ pc[t] = "fresh" /\ query[t].built
  /\ query' = [query EXCEPT ![t].accessed = BitSetIor(@, own[t])]
  /\ own' = [own EXCEPT ![t] = NewBitSet]
  /\ read' = [read EXCEPT ![t] = @ \cup fresh[t]]
  /\ fresh' = [fresh EXCEPT ![t] = {}]
  /\ Goto(t, "yielded")
  /\ UNCHANGED <<modelVars, historyVars, installs, model>>

NextInstance(t) ==
  /\ pc[t] = "yielded"
  /\ Goto(t, "fresh")
  /\ UNCHANGED <<modelVars, queryVars, historyVars, installs, model>>

\* The rows are sent after their delay: what is read later is not reported.
Report(t) ==
  /\ pc[t] = "yielded"
  /\ query' = [query EXCEPT ![t] = NoRows]
  /\ read' = [read EXCEPT ![t] = {}]
  /\ early' = early \ {t}
  /\ model' = [model EXCEPT ![t] = NoModel]
  /\ Goto(t, "idle")
  /\ UNCHANGED <<modelVars, own, fresh, relisted, installs>>
-----------------------------------------------------------------------------
\* The tracking is uninstalled and installed again, with new domains, while no
\* query runs.  The wrapped descriptors stay.
Reinstall ==
  /\ installs < MaxInstalls
  /\ \A t \in Threads : pc[t] = "idle"
  /\ installs' = installs + 1
  /\ models' = {}
  /\ owner' = [m \in Models |-> NoThread]
  /\ length' = [m \in Models |-> [t \in Threads |-> 0]]
  /\ UNCHANGED <<wrapped, queryVars, historyVars, pc, model>>

Init ==
  /\ models = {} /\ owner = [m \in Models |-> NoThread]
  /\ length = [m \in Models |-> [t \in Threads |-> 0]]
  /\ wrapped = [m \in Models |-> {}]
  /\ installs = 0
  /\ pc = [t \in Threads |-> "idle"] /\ model = [t \in Threads |-> NoModel]
  /\ query = [t \in Threads |-> NoRows] /\ own = [t \in Threads |-> NewBitSet]
  /\ read = [t \in Threads |-> {}] /\ fresh = [t \in Threads |-> {}]
  /\ early = {} /\ relisted = {}

Next ==
  \/ Reinstall
  \/ \E t \in Threads :
       \/ BeginQuery(t) \/ Claim(t) \/ Reset(t) \/ ListColumn(t) \/ WrapColumn(t)
       \/ TrackRaises(t) \/ StartQuery(t) \/ ReadFresh(t) \/ ReadAttached(t)
       \/ Load(t) \/ Require(t) \/ Attach(t) \/ NextInstance(t) \/ Report(t)

Spec == Init /\ [][Next]_vars
-----------------------------------------------------------------------------
AllColumns == UNION {Columns(m) : m \in Models}

\* The variables have their types, and a list is never longer than its model.
TypeOK ==
  /\ models \subseteq Models /\ owner \in [Models -> Threads \cup {NoThread}]
  /\ length \in [Models -> [Threads -> Nat]] /\ wrapped \in [Models -> SUBSET AllColumns]
  /\ \A m \in Models : wrapped[m] \subseteq Columns(m) /\ \A t \in Threads : length[m][t] <= Size[m]
  /\ installs \in 0..MaxInstalls
  /\ pc \in [Threads -> {"idle", "claim", "reset", "field", "wrap", "raise", "query",
                         "fresh", "required", "yielded"}]
  /\ model \in [Threads -> Models \cup {NoModel}]
  /\ query \in [Threads -> [built : BOOLEAN, loaded : Values, required : Values,
                            accessed : Values, fetched : SUBSET AllColumns, joined : BOOLEAN]]
  /\ own \in [Threads -> Values]
  /\ read \in [Threads -> SUBSET AllColumns] /\ fresh \in [Threads -> SUBSET AllColumns]
  /\ early \subseteq Threads /\ relisted \subseteq Models

\* What Agrees says of each value, told once for the whole run.
Verdicts == {<<v, IF Agrees(v) THEN "agree" ELSE "differ">> : v \in Values}

\* The operations of the bit sets agree with each other on every value they have.
BitSetsAgree ==
  \A t \in Threads : \A v \in {own[t], query[t].loaded, query[t].accessed} :
    <<v, "agree">> \in Verdicts

\* Column c of t's query is reported as loaded and never read.
ReportedUnused(t, c) ==
  /\ Index(c) \in query[t].loaded
  /\ Index(c) \notin query[t].accessed

\* What is reported as accessed is what was read.  A column that Django read before
\* the instance was handed over, or the application on any of the rows, is not
\* reported as unused, if its index is within the width, its descriptor of a known
\* class, and the query began after its model was tracked (columns.py:38-55 and
\* 143-154); and every bit reported as accessed is that of a column that was read,
\* up to the columns that share a bit (bitset.pyx:12-13).
ReportsWhatWasRead ==
  \A t \in Threads :
    /\ \A c \in read[t] \ Unknown :
         (t \notin early /\ query[t].built /\ Index(c) < Width) => ~ReportedUnused(t, c)
    /\ \A i \in query[t].accessed : \E c \in read[t] : Index(c) % Width = i

\* What a descriptor of an unknown class may cost: the rows of a query that began
\* after its model was tracked report at most one of the columns that were read as
\* loaded and unused, that at which the listing stopped, however many are of an
\* unknown class (columns.py:127-140).
UnknownCostsOne ==
  \A t \in Threads \ early : \A c, d \in read[t] :
    ReportedUnused(t, c) /\ ReportedUnused(t, d) => c = d

\* What is reported can be decoded: unless the model was listed twice or met a
\* wrapped descriptor, the list sent with the rows of a query that began after
\* its model was tracked names every bit in them (columns.py:106-108).
Decodable ==
  \A t \in Threads \ early :
    (query[t].built /\ model[t] \notin relisted) =>
      \A i \in query[t].loaded \cup query[t].accessed \cup query[t].required :
        i + 1 \in Listing(model[t])

\* A primary key or a join's column that is reported as loaded is reported as
\* required, so that no prediction defers it (columns.py:164-186).
LoadedKeysAreRequired ==
  \A t \in Threads :
    (query[t].built /\ model[t] \notin relisted) =>
      \A c \in Needed(t) \cap query[t].fetched :
        (Index(c) < Width /\ Index(c) \in query[t].loaded)
          => Index(c) \in query[t].required
=============================================================================
