------------------------------ MODULE Tracking ------------------------------
(***************************************************************************)
(* The current context and the current ORM query of a thread of control:   *)
(* QueryContext (src/src/qorme/context/tracking.py), ORMQuery              *)
(* (src/src/qorme/orm/tracking.py), the Celery signals that enter and      *)
(* leave contexts (src/src/qorme/contrib/celery/tracking.py), and the      *)
(* render of a template, which marks its context.                          *)
(*                                                                         *)
(* A strand is a thread or an asynchronous task, with its own context      *)
(* variables; a new one starts with a copy of another's.  The blocks of a  *)
(* strand are its program: code in a with statement, a task, a render.     *)
(* They end in the reverse order of their beginning.  A query is iterated  *)
(* by a generator, which ends when it pleases.                             *)
(***************************************************************************)
EXTENDS Naturals, Sequences, SequencesExt, FiniteSets

CONSTANTS
  Strands,
  Contexts,
  Queries,
  TaskIds,
  IgnoredIds,  \* ids of tasks whose name is in ignore_tasks
  MaxNesting,  \* bound: blocks open in a strand
  NoContext,
  NoQuery,
  NoTask,
  NoStrand

ASSUME TrackingAssumption ==
  /\ NoContext \notin Contexts /\ NoQuery \notin Queries
  /\ NoTask \notin TaskIds /\ NoStrand \notin Strands
  /\ IgnoredIds \subseteq TaskIds
  /\ MaxNesting \in Nat

VARIABLES
  current,  \* _query_context_var of a strand
  orm,      \* _orm_query_var of a strand
  blocks,   \* the open blocks of a strand, innermost last
  started,  \* the strands that have started
  base,     \* what a strand started with: a context and a query
  contexts, \* per context: its state, the old value of its token, its task
  marked,   \* contexts whose _state holds in_template_render
  queries,  \* per query: its state, the strand and the old value of its token
  crossed,  \* history: strands with a query that ended while another was current
  shared    \* history: contexts that a second strand started with

contextVars == <<current, blocks, contexts, marked>>
queryVars == <<orm, queries, crossed>>
strandVars == <<started, base, shared>>
trackingVars == <<contextVars, queryVars, strandVars>>
-----------------------------------------------------------------------------
Push(t, block) == blocks' = [blocks EXCEPT ![t] = Append(@, block)]

Pop(t) == blocks' = [blocks EXCEPT ![t] = Front(@)]

Block(kind, c, id) == [kind |-> kind, ctx |-> c, task |-> id]

CanOpen(t) == t \in started /\ Len(blocks[t]) < MaxNesting

IsOpen(t, kind) == blocks[t] # <<>> /\ Last(blocks[t]).kind = kind

\* QueryContext.__enter__: the token remembers the context that was current.
Enter(t, c, id) ==
  /\ contexts[c].state = "new"
  /\ contexts' = [contexts EXCEPT ![c] =
                    [state |-> "open", old |-> current[t], task |-> id]]
  /\ current' = [current EXCEPT ![t] = c]

\* QueryContext.__exit__: reset to what the token remembers, whatever is current.
Exit(t, c) ==
  /\ contexts' = [contexts EXCEPT ![c].state = "closed", ![c].old = NoContext]
  /\ current' = [current EXCEPT ![t] = contexts[c].old]

\* A with statement, such as a management command or a page that is rendered.
EnterWith(t) ==
  /\ CanOpen(t)
  /\ \E c \in Contexts : Enter(t, c, NoTask) /\ Push(t, Block("with", c, NoTask))
  /\ UNCHANGED <<marked, queryVars, strandVars>>

ExitWith(t) ==
  /\ IsOpen(t, "with")
  /\ Exit(t, Last(blocks[t]).ctx)
  /\ Pop(t)
  /\ UNCHANGED <<marked, queryVars, strandVars>>

\* task_prerun: an ignored task gets no context.
PreRun(t) ==
  /\ CanOpen(t)
  /\ \E id \in TaskIds :
       \/ /\ id \notin IgnoredIds
          /\ \E c \in Contexts : Enter(t, c, id) /\ Push(t, Block("task", c, id))
       \/ /\ id \in IgnoredIds
          /\ Push(t, Block("task", NoContext, id))
          /\ UNCHANGED <<contexts, current>>
  /\ UNCHANGED <<marked, queryVars, strandVars>>

\* Variant for a mutation: whatever task's context is current ends.
PostRunAny(t) ==
  /\ IsOpen(t, "task")
  /\ IF current[t] # NoContext /\ contexts[current[t]].task # NoTask
     THEN Exit(t, current[t])
     ELSE UNCHANGED <<contexts, current>>
  /\ Pop(t)
  /\ UNCHANGED <<marked, queryVars, strandVars>>

\* task_postrun: the current context ends if it is that of this task.
PostRun(t) ==
  /\ IsOpen(t, "task")
  /\ IF /\ current[t] # NoContext
        /\ contexts[current[t]].task = Last(blocks[t]).task
     THEN Exit(t, current[t])
     ELSE UNCHANGED <<contexts, current>>
  /\ Pop(t)
  /\ UNCHANGED <<marked, queryVars, strandVars>>
-----------------------------------------------------------------------------
(* Template.render, wrapped: the outermost render marks the context.        *)

\* Variant for a mutation: a nested render marks the context as well.
BeginRenderAlways(t) ==
  /\ CanOpen(t)
  /\ Push(t, Block(IF current[t] = NoContext THEN "nested" ELSE "unmarked", current[t], NoTask))
  /\ UNCHANGED <<current, contexts, marked, queryVars, strandVars>>

\* get_state: outside contexts and inside another render nothing is marked.
BeginRender(t) ==
  /\ CanOpen(t)
  /\ Push(t, Block(IF current[t] = NoContext \/ current[t] \in marked
                   THEN "nested" ELSE "unmarked", current[t], NoTask))
  /\ UNCHANGED <<current, contexts, marked, queryVars, strandVars>>

\* state(in_template_render=True).
MarkRender(t) ==
  /\ IsOpen(t, "unmarked")
  /\ marked' = marked \cup {Last(blocks[t]).ctx}
  /\ blocks' = [blocks EXCEPT ![t] = Append(Front(@), [Last(@) EXCEPT !.kind = "render"])]
  /\ UNCHANGED <<current, contexts, queryVars, strandVars>>

\* The end of state() pops its key, which is a KeyError when it is not there.
EndRender(t) ==
  /\ IsOpen(t, "render")
  /\ Last(blocks[t]).ctx \in marked
  /\ marked' = marked \ {Last(blocks[t]).ctx}
  /\ Pop(t)
  /\ UNCHANGED <<current, contexts, queryVars, strandVars>>

EndNested(t) ==
  /\ IsOpen(t, "nested")
  /\ Pop(t)
  /\ UNCHANGED <<current, contexts, marked, queryVars, strandVars>>

RenderRaises(t) ==
  /\ IsOpen(t, "render")
  /\ Last(blocks[t]).ctx \notin marked
  /\ Pop(t)
  /\ UNCHANGED <<current, contexts, marked, queryVars, strandVars>>
-----------------------------------------------------------------------------
(* ORMQuery, entered and left by the generator that iterates a query.       *)

\* What the token held no longer matters.
Finished == [state |-> "done", strand |-> NoStrand, old |-> NoQuery]

\* Outside a context a query is not tracked.
StartQuery(t) ==
  /\ t \in started /\ current[t] # NoContext
  /\ \E q \in Queries :
       /\ queries[q].state = "new"
       /\ queries' = [queries EXCEPT ![q] =
                        [state |-> "running", strand |-> t, old |-> orm[t]]]
       /\ orm' = [orm EXCEPT ![t] = q]
  /\ UNCHANGED <<crossed, contextVars, strandVars>>

\* Variant for a mutation: the variable is cleared and the token forgotten.
FinishQueryCleared(t) ==
  /\ \E q \in Queries :
       /\ queries[q].state = "running" /\ queries[q].strand = t
       /\ queries' = [queries EXCEPT ![q] = Finished]
       /\ orm' = [orm EXCEPT ![t] = NoQuery]
       /\ crossed' = IF orm[t] = q THEN crossed ELSE crossed \cup {t}
  /\ UNCHANGED <<contextVars, strandVars>>

\* The rows are exhausted, or the generator is closed: on_query_done is fired
\* and the variable reset to what the token remembers.
FinishQuery(t) ==
  /\ \E q \in Queries :
       /\ queries[q].state = "running" /\ queries[q].strand = t
       /\ queries' = [queries EXCEPT ![q] = Finished]
       /\ orm' = [orm EXCEPT ![t] = queries[q].old]
       /\ crossed' = IF orm[t] = q THEN crossed ELSE crossed \cup {t}
  /\ UNCHANGED <<contextVars, strandVars>>

\* Another strand exhausts the generator: reset raises ValueError after
\* on_query_done, and no variable changes.
FinishElsewhere(t) ==
  /\ t \in started
  /\ \E q \in Queries :
       /\ queries[q].state = "running" /\ queries[q].strand # t
       /\ queries' = [queries EXCEPT ![q] = Finished]
       /\ crossed' = crossed \cup {queries[q].strand}
  /\ UNCHANGED <<orm, contextVars, strandVars>>
-----------------------------------------------------------------------------
\* A strand starts with empty variables, or with a copy of another's.
StartStrand(t) ==
  /\ t \notin started
  /\ started' = started \cup {t}
  /\ \/ UNCHANGED <<current, orm, base, shared>>
     \/ \E u \in started :
          /\ current' = [current EXCEPT ![t] = current[u]]
          /\ orm' = [orm EXCEPT ![t] = orm[u]]
          /\ base' = [base EXCEPT ![t] = [ctx |-> current[u], query |-> orm[u]]]
          /\ shared' = shared \cup ({current[u]} \ {NoContext})
  /\ UNCHANGED <<blocks, contexts, marked, queries, crossed>>

Init ==
  /\ current = [t \in Strands |-> NoContext]
  /\ orm = [t \in Strands |-> NoQuery]
  /\ blocks = [t \in Strands |-> <<>>]
  /\ started = {}
  /\ base = [t \in Strands |-> [ctx |-> NoContext, query |-> NoQuery]]
  /\ contexts = [c \in Contexts |->
                   [state |-> "new", old |-> NoContext, task |-> NoTask]]
  /\ marked = {}
  /\ queries = [q \in Queries |->
                  [state |-> "new", strand |-> NoStrand, old |-> NoQuery]]
  /\ crossed = {}
  /\ shared = {}

Next ==
  \E t \in Strands :
    \/ StartStrand(t)
    \/ EnterWith(t) \/ ExitWith(t) \/ PreRun(t) \/ PostRun(t)
    \/ BeginRender(t) \/ MarkRender(t) \/ EndRender(t) \/ EndNested(t) \/ RenderRaises(t)
    \/ StartQuery(t) \/ FinishQuery(t) \/ FinishElsewhere(t)

Spec == Init /\ [][Next]_trackingVars
-----------------------------------------------------------------------------
\* The variables have their types, and only a started strand has open blocks.
TypeOK ==
  /\ current \in [Strands -> Contexts \cup {NoContext}]
  /\ orm \in [Strands -> Queries \cup {NoQuery}]
  /\ contexts \in [Contexts -> [state : {"new", "open", "closed"}, old : Contexts \cup {NoContext},
                                task : TaskIds \cup {NoTask}]]
  /\ queries \in [Queries -> [state : {"new", "running", "done"}, strand : Strands \cup {NoStrand},
                              old : Queries \cup {NoQuery}]]
  /\ base \in [Strands -> [ctx : Contexts \cup {NoContext}, query : Queries \cup {NoQuery}]]
  /\ \A t \in Strands :
       blocks[t] \in Seq([kind : {"with", "task", "nested", "unmarked", "render"},
                          ctx : Contexts \cup {NoContext}, task : TaskIds \cup {NoTask}])
  /\ marked \subseteq Contexts /\ shared \subseteq Contexts
  /\ crossed \subseteq started /\ started \subseteq Strands

\* The context of the innermost block that has one of its own.
Innermost(t) ==
  LET own == {i \in DOMAIN blocks[t] :
                blocks[t][i].kind \in {"with", "task"} /\ blocks[t][i].ctx # NoContext}
  IN IF own = {} THEN base[t].ctx ELSE blocks[t][Max(own)].ctx

\* What a strand executes is attributed to the innermost context that its code
\* is in, however tasks nest, whether they are ignored or share an id (a task
\* that retries eagerly): the tokens follow the program (tracking.py:43-54 and
\* celery/tracking.py:32-39).
CurrentIsInnermost == \A t \in Strands : current[t] = Innermost(t)

\* While the queries of a strand end in the reverse order of their beginning, in
\* the strand that began them, they nest: the current one is still running, or
\* came with the strand, and every other one that runs is remembered by the token
\* of one begun after it, so that none is forgotten (orm/tracking.py:79-93).
OrmQueriesNest ==
  \A t \in Strands \ crossed :
    LET mine == {q \in Queries : queries[q].state = "running" /\ queries[q].strand = t}
    IN /\ orm[t] # base[t].query => orm[t] \in mine
       /\ \A q \in mine \ {orm[t]} : \E p \in mine : queries[p].old = q

Renders(c) ==
  {r \in Strands \X (1..MaxNesting) :
     LET open == blocks[r[1]]
     IN r[2] \in DOMAIN open /\ open[r[2]].kind = "render" /\ open[r[2]].ctx = c}

\* A context that one strand uses is marked exactly while its outermost render
\* runs: a nested one neither marks it again nor takes the mark away, which
\* would end in a KeyError in the application (tracking.py:57-63).
MarkedWhileRendering ==
  \A c \in Contexts \ shared :
    Cardinality(Renders(c)) = IF c \in marked THEN 1 ELSE 0
=============================================================================
