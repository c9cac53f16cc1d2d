--------------------------- MODULE TrackingProofs ---------------------------
(***************************************************************************)
(* Theorems about Tracking, for any number of strands, contexts, queries,  *)
(* tasks and blocks: the tokens of context variables follow the program.   *)
(***************************************************************************)
EXTENDS Tracking, FiniteSetTheorems, TLAPS

-----------------------------------------------------------------------------
(* Contexts                                                                 *)

Blocks == [kind : {"with", "task", "nested", "unmarked", "render"},
           ctx : Contexts \cup {NoContext}, task : TaskIds \cup {NoTask}]

\* The positions of the blocks that have a context of their own, and those below one.
Own(b) == {i \in DOMAIN b : b[i].kind \in {"with", "task"} /\ b[i].ctx # NoContext}
Below(b, i) == {k \in Own(b) : k < i}

\* c is the context of the innermost of the blocks at the positions in K, or the default d.
Top(b, K, c, d) ==
  \/ \E j \in K : c = b[j].ctx /\ \A k \in K : k <= j
  \/ K = {} /\ c = d

ContextTypes ==
  /\ current \in [Strands -> Contexts \cup {NoContext}]
  /\ contexts \in [Contexts -> [state : {"new", "open", "closed"},
                                old : Contexts \cup {NoContext},
                                task : TaskIds \cup {NoTask}]]
  /\ blocks \in [Strands -> Seq(Blocks)]
  /\ DOMAIN base = Strands /\ started \subseteq Strands
  /\ \A t \in Strands \ started : blocks[t] = <<>>

\* Only an ignored task is a task without a context.
KindOK(block) ==
  /\ block.kind = "with" => block.ctx \in Contexts /\ block.task = NoTask
  /\ block.kind = "task" => /\ block.task \in TaskIds
                            /\ block.ctx = NoContext <=> block.task \in IgnoredIds

BlocksOK ==
  /\ \A t \in Strands : \A i \in DOMAIN blocks[t] : KindOK(blocks[t][i])
  /\ \A c \in Contexts : contexts[c].task \notin IgnoredIds

\* A context is that of one block of one strand, and remembers its task.
OwnOK ==
  /\ \A t \in Strands : \A i \in Own(blocks[t]) :
       LET c == blocks[t][i].ctx
       IN contexts[c].state = "open" /\ contexts[c].task = blocks[t][i].task
  /\ \A t, u \in Strands : \A i \in Own(blocks[t]), j \in Own(blocks[u]) :
       blocks[t][i].ctx = blocks[u][j].ctx => t = u /\ i = j

\* The variable holds the context of the innermost block, and the token of a
\* context that of the innermost block below its own.
ChainOK ==
  \A t \in Strands :
    /\ Top(blocks[t], Own(blocks[t]), current[t], base[t].ctx)
    /\ \A i \in Own(blocks[t]) :
         Top(blocks[t], Below(blocks[t], i), contexts[blocks[t][i].ctx].old, base[t].ctx)

ContextInv == ContextTypes /\ BlocksOK /\ OwnOK /\ ChainOK

\* Push: one more position.
LEMMA Pushed ==
  ASSUME NEW S, NEW b \in Seq(S), NEW x \in S
  PROVE  /\ Append(b, x) \in Seq(S) /\ Len(b) \in Nat /\ DOMAIN b = 1..Len(b)
         /\ DOMAIN Append(b, x) = 1..(Len(b) + 1)
         /\ \A i \in 1..Len(b) : Append(b, x)[i] = b[i]
         /\ Append(b, x)[Len(b) + 1] = x
  OBVIOUS

\* Pop: the last position less.
LEMMA Popped ==
  ASSUME NEW S, NEW b \in Seq(S), b # <<>>
  PROVE  /\ Front(b) \in Seq(S) /\ Len(b) \in Nat \ {0} /\ DOMAIN b = 1..Len(b)
         /\ DOMAIN Front(b) = 1..(Len(b) - 1)
         /\ \A i \in 1..(Len(b) - 1) : Front(b)[i] = b[i]
         /\ Last(b) = b[Len(b)] /\ Last(b) \in S
<1>1. /\ Len(b) \in Nat \ {0} /\ DOMAIN b = 1..Len(b) /\ b[Len(b)] \in S
  OBVIOUS
<1>2. /\ SubSeq(b, 1, Len(b) - 1) \in Seq(S)
      /\ DOMAIN SubSeq(b, 1, Len(b) - 1) = 1..(Len(b) - 1)
      /\ \A i \in 1..(Len(b) - 1) : SubSeq(b, 1, Len(b) - 1)[i] = b[i]
  BY <1>1
<1> QED
  BY <1>1, <1>2 DEF Front, Last

\* No block is open.
LEMMA ContextInit == Init => ContextInv
<1> SUFFICES ASSUME Init PROVE ContextInv
  OBVIOUS
<1>1. ContextTypes
  <2>1. blocks \in [Strands -> Seq(Blocks)]
    BY DEF Init
  <2> QED
    BY <2>1 DEF Init, ContextTypes
<1>2. \A t \in Strands : blocks[t] = <<>> /\ Own(blocks[t]) = {}
  BY DEF Init, Own
<1>3. BlocksOK
  BY <1>2, TrackingAssumption DEF Init, BlocksOK
<1>4. OwnOK /\ ChainOK
  BY <1>2 DEF Init, OwnOK, ChainOK, Top
<1> QED
  BY <1>1, <1>3, <1>4 DEF ContextInv

\* A step that leaves a strand the same own blocks and all contexts alone.
LEMMA OwnUnchanged ==
  ASSUME ContextInv, NEW t \in started,
         blocks' \in [Strands -> Seq(Blocks)], \A u \in Strands \ {t} : blocks'[u] = blocks[u],
         UNCHANGED <<current, contexts, base, started>>,
         \A i \in DOMAIN blocks'[t] : KindOK(blocks'[t][i]),
         Own(blocks'[t]) = Own(blocks[t]),
         \A i \in Own(blocks[t]) : blocks'[t][i] = blocks[t][i]
  PROVE  ContextInv'
<1> USE DEF ContextInv
<1>1. t \in Strands
  BY DEF ContextTypes
<1>2. ContextTypes'
  BY <1>1 DEF ContextTypes
<1>3. BlocksOK'
  BY DEF BlocksOK
<1>5. \A u \in Strands : /\ Own(blocks[u])' = Own(blocks[u])
                         /\ \A i \in Own(blocks[u]) : blocks'[u][i] = blocks[u][i]
  <2>1. CASE Own(blocks[t])' = Own(blocks[t])
    BY <2>1
  <2>2. Own(blocks[t])' = Own(blocks'[t])
    BY DEF Own
  <2> QED
    BY <2>1, <2>2
<1>6. OwnOK'
  <2>1. ASSUME NEW u \in Strands, NEW i \in Own(blocks[u])'
        PROVE  /\ contexts'[blocks'[u][i].ctx].state = "open"
               /\ contexts'[blocks'[u][i].ctx].task = blocks'[u][i].task
    BY <1>5 DEF OwnOK
  <2>2. ASSUME NEW u \in Strands, NEW v \in Strands,
               NEW i \in Own(blocks[u])', NEW j \in Own(blocks[v])',
               blocks'[u][i].ctx = blocks'[v][j].ctx
        PROVE  u = v /\ i = j
    <3>1. i \in Own(blocks[u]) /\ j \in Own(blocks[v])
      BY <1>5
    <3>2. blocks'[u][i] = blocks[u][i] /\ blocks'[v][j] = blocks[v][j]
      BY <1>5, <3>1
    <3> QED
      BY <2>2, <3>1, <3>2 DEF OwnOK
  <2> QED
    BY <2>1, <2>2 DEF OwnOK
<1>7. \A u \in Strands : \A i \in Own(blocks[u]) : Below(blocks[u], i)' = Below(blocks[u], i)
  BY <1>5 DEF Below
<1>8. ChainOK'
  <2>1. \A u \in Strands : Top(blocks[u], Own(blocks[u]), current[u], base[u].ctx)'
    BY <1>5 DEF ChainOK, Top
  <2>2. ASSUME NEW u \in Strands, NEW i \in Own(blocks[u])
        PROVE  Top(blocks[u], Below(blocks[u], i), contexts[blocks[u][i].ctx].old, base[u].ctx)'
    <3>1. Top(blocks[u], Below(blocks[u], i), contexts[blocks[u][i].ctx].old, base[u].ctx)
      BY DEF ChainOK
    <3>2. Below(blocks[u], i)' = Below(blocks[u], i) /\ blocks'[u][i] = blocks[u][i]
      BY <1>5, <1>7
    <3>3. \A j \in Below(blocks[u], i) : blocks'[u][j] = blocks[u][j]
      BY <1>5 DEF Below
    <3> QED
      BY <3>1, <3>2, <3>3 DEF Top
  <2> QED
    BY <1>5, <2>1, <2>2 DEF ChainOK
<1> QED
  BY <1>2, <1>3, <1>6, <1>8

\* Enter puts a new context on top of those of the strand.
LEMMA Enters ==
  ASSUME ContextInv, NEW t \in started, NEW c \in Contexts, NEW id \in TaskIds \cup {NoTask},
         NEW kind \in {"with", "task"}, Enter(t, c, id), Push(t, Block(kind, c, id)),
         KindOK(Block(kind, c, id)), id \notin IgnoredIds, UNCHANGED <<base, started>>
  PROVE  ContextInv'
<1> USE DEF ContextInv
<1> DEFINE b == blocks[t]
           x == Block(kind, c, id)
           n == Len(b) + 1
<1>1. t \in Strands /\ b \in Seq(Blocks) /\ x \in Blocks
  BY DEF ContextTypes, Block, Blocks
<1>2. /\ Append(b, x) \in Seq(Blocks) /\ Len(b) \in Nat /\ DOMAIN b = 1..Len(b)
      /\ DOMAIN Append(b, x) = 1..n
      /\ \A i \in 1..Len(b) : Append(b, x)[i] = b[i]
      /\ Append(b, x)[n] = x
  BY <1>1, Pushed
<1>3. /\ contexts[c].state = "new"
      /\ contexts' = [contexts EXCEPT ![c] =
                        [state |-> "open", old |-> current[t], task |-> id]]
      /\ current' = [current EXCEPT ![t] = c]
      /\ blocks' = [blocks EXCEPT ![t] = Append(b, x)]
  BY DEF Enter, Push
<1>4. ContextTypes'
  BY <1>1, <1>2, <1>3 DEF ContextTypes
<1>5. /\ blocks'[t] = Append(b, x) /\ \A u \in Strands \ {t} : blocks'[u] = blocks[u]
      /\ current'[t] = c /\ \A u \in Strands \ {t} : current'[u] = current[u]
      /\ contexts'[c] = [state |-> "open", old |-> current[t], task |-> id]
      /\ \A d \in Contexts \ {c} : contexts'[d] = contexts[d]
  BY <1>1, <1>3 DEF ContextTypes
<1>6. BlocksOK'
  <2>1. \A i \in DOMAIN Append(b, x) : KindOK(Append(b, x)[i])
    <3>1. \A i \in 1..n : i = n \/ i \in 1..Len(b)
      BY <1>2
    <3> QED
      BY <1>1, <1>2, <3>1 DEF BlocksOK
  <2> QED
    BY <1>5, <2>1 DEF BlocksOK
<1>7. /\ Own(Append(b, x)) = Own(b) \cup {n} /\ n \notin Own(b) /\ Own(b) \subseteq 1..Len(b)
      /\ \A i \in Own(b) : Append(b, x)[i] = b[i]
  <2>1. c # NoContext /\ x.kind \in {"with", "task"} /\ x.ctx = c
    BY TrackingAssumption DEF Block
  <2>2. \A i \in 1..n : i = n \/ i \in 1..Len(b)
    BY <1>2
  <2> QED
    BY <1>2, <2>1, <2>2 DEF Own
<1>8. \A u \in Strands : \A i \in Own(blocks[u]) :
        blocks[u][i].ctx \in Contexts \ {c} /\ blocks'[u][i] = blocks[u][i]
  <2>1. ASSUME NEW u \in Strands, NEW i \in Own(blocks[u])
        PROVE  blocks[u][i].ctx \in Contexts \ {c}
    <3>1. blocks[u][i].ctx # NoContext /\ blocks[u][i] \in Blocks
      BY DEF Own, ContextTypes
    <3> QED
      BY <1>3, <3>1 DEF OwnOK, Blocks
  <2> QED
    BY <1>5, <1>7, <2>1
<1>9. \A u \in Strands : Own(blocks[u])' = IF u = t THEN Own(blocks[u]) \cup {n}
                                                     ELSE Own(blocks[u])
  BY <1>5, <1>7 DEF Own
<1>10. OwnOK'
  <2>1. x.ctx = c /\ x.task = id /\ blocks'[t][n] = x
    BY <1>2, <1>5 DEF Block
  <2>2. ASSUME NEW u \in Strands, NEW i \in Own(blocks[u])'
        PROVE  /\ contexts'[blocks'[u][i].ctx].state = "open"
               /\ contexts'[blocks'[u][i].ctx].task = blocks'[u][i].task
    <3>1. CASE i \in Own(blocks[u])
      BY <1>5, <1>8, <3>1 DEF OwnOK
    <3>2. CASE u = t /\ i = n
      BY <1>5, <2>1, <3>2
    <3> QED
      BY <1>9, <3>1, <3>2
  <2>3. ASSUME NEW u \in Strands, NEW v \in Strands,
               NEW i \in Own(blocks[u])', NEW j \in Own(blocks[v])',
               blocks'[u][i].ctx = blocks'[v][j].ctx
        PROVE  u = v /\ i = j
    <3>1. CASE i \in Own(blocks[u]) /\ j \in Own(blocks[v])
      BY <1>8, <2>3, <3>1 DEF OwnOK
    <3>2. CASE u = t /\ i = n /\ j \in Own(blocks[v])
      BY <1>8, <2>1, <2>3, <3>2
    <3>3. CASE v = t /\ j = n /\ i \in Own(blocks[u])
      BY <1>8, <2>1, <2>3, <3>3, ZenonT(30)
    <3>4. CASE u = t /\ i = n /\ v = t /\ j = n
      BY <3>4
    <3> QED
      BY <1>9, <3>1, <3>2, <3>3, <3>4
  <2> QED
    BY <2>2, <2>3 DEF OwnOK
<1>11. \A u \in Strands : \A i \in Own(blocks[u]) : Below(blocks[u], i)' = Below(blocks[u], i)
  <2>1. \A i \in Own(b) : ~(n < i)
    BY <1>2, <1>7
  <2>2. \A i \in Own(b) : Below(blocks[t], i)' = Below(b, i)
    <3>1. Own(blocks[t])' = Own(b) \cup {n}
      BY <1>1, <1>9
    <3> QED
      BY <2>1, <3>1 DEF Below
  <2>3. ASSUME NEW u \in Strands \ {t}, NEW i
        PROVE  Below(blocks[u], i)' = Below(blocks[u], i)
    <3>1. Own(blocks[u])' = Own(blocks[u])
      BY <1>9
    <3> QED
      BY <3>1 DEF Below
  <2> QED
    BY <2>2, <2>3
<1>12. Below(blocks'[t], n) = Own(b)
  <2>1. \A i \in Own(b) : i < n
    BY <1>2, <1>7
  <2>2. ~(n < n)
    BY <1>2
  <2>3. Own(blocks[t])' = Own(b) \cup {n}
    BY <1>1, <1>9
  <2> QED
    BY <2>1, <2>2, <2>3 DEF Below
<1>13. \A u \in Strands : Top(blocks[u], Own(blocks[u]), current[u], base[u].ctx)'
  <2>1. Top(blocks[t], Own(blocks[t]), current[t], base[t].ctx)'
    <3>1. /\ n \in Own(blocks[t])' /\ blocks'[t][n].ctx = c
          /\ \A k \in Own(blocks[t])' : k <= n
      BY <1>1, <1>2, <1>5, <1>7, <1>9 DEF Block
    <3> QED
      BY <1>5, <3>1 DEF Top
  <2>2. ASSUME NEW u \in Strands, u # t
        PROVE  Top(blocks[u], Own(blocks[u]), current[u], base[u].ctx)'
    BY <1>5, <1>8, <1>9, <2>2 DEF ChainOK, Top
  <2> QED
    BY <2>1, <2>2
<1>14. ASSUME NEW u \in Strands, NEW i \in Own(blocks[u])'
       PROVE  Top(blocks[u], Below(blocks[u], i), contexts[blocks[u][i].ctx].old, base[u].ctx)'
  <2>1. CASE i \in Own(blocks[u])
    <3>1. Top(blocks[u], Below(blocks[u], i), contexts[blocks[u][i].ctx].old, base[u].ctx)
      BY <2>1 DEF ChainOK
    <3>2. /\ Below(blocks[u], i)' = Below(blocks[u], i) /\ blocks'[u][i] = blocks[u][i]
          /\ contexts'[blocks[u][i].ctx] = contexts[blocks[u][i].ctx]
      BY <1>5, <1>8, <1>11, <2>1
    <3>3. \A j \in Below(blocks[u], i) : blocks'[u][j] = blocks[u][j]
      BY <1>8 DEF Below
    <3> QED
      BY <3>1, <3>2, <3>3 DEF Top
  <2>2. CASE u = t /\ i = n
    <3>1. contexts'[blocks'[t][n].ctx].old = current[t]
      BY <1>2, <1>5 DEF Block
    <3>2. Top(b, Own(b), current[t], base[t].ctx)
      BY <1>1 DEF ChainOK
    <3>3. \A j \in Own(b) : blocks'[t][j] = b[j]
      BY <1>1, <1>8
    <3>4. Top(blocks'[t], Below(blocks'[t], n), contexts'[blocks'[t][n].ctx].old, base'[t].ctx)
      BY <1>12, <3>1, <3>2, <3>3 DEF Top
    <3> QED
      BY <2>2, <3>4
  <2> QED
    BY <1>9, <2>1, <2>2
<1>15. ChainOK'
  BY <1>13, <1>14 DEF ChainOK
<1> QED
  BY <1>4, <1>6, <1>10, <1>15

\* Exit of the context of the last block uncovers what its token remembers.
LEMMA Exits ==
  ASSUME ContextInv, NEW t \in started, blocks[t] # <<>>,
         Len(blocks[t]) \in Own(blocks[t]), Exit(t, Last(blocks[t]).ctx), Pop(t),
         UNCHANGED <<base, started>>
  PROVE  ContextInv'
<1> USE DEF ContextInv
<1> DEFINE b == blocks[t]
           n == Len(b)
           c == b[n].ctx
<1>1. t \in Strands /\ b \in Seq(Blocks)
  BY DEF ContextTypes
<1>2. /\ Front(b) \in Seq(Blocks) /\ n \in Nat \ {0} /\ DOMAIN b = 1..n
      /\ DOMAIN Front(b) = 1..(n - 1)
      /\ \A i \in 1..(n - 1) : Front(b)[i] = b[i]
      /\ Last(b) = b[n] /\ Last(b) \in Blocks
  BY <1>1, Popped
<1>3. c \in Contexts
  BY <1>2 DEF Own, Blocks
<1>4. /\ contexts' = [contexts EXCEPT ![c].state = "closed", ![c].old = NoContext]
      /\ current' = [current EXCEPT ![t] = contexts[c].old]
      /\ blocks' = [blocks EXCEPT ![t] = Front(b)]
  BY <1>2 DEF Exit, Pop
<1>5. /\ blocks'[t] = Front(b) /\ \A u \in Strands \ {t} : blocks'[u] = blocks[u]
      /\ current'[t] = contexts[c].old /\ \A u \in Strands \ {t} : current'[u] = current[u]
      /\ contexts'[c] = [contexts[c] EXCEPT !.state = "closed", !.old = NoContext]
      /\ \A d \in Contexts \ {c} : contexts'[d] = contexts[d]
  BY <1>1, <1>3, <1>4 DEF ContextTypes
<1>6. ContextTypes'
  BY <1>1, <1>2, <1>3, <1>4, ZenonT(30) DEF ContextTypes
<1>7. BlocksOK'
  <2>1. contexts'[c].task = contexts[c].task
    BY <1>3, <1>5 DEF ContextTypes
  <2>2. \A i \in DOMAIN Front(b) : KindOK(Front(b)[i])
    BY <1>1, <1>2 DEF BlocksOK
  <2> QED
    BY <1>5, <2>1, <2>2 DEF BlocksOK
<1>8. /\ Own(Front(b)) = Own(b) \ {n} /\ Own(b) \subseteq 1..n
      /\ \A i \in Own(b) \ {n} : Front(b)[i] = b[i]
  <2>1. \A i \in 1..n : i = n \/ i \in 1..(n - 1)
    BY <1>2
  <2>2. n \notin 1..(n - 1) /\ 1..(n - 1) \subseteq 1..n
    BY <1>2
  <2> QED
    BY <1>2, <2>1, <2>2 DEF Own
<1>9. \A u \in Strands : Own(blocks[u])' = IF u = t THEN Own(blocks[u]) \ {n}
                                                     ELSE Own(blocks[u])
  BY <1>5, <1>8 DEF Own
<1>10. \A u \in Strands : \A i \in Own(blocks[u])' :
         /\ i \in Own(blocks[u]) /\ blocks'[u][i] = blocks[u][i]
         /\ blocks[u][i].ctx \in Contexts \ {c}
  <2>1. ASSUME NEW u \in Strands, NEW i \in Own(blocks[u])'
        PROVE  /\ i \in Own(blocks[u]) /\ blocks'[u][i] = blocks[u][i]
    BY <1>5, <1>8, <1>9
  <2>2. ASSUME NEW u \in Strands, NEW i \in Own(blocks[u])'
        PROVE  blocks[u][i].ctx \in Contexts \ {c}
    <3>1. blocks[u][i].ctx # NoContext /\ blocks[u][i] \in Blocks
      BY <2>1 DEF Own, ContextTypes
    <3>2. ~(u = t /\ i = n)
      BY <1>9
    <3> QED
      BY <1>1, <2>1, <3>1, <3>2 DEF OwnOK, Blocks
  <2> QED
    BY <2>1, <2>2
<1>11. OwnOK'
  <2>1. ASSUME NEW u \in Strands, NEW i \in Own(blocks[u])'
        PROVE  /\ contexts'[blocks'[u][i].ctx].state = "open"
               /\ contexts'[blocks'[u][i].ctx].task = blocks'[u][i].task
    BY <1>5, <1>10 DEF OwnOK
  <2>2. ASSUME NEW u \in Strands, NEW v \in Strands,
               NEW i \in Own(blocks[u])', NEW j \in Own(blocks[v])',
               blocks'[u][i].ctx = blocks'[v][j].ctx
        PROVE  u = v /\ i = j
    BY <1>10, <2>2 DEF OwnOK
  <2> QED
    BY <2>1, <2>2 DEF OwnOK
<1>12. \A u \in Strands : \A i \in Own(blocks[u])' : Below(blocks[u], i)' = Below(blocks[u], i)
  <2>1. \A i \in Own(b) : ~(n < i)
    BY <1>2, <1>8
  <2>2. \A i \in Own(b) \ {n} : Below(blocks[t], i)' = Below(b, i)
    <3>1. Own(blocks[t])' = Own(b) \ {n}
      BY <1>1, <1>9
    <3> QED
      BY <2>1, <3>1 DEF Below
  <2>3. ASSUME NEW u \in Strands \ {t}, NEW i
        PROVE  Below(blocks[u], i)' = Below(blocks[u], i)
    <3>1. Own(blocks[u])' = Own(blocks[u])
      BY <1>9
    <3> QED
      BY <3>1 DEF Below
  <2> QED
    BY <1>1, <1>9, <2>2, <2>3
<1>13. Below(b, n) = Own(b) \ {n}
  <2>1. \A i \in Own(b) \ {n} : i < n
    BY <1>2, <1>8
  <2>2. ~(n < n)
    BY <1>2
  <2> QED
    BY <2>1, <2>2 DEF Below
<1>14. \A u \in Strands : Top(blocks[u], Own(blocks[u]), current[u], base[u].ctx)'
  <2>1. Top(blocks[t], Own(blocks[t]), current[t], base[t].ctx)'
    <3>1. Top(b, Own(b) \ {n}, contexts[c].old, base[t].ctx)
      BY <1>1, <1>13 DEF ChainOK
    <3>2. Own(blocks[t])' = Own(b) \ {n} /\ \A i \in Own(b) \ {n} : blocks'[t][i] = b[i]
      BY <1>1, <1>5, <1>8, <1>9
    <3> QED
      BY <1>5, <3>1, <3>2 DEF Top
  <2>2. ASSUME NEW u \in Strands, u # t
        PROVE  Top(blocks[u], Own(blocks[u]), current[u], base[u].ctx)'
    BY <1>5, <1>9, <2>2 DEF ChainOK, Top
  <2> QED
    BY <2>1, <2>2
<1>15. ASSUME NEW u \in Strands, NEW i \in Own(blocks[u])'
       PROVE  Top(blocks[u], Below(blocks[u], i), contexts[blocks[u][i].ctx].old, base[u].ctx)'
  <2>1. Top(blocks[u], Below(blocks[u], i), contexts[blocks[u][i].ctx].old, base[u].ctx)
    BY <1>10 DEF ChainOK
  <2>2. /\ Below(blocks[u], i)' = Below(blocks[u], i) /\ blocks'[u][i] = blocks[u][i]
        /\ contexts'[blocks[u][i].ctx] = contexts[blocks[u][i].ctx]
    BY <1>5, <1>10, <1>12
  <2>3. \A j \in Below(blocks[u], i) : blocks'[u][j] = blocks[u][j]
    <3>1. Below(blocks[u], i) \subseteq Own(blocks[u])'
      BY <2>2 DEF Below
    <3> QED
      BY <1>10, <3>1
  <2> QED
    BY <2>1, <2>2, <2>3 DEF Top
<1>16. ChainOK'
  BY <1>14, <1>15 DEF ChainOK
<1> QED
  BY <1>6, <1>7, <1>11, <1>16

\* A copy of another strand's variables is the default of a chain without a link.
LEMMA CopiesContext ==
  ASSUME ContextInv, NEW t \in Strands, StartStrand(t)
  PROVE  ContextInv'
<1> USE DEF ContextInv
<1>1. t \notin started /\ started' = started \cup {t} /\ UNCHANGED <<blocks, contexts>>
  BY DEF StartStrand
<1>2. \/ UNCHANGED <<current, base>>
      \/ \E u \in started :
           /\ current' = [current EXCEPT ![t] = current[u]]
           /\ base' = [base EXCEPT ![t] = [ctx |-> current[u], query |-> orm[u]]]
  BY DEF StartStrand
<1>3. /\ current \in [Strands -> Contexts \cup {NoContext}]
      /\ DOMAIN base = Strands /\ started \subseteq Strands
      /\ blocks[t] = <<>> /\ Own(blocks[t]) = {}
  BY <1>1 DEF ContextTypes, Own
<1>4. current[t] = base[t].ctx
  BY <1>3 DEF ChainOK, Top
<1>5. /\ current' \in [Strands -> Contexts \cup {NoContext}] /\ DOMAIN base' = Strands
      /\ current'[t] = base'[t].ctx
      /\ \A u \in Strands \ {t} : current'[u] = current[u] /\ base'[u] = base[u]
  <2>1. CASE UNCHANGED <<current, base>>
    BY <1>3, <1>4, <2>1
  <2>2. ASSUME NEW u \in started,
               current' = [current EXCEPT ![t] = current[u]],
               base' = [base EXCEPT ![t] = [ctx |-> current[u], query |-> orm[u]]]
        PROVE  <1>5!:
    BY <1>3, <2>2
  <2> QED
    BY <1>2, <2>1, <2>2
<1>6. ContextTypes'
  BY <1>1, <1>5 DEF ContextTypes
<1>7. BlocksOK' /\ OwnOK'
  BY <1>1 DEF BlocksOK, OwnOK, Own
<1>8. ChainOK'
  <2>1. Top(blocks[t], Own(blocks[t]), current[t], base[t].ctx)'
    BY <1>1, <1>3, <1>5 DEF Top, Own
  <2>2. \A u \in Strands : /\ Own(blocks[u])' = Own(blocks[u])
                           /\ \A i \in Own(blocks[u]) : Below(blocks[u], i)' = Below(blocks[u], i)
    BY <1>1 DEF Own, Below
  <2>3. ASSUME NEW u \in Strands \ {t}
        PROVE  /\ Top(blocks[u], Own(blocks[u]), current[u], base[u].ctx)'
               /\ \A i \in Own(blocks[u])' :
                    Top(blocks'[u], Below(blocks'[u], i), contexts'[blocks'[u][i].ctx].old,
                        base'[u].ctx)
    BY <1>1, <1>5, <2>2 DEF ChainOK
  <2> QED
    BY <1>1, <1>3, <2>1, <2>2, <2>3 DEF ChainOK
<1> QED
  BY <1>6, <1>7, <1>8

\* Pushing a block without a context of its own, popping one, and marking one.
LEMMA OtherBlocks ==
  ASSUME ContextInv, NEW t \in started, UNCHANGED <<current, contexts, base, started>>,
         \/ /\ \E x \in Blocks : /\ KindOK(x) /\ Push(t, x)
                                 /\ ~(x.kind \in {"with", "task"} /\ x.ctx # NoContext)
         \/ blocks[t] # <<>> /\ Len(blocks[t]) \notin Own(blocks[t]) /\ Pop(t)
         \/ MarkRender(t)
  PROVE  ContextInv'
<1> USE DEF ContextInv
<1> DEFINE b == blocks[t]
           n == Len(b)
<1>1. t \in Strands /\ b \in Seq(Blocks)
  BY DEF ContextTypes
<1>2. \A i \in DOMAIN b : KindOK(b[i])
  BY <1>1 DEF BlocksOK
<1>3. ASSUME NEW x \in Blocks, KindOK(x), Push(t, x),
             ~(x.kind \in {"with", "task"} /\ x.ctx # NoContext)
      PROVE  ContextInv'
  <2>1. /\ Append(b, x) \in Seq(Blocks) /\ n \in Nat /\ DOMAIN b = 1..n
        /\ DOMAIN Append(b, x) = 1..(n + 1)
        /\ \A i \in 1..n : Append(b, x)[i] = b[i]
        /\ Append(b, x)[n + 1] = x
    BY <1>1, Pushed
  <2>2. \A i \in 1..(n + 1) : i = n + 1 \/ i \in 1..n
    BY <2>1
  <2>3. /\ \A i \in DOMAIN Append(b, x) : KindOK(Append(b, x)[i])
    BY <1>2, <1>3, <2>1, <2>2
  <2>4. Own(Append(b, x)) = Own(b) /\ \A i \in Own(b) : Append(b, x)[i] = b[i]
    <3>1. \A i \in 1..n : i \in 1..(n + 1)
      BY <2>1
    <3> QED
      BY <1>3, <2>1, <2>2, <3>1 DEF Own
  <2>5. /\ blocks' \in [Strands -> Seq(Blocks)] /\ blocks'[t] = Append(b, x)
        /\ \A u \in Strands \ {t} : blocks'[u] = blocks[u]
    BY <1>1, <1>3, <2>1 DEF Push, ContextTypes
  <2> QED
    BY <2>3, <2>4, <2>5, OwnUnchanged
<1>4. CASE b # <<>> /\ n \notin Own(b) /\ Pop(t)
  <2>1. /\ Front(b) \in Seq(Blocks) /\ n \in Nat \ {0} /\ DOMAIN b = 1..n
        /\ DOMAIN Front(b) = 1..(n - 1)
        /\ \A i \in 1..(n - 1) : Front(b)[i] = b[i]
    BY <1>1, <1>4, Popped
  <2>2. /\ \A i \in 1..n : i = n \/ i \in 1..(n - 1)
        /\ \A i \in 1..(n - 1) : i \in 1..n
    BY <2>1
  <2>3. \A i \in DOMAIN Front(b) : KindOK(Front(b)[i])
    BY <1>2, <2>1, <2>2
  <2>4. Own(Front(b)) = Own(b) /\ \A i \in Own(b) : Front(b)[i] = b[i]
    BY <1>4, <2>1, <2>2 DEF Own
  <2>5. /\ blocks' \in [Strands -> Seq(Blocks)] /\ blocks'[t] = Front(b)
        /\ \A u \in Strands \ {t} : blocks'[u] = blocks[u]
    BY <1>1, <1>4, <2>1 DEF Pop, ContextTypes
  <2> QED
    BY <2>3, <2>4, <2>5, OwnUnchanged
<1>5. CASE MarkRender(t)
  <2> DEFINE x == [Last(b) EXCEPT !.kind = "render"]
             d == Append(Front(b), x)
  <2>1. b # <<>> /\ Last(b).kind = "unmarked" /\ blocks' = [blocks EXCEPT ![t] = d]
    BY <1>1, <1>5 DEF MarkRender, IsOpen, ContextTypes
  <2>2. /\ Front(b) \in Seq(Blocks) /\ n \in Nat \ {0} /\ DOMAIN b = 1..n
        /\ DOMAIN Front(b) = 1..(n - 1)
        /\ \A i \in 1..(n - 1) : Front(b)[i] = b[i]
        /\ Last(b) = b[n] /\ Last(b) \in Blocks
    BY <1>1, <2>1, Popped
  <2>3. x \in Blocks /\ x.kind = "render" /\ Len(Front(b)) = n - 1
    BY <2>2 DEF Blocks
  <2>4. /\ d \in Seq(Blocks) /\ DOMAIN d = 1..n /\ d[n] = x
        /\ \A i \in 1..(n - 1) : d[i] = b[i]
    <3>1. (n - 1) + 1 = n
      BY <2>2
    <3> QED
      BY <2>2, <2>3, <3>1, Pushed
  <2>5. \A i \in 1..n : i = n \/ i \in 1..(n - 1)
    BY <2>2
  <2>6. \A i \in DOMAIN d : KindOK(d[i])
    BY <1>2, <2>2, <2>3, <2>4, <2>5 DEF KindOK
  <2>7. Own(d) = Own(b) /\ \A i \in Own(b) : d[i] = b[i]
    BY <2>1, <2>2, <2>3, <2>4, <2>5 DEF Own
  <2>8. /\ blocks' \in [Strands -> Seq(Blocks)] /\ blocks'[t] = d
        /\ \A u \in Strands \ {t} : blocks'[u] = blocks[u]
    BY <1>1, <2>1, <2>4 DEF ContextTypes
  <2> QED
    BY <2>6, <2>7, <2>8, OwnUnchanged
<1> QED
  BY <1>3, <1>4, <1>5

\* task_postrun ends the context of its own task, which is the innermost, or none.
LEMMA PostRunExits ==
  ASSUME ContextInv, NEW t \in Strands, PostRun(t)
  PROVE  ContextInv'
<1> USE DEF ContextInv
<1> DEFINE b == blocks[t]
           n == Len(b)
<1>1. t \in started /\ b \in Seq(Blocks) /\ b # <<>> /\ Last(b).kind = "task" /\ Pop(t)
      /\ UNCHANGED <<base, started>>
  BY DEF PostRun, IsOpen, ContextTypes, strandVars
<1>2. n \in Nat \ {0} /\ DOMAIN b = 1..n /\ Last(b) = b[n] /\ Last(b) \in Blocks
  BY <1>1, Popped
<1>3. KindOK(b[n])
  BY <1>2 DEF BlocksOK
<1>4. Top(b, Own(b), current[t], base[t].ctx)
  BY DEF ChainOK
<1>5. CASE n \in Own(b)
  <2>1. current[t] = b[n].ctx
    <3>1. PICK j \in Own(b) : current[t] = b[j].ctx /\ \A k \in Own(b) : k <= j
      BY <1>4, <1>5 DEF Top
    <3>2. j = n
      BY <1>2, <1>5, <3>1 DEF Own
    <3> QED
      BY <3>1, <3>2
  <2>2. current[t] # NoContext /\ contexts[current[t]].task = Last(b).task
    BY <1>2, <1>5, <2>1 DEF Own, OwnOK
  <2>3. Exit(t, Last(b).ctx)
    BY <1>2, <2>1, <2>2 DEF PostRun
  <2> QED
    BY <1>1, <1>5, <2>3, Exits
<1>6. CASE n \notin Own(b)
  <2>1. Last(b).task \in IgnoredIds
    BY <1>1, <1>2, <1>3, <1>6 DEF Own, KindOK
  <2>2. current[t] # NoContext => contexts[current[t]].task # Last(b).task
    BY <2>1 DEF BlocksOK, ContextTypes
  <2>3. UNCHANGED <<contexts, current>>
    BY <2>2 DEF PostRun
  <2> QED
    BY <1>1, <1>6, <2>3, OtherBlocks
<1> QED
  BY <1>5, <1>6

\* Every step preserves ContextInv.
LEMMA ContextNext == ContextInv /\ [Next]_trackingVars => ContextInv'
<1> SUFFICES ASSUME ContextInv, [Next]_trackingVars PROVE ContextInv'
  OBVIOUS
<1> USE DEF ContextInv
<1>1. ASSUME UNCHANGED <<current, contexts, blocks, base, started>> PROVE ContextInv'
  BY <1>1 DEF ContextTypes, BlocksOK, OwnOK, ChainOK, Own, Below, Top
<1>2. ASSUME NEW t \in Strands, EnterWith(t) PROVE ContextInv'
  <2>1. PICK c \in Contexts : Enter(t, c, NoTask) /\ Push(t, Block("with", c, NoTask))
    BY <1>2 DEF EnterWith
  <2>2. NoTask \notin IgnoredIds /\ KindOK(Block("with", c, NoTask))
    BY TrackingAssumption DEF KindOK, Block
  <2> QED
    BY <1>2, <2>1, <2>2, Enters DEF EnterWith, CanOpen, strandVars
<1>3. ASSUME NEW t \in Strands, ExitWith(t) PROVE ContextInv'
  <2> DEFINE b == blocks[t]
  <2>1. t \in started /\ b \in Seq(Blocks) /\ b # <<>> /\ Last(b).kind = "with"
    BY <1>3 DEF ExitWith, IsOpen, ContextTypes
  <2>2. Len(b) \in DOMAIN b /\ Last(b) = b[Len(b)]
    <3>1. Len(b) \in Nat \ {0} /\ DOMAIN b = 1..Len(b) /\ Last(b) = b[Len(b)]
      BY <2>1, Popped
    <3> QED
      BY <3>1
  <2>3. Len(b) \in Own(b)
    <3>1. Last(b).ctx # NoContext
      BY <2>1, <2>2, TrackingAssumption DEF BlocksOK, KindOK
    <3> QED
      BY <2>1, <2>2, <3>1 DEF Own
  <2> QED
    BY <1>3, <2>1, <2>3, Exits DEF ExitWith, strandVars
<1>4. ASSUME NEW t \in Strands, PreRun(t) PROVE ContextInv'
  <2>1. t \in started /\ UNCHANGED <<base, started>>
    BY <1>4 DEF PreRun, CanOpen, strandVars
  <2>2. ASSUME NEW id \in TaskIds \ IgnoredIds, NEW c \in Contexts,
               Enter(t, c, id), Push(t, Block("task", c, id))
        PROVE  ContextInv'
    <3>1. KindOK(Block("task", c, id))
      BY <2>2, TrackingAssumption DEF KindOK, Block
    <3> QED
      BY <2>1, <2>2, <3>1, Enters
  <2>3. ASSUME NEW id \in IgnoredIds, Push(t, Block("task", NoContext, id)),
               UNCHANGED <<contexts, current>>
        PROVE  ContextInv'
    <3> DEFINE x == Block("task", NoContext, id)
    <3>1. x \in Blocks /\ KindOK(x) /\ x.ctx = NoContext
      BY <2>3, TrackingAssumption DEF KindOK, Block, Blocks
    <3> HIDE DEF x
    <3>2. \E y \in Blocks : /\ KindOK(y) /\ Push(t, y)
                            /\ ~(y.kind \in {"with", "task"} /\ y.ctx # NoContext)
      BY <2>3, <3>1 DEF x
    <3> QED
      BY <2>1, <2>3, <3>2, OtherBlocks
  <2> QED
    BY <1>4, <2>2, <2>3 DEF PreRun
<1>5. ASSUME NEW t \in Strands, BeginRender(t) PROVE ContextInv'
  <2> DEFINE x == Block(IF current[t] = NoContext \/ current[t] \in marked
                        THEN "nested" ELSE "unmarked", current[t], NoTask)
  <2>1. t \in started /\ Push(t, x) /\ UNCHANGED <<current, contexts, base, started>>
    BY <1>5 DEF BeginRender, CanOpen, strandVars
  <2>2. x \in Blocks /\ x.kind \in {"nested", "unmarked"}
    BY DEF Block, Blocks, ContextTypes
  <2>3. KindOK(x)
    BY <2>2 DEF KindOK
  <2> HIDE DEF x
  <2>4. x.kind \notin {"with", "task"}
    BY <2>2
  <2> QED
    BY <2>1, <2>2, <2>3, <2>4, OtherBlocks
<1>6. ASSUME NEW t \in Strands, EndRender(t) \/ EndNested(t) \/ RenderRaises(t)
      PROVE  ContextInv'
  <2> DEFINE b == blocks[t]
  <2>1. /\ b \in Seq(Blocks) /\ b # <<>> /\ Last(b).kind \in {"render", "nested"}
        /\ t \in started /\ Pop(t) /\ UNCHANGED <<current, contexts, base, started>>
    BY <1>6 DEF EndRender, EndNested, RenderRaises, IsOpen, ContextTypes, strandVars
  <2>2. Last(b) = b[Len(b)]
    BY <2>1, Popped
  <2>3. Len(b) \notin Own(b)
    BY <2>1, <2>2 DEF Own
  <2> QED
    BY <2>1, <2>3, OtherBlocks
<1>7. ASSUME NEW t \in Strands, MarkRender(t) PROVE ContextInv'
  <2>1. t \in started /\ UNCHANGED <<current, contexts, base, started>>
    BY <1>7 DEF MarkRender, IsOpen, ContextTypes, strandVars
  <2> QED
    BY <1>7, <2>1, OtherBlocks
<1>8. ASSUME NEW t \in Strands, StartQuery(t) \/ FinishQuery(t) \/ FinishElsewhere(t)
      PROVE  UNCHANGED <<current, contexts, blocks, base, started>>
  BY <1>8 DEF StartQuery, FinishQuery, FinishElsewhere, contextVars, strandVars
<1>9. CASE UNCHANGED trackingVars
  BY <1>1, <1>9 DEF trackingVars, contextVars, strandVars
<1>10. CASE Next
  BY <1>1, <1>2, <1>3, <1>4, <1>5, <1>6, <1>7, <1>8, <1>10, CopiesContext, PostRunExits DEF Next
<1> QED
  BY <1>9, <1>10

\* QueryContext and the Celery signals: what a strand executes is attributed to the
\* innermost context its code is in, for any number of strands, contexts and tasks.
THEOREM Innermosts == Spec => []CurrentIsInnermost
<1>1. ContextInv => CurrentIsInnermost
  <2> SUFFICES ASSUME ContextInv, NEW t \in Strands PROVE current[t] = Innermost(t)
    BY DEF CurrentIsInnermost
  <2> DEFINE b == blocks[t]
  <2>1. Top(b, Own(b), current[t], base[t].ctx)
    BY DEF ContextInv, ChainOK
  <2>2. CASE Own(b) = {}
    BY <2>1, <2>2 DEF Top, Own, Innermost
  <2>3. CASE Own(b) # {}
    <3>1. PICK j \in Own(b) : current[t] = b[j].ctx /\ \A k \in Own(b) : k <= j
      BY <2>1, <2>3 DEF Top
    <3>2. \A k \in Own(b) : k \in Nat
      BY DEF Own, ContextInv, ContextTypes
    <3>3. Max(Own(b)) = j
      <4>1. \A k \in Own(b) : (\A i \in Own(b) : k >= i) => k = j
        BY <3>1, <3>2
      <4>2. \A i \in Own(b) : j >= i
        BY <3>1, <3>2
      <4> QED
        BY <4>1, <4>2 DEF Max
    <3> QED
      BY <2>3, <3>1, <3>3 DEF Innermost, Own
  <2> QED
    BY <2>2, <2>3
<1> QED
  BY <1>1, ContextInit, ContextNext, PTL DEF Spec

-----------------------------------------------------------------------------
(* Renders                                                                  *)

Rendering(block) == block.kind \in {"unmarked", "render"}

\* A render is in a block of its context, unless the strand shares the context.
NearOK ==
  \A t \in Strands : \A i \in DOMAIN blocks[t] :
    Rendering(blocks[t][i]) =>
      /\ blocks[t][i].ctx \in Contexts
      /\ \/ blocks[t][i].ctx \in shared
         \/ \E j \in Below(blocks[t], i) : blocks[t][j].ctx = blocks[t][i].ctx

\* A context that is not shared is marked if and only if a render has marked it.
MarkOK ==
  \A c \in Contexts \ shared :
    c \in marked <=> \E t \in Strands : \E i \in DOMAIN blocks[t] :
                       blocks[t][i].kind = "render" /\ blocks[t][i].ctx = c

\* Above a render of a context there is no other that has marked it or will.
OnceOK ==
  \A t \in Strands : \A i, j \in DOMAIN blocks[t] :
    /\ i < j /\ blocks[t][i].kind = "render" /\ Rendering(blocks[t][j])
    /\ blocks[t][i].ctx = blocks[t][j].ctx
    => blocks[t][i].ctx \in shared

RenderInv ==
  /\ \A t \in Strands : Len(blocks[t]) <= MaxNesting /\ base[t].ctx \in shared \cup {NoContext}
  /\ NearOK /\ MarkOK /\ OnceOK

\* Nothing is rendered.
LEMMA RenderInit == Init => RenderInv
<1> SUFFICES ASSUME Init PROVE RenderInv
  OBVIOUS
<1>1. \A t \in Strands : blocks[t] = <<>> /\ Len(blocks[t]) = 0 /\ DOMAIN blocks[t] = {}
  BY DEF Init
<1>2. \A t \in Strands : base[t].ctx = NoContext
  BY DEF Init
<1>3. 0 <= MaxNesting
  BY TrackingAssumption
<1> QED
  BY <1>1, <1>2, <1>3 DEF Init, RenderInv, NearOK, MarkOK, OnceOK

\* A block that is pushed is not marked yet, and when it will be, no other is.
LEMMA RenderPushed ==
  ASSUME ContextInv, RenderInv, NEW t \in started, NEW x \in Blocks, Push(t, x),
         Len(blocks[t]) < MaxNesting, UNCHANGED <<marked, shared, base>>, x.kind # "render",
         x.kind = "unmarked" =>
           /\ x.ctx \in Contexts \ marked
           /\ x.ctx \in shared \/ \E j \in Own(blocks[t]) : blocks[t][j].ctx = x.ctx
  PROVE  RenderInv'
<1> DEFINE b == blocks[t]
           d == blocks'[t]
           n == Len(b)
<1>1. t \in Strands /\ b \in Seq(Blocks)
  BY DEF ContextInv, ContextTypes
<1>2. /\ d = Append(b, x) /\ \A u \in Strands \ {t} : blocks'[u] = blocks[u]
      /\ d \in Seq(Blocks) /\ n \in Nat /\ DOMAIN b = 1..n /\ DOMAIN d = 1..(n + 1)
      /\ d[n + 1] = x /\ \A i \in 1..n : d[i] = b[i]
  BY <1>1, Pushed DEF Push, ContextInv, ContextTypes
<1>3. /\ \A i \in 1..(n + 1) : i = n + 1 \/ i \in 1..n
      /\ \A i \in 1..n : i \in 1..(n + 1) /\ i < n + 1 /\ ~(n + 1 < i)
      /\ ~(n + 1 < n + 1)
  BY <1>2
<1>4. /\ \A j \in Own(b) : j \in Own(d) /\ j < n + 1 /\ d[j] = b[j]
      /\ \A i \in 1..n : \A j \in Below(b, i) : j \in Below(d, i) /\ d[j] = b[j]
  BY <1>2, <1>3 DEF Own, Below
<1>5. Len(d) <= MaxNesting
  <2>1. Len(d) = n + 1
    BY <1>2
  <2> QED
    BY <1>2, <2>1, TrackingAssumption
<1>6. NearOK'
  <2>1. ASSUME NEW i \in 1..n, Rendering(d[i])
        PROVE  /\ d[i].ctx \in Contexts
               /\ d[i].ctx \in shared \/ \E j \in Below(d, i) : d[j].ctx = d[i].ctx
    <3>1. i \in 1..n /\ b[i] = d[i] /\ Rendering(b[i])
      BY <1>2, <1>3, <2>1
    <3>2. /\ b[i].ctx \in Contexts
          /\ b[i].ctx \in shared \/ \E j \in Below(b, i) : b[j].ctx = b[i].ctx
      BY <1>1, <1>2, <3>1 DEF RenderInv, NearOK
    <3> QED
      BY <1>2, <1>4, <2>1, <3>1, <3>2
  <2>2. ASSUME Rendering(x)
        PROVE  /\ x.ctx \in Contexts
               /\ x.ctx \in shared \/ \E j \in Below(d, n + 1) : d[j].ctx = x.ctx
    BY <1>4, <2>2 DEF Rendering, Below
  <2>3. ASSUME NEW i \in DOMAIN d, Rendering(d[i])
        PROVE  /\ d[i].ctx \in Contexts
               /\ d[i].ctx \in shared \/ \E j \in Below(d, i) : d[j].ctx = d[i].ctx
    BY <1>2, <1>3, <2>1, <2>2, <2>3
  <2>4. ASSUME NEW u \in Strands \ {t}, NEW i \in DOMAIN blocks'[u], Rendering(blocks'[u][i])
        PROVE  /\ blocks'[u][i].ctx \in Contexts
               /\ \/ blocks'[u][i].ctx \in shared
                  \/ \E j \in Below(blocks'[u], i) : blocks'[u][j].ctx = blocks'[u][i].ctx
    BY <1>2, <2>4 DEF RenderInv, NearOK
  <2> QED
    BY <2>3, <2>4 DEF NearOK, Rendering, Below, Own
<1>7. MarkOK'
  <2>1. ASSUME NEW u \in Strands, NEW c
        PROVE  (\E i \in DOMAIN blocks'[u] : blocks'[u][i].kind = "render" /\ blocks'[u][i].ctx = c)
               <=> \E i \in DOMAIN blocks[u] : blocks[u][i].kind = "render" /\ blocks[u][i].ctx = c
    <3>1. CASE u = t
      BY <1>2, <1>3, <3>1
    <3>2. CASE u # t
      BY <1>2, <3>2
    <3> QED
      BY <3>1, <3>2
  <2>2. ASSUME NEW c \in Contexts \ shared
        PROVE  c \in marked' <=> \E u \in Strands : \E i \in DOMAIN blocks'[u] :
                                   blocks'[u][i].kind = "render" /\ blocks'[u][i].ctx = c
    <3>1. c \in marked <=> \E u \in Strands : \E i \in DOMAIN blocks[u] :
                             blocks[u][i].kind = "render" /\ blocks[u][i].ctx = c
      BY DEF RenderInv, MarkOK
    <3> QED
      BY <2>1, <3>1
  <2> QED
    BY <2>2 DEF MarkOK
<1>8. OnceOK'
  <2>1. ASSUME NEW i \in DOMAIN d, NEW j \in DOMAIN d, i < j,
               d[i].kind = "render", Rendering(d[j]), d[i].ctx = d[j].ctx
        PROVE  d[i].ctx \in shared
    <3>1. i \in 1..n
      BY <1>2, <1>3, <2>1
    <3>2. CASE j \in 1..n
      BY <1>1, <1>2, <2>1, <3>1, <3>2 DEF RenderInv, OnceOK
    <3>3. CASE j = n + 1
      <4>1. x.kind = "unmarked" /\ b[i].kind = "render" /\ b[i].ctx = x.ctx
        BY <1>2, <2>1, <3>1, <3>3 DEF Rendering
      <4> QED
        BY <1>1, <1>2, <3>1, <4>1 DEF RenderInv, MarkOK
    <3> QED
      BY <1>2, <1>3, <3>2, <3>3
  <2> QED
    BY <1>2, <2>1 DEF RenderInv, OnceOK, Rendering
<1> QED
  BY <1>1, <1>2, <1>5, <1>6, <1>7, <1>8 DEF RenderInv

\* A render that ends takes the mark of its context with it, and only its own.
LEMMA RenderPopped ==
  ASSUME ContextInv, RenderInv, NEW t \in started, blocks[t] # <<>>, Pop(t),
         UNCHANGED <<shared, base>>,
         marked' = IF Last(blocks[t]).kind = "render"
                   THEN marked \ {Last(blocks[t]).ctx} ELSE marked
  PROVE  RenderInv'
<1> DEFINE b == blocks[t]
           d == blocks'[t]
           n == Len(b)
<1>1. t \in Strands /\ b \in Seq(Blocks)
  BY DEF ContextInv, ContextTypes
<1>2. /\ d = Front(b) /\ \A u \in Strands \ {t} : blocks'[u] = blocks[u]
      /\ d \in Seq(Blocks) /\ n \in Nat \ {0} /\ DOMAIN b = 1..n /\ DOMAIN d = 1..(n - 1)
      /\ Last(b) = b[n] /\ Last(b) \in Blocks /\ \A i \in 1..(n - 1) : d[i] = b[i]
  <2>1. d = Front(b) /\ \A u \in Strands \ {t} : blocks'[u] = blocks[u]
    BY <1>1 DEF Pop, ContextInv, ContextTypes
  <2>2. /\ Front(b) \in Seq(Blocks) /\ n \in Nat \ {0} /\ DOMAIN b = 1..n
        /\ DOMAIN Front(b) = 1..(n - 1)
        /\ \A i \in 1..(n - 1) : Front(b)[i] = b[i]
        /\ Last(b) = b[n] /\ Last(b) \in Blocks
    BY <1>1, Popped
  <2> QED
    BY <2>1, <2>2
<1>3. /\ \A i \in 1..n : i = n \/ i \in 1..(n - 1)
      /\ \A i \in 1..(n - 1) : i \in 1..n /\ i < n
      /\ \A i \in 1..(n - 1) : \A j \in 1..n : j < i => j \in 1..(n - 1)
      /\ n \in 1..n
  BY <1>2
<1>4. \A i \in 1..(n - 1) : \A j \in Below(b, i) : j \in Below(d, i) /\ d[j] = b[j]
  BY <1>2, <1>3 DEF Own, Below
<1>5. Len(d) <= MaxNesting
  <2>1. Len(d) = n - 1 /\ n <= MaxNesting
    BY <1>1, <1>2 DEF RenderInv
  <2> QED
    BY <1>2, <2>1, TrackingAssumption
<1>6. NearOK'
  <2>1. ASSUME NEW i \in DOMAIN d, Rendering(d[i])
        PROVE  /\ d[i].ctx \in Contexts
               /\ d[i].ctx \in shared \/ \E j \in Below(d, i) : d[j].ctx = d[i].ctx
    <3>1. i \in 1..n /\ b[i] = d[i] /\ Rendering(b[i])
      BY <1>2, <1>3, <2>1
    <3>2. /\ b[i].ctx \in Contexts
          /\ b[i].ctx \in shared \/ \E j \in Below(b, i) : b[j].ctx = b[i].ctx
      BY <1>1, <1>2, <3>1 DEF RenderInv, NearOK
    <3> QED
      BY <1>2, <1>4, <2>1, <3>1, <3>2
  <2>2. ASSUME NEW u \in Strands \ {t}, NEW i \in DOMAIN blocks'[u], Rendering(blocks'[u][i])
        PROVE  /\ blocks'[u][i].ctx \in Contexts
               /\ \/ blocks'[u][i].ctx \in shared
                  \/ \E j \in Below(blocks'[u], i) : blocks'[u][j].ctx = blocks'[u][i].ctx
    BY <1>2, <2>2 DEF RenderInv, NearOK
  <2> QED
    BY <2>1, <2>2 DEF NearOK, Rendering, Below, Own
<1>7. MarkOK'
  <2> SUFFICES ASSUME NEW c \in Contexts \ shared
               PROVE  c \in marked' <=> \E u \in Strands : \E i \in DOMAIN blocks'[u] :
                                          blocks'[u][i].kind = "render" /\ blocks'[u][i].ctx = c
    BY DEF MarkOK
  <2>1. c \in marked <=> \E u \in Strands : \E i \in DOMAIN blocks[u] :
                           blocks[u][i].kind = "render" /\ blocks[u][i].ctx = c
    BY DEF RenderInv, MarkOK
  <2>2. CASE b[n].kind = "render" /\ b[n].ctx = c
    <3>1. c \notin marked'
      BY <1>2, <2>2
    <3>2. PICK k \in Below(b, n) : b[k].ctx = c
      BY <1>1, <1>2, <1>3, <2>2 DEF RenderInv, NearOK, Rendering
    <3>3. ASSUME NEW u \in Strands, NEW i \in DOMAIN blocks'[u],
                 blocks'[u][i].kind = "render", blocks'[u][i].ctx = c
          PROVE  FALSE
      <4>1. CASE u = t
        <5>1. i \in 1..n /\ i < n /\ b[i].kind = "render" /\ b[i].ctx = c
          BY <1>2, <1>3, <3>3, <4>1
        <5> QED
          BY <1>1, <1>2, <1>3, <2>2, <5>1 DEF RenderInv, OnceOK, Rendering
      <4>2. CASE u # t
        <5>1. PICK m \in Below(blocks[u], i) : blocks[u][m].ctx = c
          BY <1>2, <3>3, <4>2 DEF RenderInv, NearOK, Rendering
        <5> QED
          BY <1>1, <3>2, <4>2, <5>1 DEF ContextInv, OwnOK, Below
      <4> QED
        BY <4>1, <4>2
    <3> QED
      BY <3>1, <3>3
  <2>3. CASE ~(b[n].kind = "render" /\ b[n].ctx = c)
    <3>1. c \in marked' <=> c \in marked
      BY <1>2, <2>3
    <3>2. ASSUME NEW u \in Strands
          PROVE  (\E i \in DOMAIN blocks'[u] : blocks'[u][i].kind = "render" /\ blocks'[u][i].ctx = c)
                 <=> \E i \in DOMAIN blocks[u] : blocks[u][i].kind = "render" /\ blocks[u][i].ctx = c
      <4>1. CASE u = t
        BY <1>2, <1>3, <2>3, <4>1
      <4>2. CASE u # t
        BY <1>2, <4>2
      <4> QED
        BY <4>1, <4>2
    <3> QED
      BY <2>1, <3>1, <3>2
  <2> QED
    BY <2>2, <2>3
<1>8. OnceOK'
  <2>1. ASSUME NEW i \in DOMAIN d, NEW j \in DOMAIN d, i < j,
               d[i].kind = "render", Rendering(d[j]), d[i].ctx = d[j].ctx
        PROVE  d[i].ctx \in shared
    BY <1>1, <1>2, <1>3, <2>1 DEF RenderInv, OnceOK
  <2> QED
    BY <1>2, <2>1 DEF RenderInv, OnceOK, Rendering
<1> QED
  BY <1>1, <1>2, <1>5, <1>6, <1>7, <1>8 DEF RenderInv

\* state() marks a context that no other render has marked.
LEMMA RenderMarked ==
  ASSUME ContextInv, RenderInv, NEW t \in Strands, MarkRender(t)
  PROVE  RenderInv'
<1> DEFINE b == blocks[t]
           d == blocks'[t]
           n == Len(b)
<1>1. /\ t \in started /\ b \in Seq(Blocks) /\ b # <<>> /\ Last(b).kind = "unmarked"
      /\ marked' = marked \cup {Last(b).ctx} /\ UNCHANGED <<shared, base>>
  BY DEF ContextInv, ContextTypes, MarkRender, IsOpen, strandVars
<1>2. /\ Front(b) \in Seq(Blocks) /\ n \in Nat \ {0} /\ DOMAIN b = 1..n
      /\ DOMAIN Front(b) = 1..(n - 1) /\ \A i \in 1..(n - 1) : Front(b)[i] = b[i]
      /\ Last(b) = b[n] /\ Last(b) \in Blocks
  BY <1>1, Popped
<1>3. /\ d = Append(Front(b), [b[n] EXCEPT !.kind = "render"])
      /\ \A u \in Strands \ {t} : blocks'[u] = blocks[u]
  BY <1>2 DEF MarkRender, ContextInv, ContextTypes
<1>4. /\ Len(d) = n /\ DOMAIN d = 1..n /\ \A i \in 1..(n - 1) : d[i] = b[i]
      /\ d[n].kind = "render" /\ d[n].ctx = b[n].ctx
  <2> DEFINE x == [b[n] EXCEPT !.kind = "render"]
  <2>1. x \in Blocks /\ x.kind = "render" /\ x.ctx = b[n].ctx /\ Len(Front(b)) = n - 1
    BY <1>2 DEF Blocks
  <2>2. (n - 1) + 1 = n
    BY <1>2
  <2>3. /\ Append(Front(b), x) \in Seq(Blocks) /\ DOMAIN Append(Front(b), x) = 1..n
        /\ Append(Front(b), x)[n] = x
        /\ \A i \in 1..(n - 1) : Append(Front(b), x)[i] = Front(b)[i]
    BY <1>2, <2>1, <2>2, Pushed
  <2>4. Len(d) = n
    BY <1>2, <1>3, <2>1, <2>2
  <2> QED
    BY <1>2, <1>3, <2>1, <2>3, <2>4
<1>5. /\ \A i \in 1..n : i = n \/ i \in 1..(n - 1)
      /\ \A i \in 1..(n - 1) : i \in 1..n /\ i < n
      /\ \A i \in 1..n : \A j \in 1..n : j < i => j \in 1..(n - 1)
      /\ n \in 1..n
  BY <1>2
<1>6. \A i \in 1..n : \A j \in Below(b, i) : j \in Below(d, i) /\ d[j] = b[j]
  BY <1>2, <1>4, <1>5 DEF Own, Below
<1>7. \A i \in 1..n : d[i].ctx = b[i].ctx /\ (Rendering(d[i]) <=> Rendering(b[i]))
  BY <1>1, <1>2, <1>4, <1>5 DEF Rendering
<1>8. NearOK'
  <2>1. ASSUME NEW i \in DOMAIN d, Rendering(d[i])
        PROVE  /\ d[i].ctx \in Contexts
               /\ d[i].ctx \in shared \/ \E j \in Below(d, i) : d[j].ctx = d[i].ctx
    BY <1>2, <1>4, <1>6, <1>7, <2>1 DEF RenderInv, NearOK
  <2>2. ASSUME NEW u \in Strands \ {t}, NEW i \in DOMAIN blocks'[u], Rendering(blocks'[u][i])
        PROVE  /\ blocks'[u][i].ctx \in Contexts
               /\ \/ blocks'[u][i].ctx \in shared
                  \/ \E j \in Below(blocks'[u], i) : blocks'[u][j].ctx = blocks'[u][i].ctx
    BY <1>3, <2>2 DEF RenderInv, NearOK
  <2> QED
    BY <1>1, <2>1, <2>2 DEF NearOK, Rendering, Below, Own
<1>9. MarkOK'
  <2> SUFFICES ASSUME NEW c \in Contexts \ shared
               PROVE  c \in marked' <=> \E u \in Strands : \E i \in DOMAIN blocks'[u] :
                                          blocks'[u][i].kind = "render" /\ blocks'[u][i].ctx = c
    BY <1>1 DEF MarkOK
  <2>1. c \in marked <=> \E u \in Strands : \E i \in DOMAIN blocks[u] :
                           blocks[u][i].kind = "render" /\ blocks[u][i].ctx = c
    BY DEF RenderInv, MarkOK
  <2>2. CASE b[n].ctx = c
    BY <1>1, <1>2, <1>4, <1>5, <2>2
  <2>3. CASE b[n].ctx # c
    <3>1. c \in marked' <=> c \in marked
      BY <1>1, <1>2, <2>3
    <3>2. ASSUME NEW u \in Strands
          PROVE  (\E i \in DOMAIN blocks'[u] : blocks'[u][i].kind = "render" /\ blocks'[u][i].ctx = c)
                 <=> \E i \in DOMAIN blocks[u] : blocks[u][i].kind = "render" /\ blocks[u][i].ctx = c
      <4>1. CASE u = t
        BY <1>2, <1>4, <1>5, <2>3, <4>1
      <4>2. CASE u # t
        BY <1>3, <4>2
      <4> QED
        BY <4>1, <4>2
    <3> QED
      BY <2>1, <3>1, <3>2
  <2> QED
    BY <2>2, <2>3
<1>10. OnceOK'
  <2>1. ASSUME NEW i \in DOMAIN d, NEW j \in DOMAIN d, i < j,
               d[i].kind = "render", Rendering(d[j]), d[i].ctx = d[j].ctx
        PROVE  d[i].ctx \in shared
    <3>1. i \in 1..n /\ j \in 1..n /\ i \in 1..(n - 1)
      BY <1>4, <1>5, <2>1
    <3>2. b[i].kind = "render" /\ Rendering(b[j]) /\ b[i].ctx = b[j].ctx
      BY <1>4, <1>7, <2>1, <3>1
    <3> QED
      BY <1>2, <1>7, <2>1, <3>1, <3>2 DEF RenderInv, OnceOK
  <2> QED
    BY <1>1, <1>3, <2>1 DEF RenderInv, OnceOK, Rendering
<1>11. Len(d) <= MaxNesting
  BY <1>4 DEF RenderInv
<1> QED
  BY <1>1, <1>3, <1>8, <1>9, <1>10, <1>11 DEF RenderInv

\* Every step preserves RenderInv.
LEMMA RenderNext == RenderInv /\ ContextInv /\ [Next]_trackingVars => RenderInv'
<1> SUFFICES ASSUME RenderInv, ContextInv, [Next]_trackingVars PROVE RenderInv'
  OBVIOUS
<1>1. ASSUME UNCHANGED <<blocks, marked, shared, base>> PROVE RenderInv'
  BY <1>1 DEF RenderInv, NearOK, MarkOK, OnceOK, Below, Own, Rendering
<1>2. ASSUME NEW t \in Strands, EnterWith(t) \/ PreRun(t) PROVE RenderInv'
  <2>1. t \in started /\ Len(blocks[t]) < MaxNesting /\ UNCHANGED <<marked, shared, base>>
    BY <1>2 DEF EnterWith, PreRun, CanOpen, strandVars
  <2>2. \E kind \in {"with", "task"}, c \in Contexts \cup {NoContext}, id \in TaskIds \cup {NoTask} :
          Push(t, Block(kind, c, id))
    BY <1>2, TrackingAssumption DEF EnterWith, PreRun
  <2>3. \E x \in Blocks : x.kind \in {"with", "task"} /\ Push(t, x)
    <3>1. PICK kind \in {"with", "task"}, c \in Contexts \cup {NoContext},
               id \in TaskIds \cup {NoTask} : Push(t, Block(kind, c, id))
      BY <2>2
    <3>2. Block(kind, c, id) \in Blocks /\ Block(kind, c, id).kind \in {"with", "task"}
      BY DEF Block, Blocks
    <3> QED
      BY <3>1, <3>2
  <2> QED
    BY <2>1, <2>3, RenderPushed
<1>3. ASSUME NEW t \in Strands, BeginRender(t) PROVE RenderInv'
  <2> DEFINE x == Block(IF current[t] = NoContext \/ current[t] \in marked
                        THEN "nested" ELSE "unmarked", current[t], NoTask)
  <2>1. /\ t \in started /\ Len(blocks[t]) < MaxNesting /\ UNCHANGED <<marked, shared, base>>
        /\ Push(t, x)
    BY <1>3 DEF BeginRender, CanOpen, strandVars
  <2>2. current[t] \in Contexts \cup {NoContext}
    BY DEF ContextInv, ContextTypes
  <2>3. /\ x \in Blocks /\ x.kind # "render" /\ x.ctx = current[t]
        /\ x.kind = "unmarked" => x.ctx \in Contexts \ marked
    BY <2>2 DEF Block, Blocks
  <2>4. \/ current[t] \in shared \cup {NoContext}
        \/ \E j \in Own(blocks[t]) : blocks[t][j].ctx = current[t]
    <3>1. Top(blocks[t], Own(blocks[t]), current[t], base[t].ctx)
      BY DEF ContextInv, ChainOK
    <3>2. base[t].ctx \in shared \cup {NoContext}
      BY DEF RenderInv
    <3> QED
      BY <3>1, <3>2 DEF Top
  <2>5. NoContext \notin Contexts
    BY TrackingAssumption
  <2> HIDE DEF x
  <2> QED
    BY <2>1, <2>3, <2>4, <2>5, RenderPushed
<1>4. ASSUME NEW t \in Strands,
             ExitWith(t) \/ PostRun(t) \/ EndRender(t) \/ EndNested(t) \/ RenderRaises(t)
      PROVE  RenderInv'
  <2>1. t \in started /\ blocks[t] # <<>> /\ Pop(t) /\ UNCHANGED <<shared, base>>
    BY <1>4 DEF ExitWith, PostRun, EndRender, EndNested, RenderRaises, IsOpen, strandVars,
                ContextInv, ContextTypes
  <2>2. marked' = IF Last(blocks[t]).kind = "render"
                  THEN marked \ {Last(blocks[t]).ctx} ELSE marked
    BY <1>4 DEF ExitWith, PostRun, EndRender, EndNested, RenderRaises, IsOpen
  <2> QED
    BY <2>1, <2>2, RenderPopped
<1>5. ASSUME NEW t \in Strands, StartStrand(t) PROVE RenderInv'
  <2>1. /\ UNCHANGED <<blocks, marked>> /\ shared \subseteq shared'
        /\ \A u \in Strands : base'[u].ctx \in shared' \cup {NoContext}
    <3>1. DOMAIN base = Strands
      BY DEF ContextInv, ContextTypes
    <3> QED
      BY <1>5, <3>1 DEF StartStrand, RenderInv
  <2>2. NearOK'
    BY <2>1 DEF RenderInv, NearOK, Below, Own, Rendering
  <2>3. MarkOK'
    BY <2>1 DEF RenderInv, MarkOK
  <2>4. OnceOK'
    BY <2>1 DEF RenderInv, OnceOK, Rendering
  <2> QED
    BY <2>1, <2>2, <2>3, <2>4 DEF RenderInv
<1>6. ASSUME NEW t \in Strands, StartQuery(t) \/ FinishQuery(t) \/ FinishElsewhere(t)
      PROVE  UNCHANGED <<blocks, marked, shared, base>>
  BY <1>6 DEF StartQuery, FinishQuery, FinishElsewhere, contextVars, strandVars
<1>7. CASE UNCHANGED trackingVars
  BY <1>1, <1>7 DEF trackingVars, contextVars, strandVars
<1>8. CASE Next
  BY <1>1, <1>2, <1>3, <1>4, <1>5, <1>6, <1>8, RenderMarked DEF Next
<1> QED
  BY <1>7, <1>8

\* QueryContext.state around Template.render: a context that one strand uses is marked
\* exactly while one render, its outermost, runs, however deep renders and contexts nest.
THEOREM MarksFollowRenders == Spec => []MarkedWhileRendering
<1>1. RenderInv /\ ContextInv => MarkedWhileRendering
  <2> SUFFICES ASSUME RenderInv, ContextInv, NEW c \in Contexts \ shared
               PROVE  Cardinality(Renders(c)) = IF c \in marked THEN 1 ELSE 0
    BY DEF MarkedWhileRendering
  <2>1. CASE c \notin marked
    <3>1. Renders(c) = {}
      BY <2>1 DEF RenderInv, MarkOK, Renders
    <3> QED
      BY <2>1, <3>1, FS_EmptySet
  <2>2. CASE c \in marked
    <3>1. PICK t \in Strands : \E i \in DOMAIN blocks[t] :
                                 blocks[t][i].kind = "render" /\ blocks[t][i].ctx = c
      BY <2>2 DEF RenderInv, MarkOK
    <3>2. PICK i \in DOMAIN blocks[t] : blocks[t][i].kind = "render" /\ blocks[t][i].ctx = c
      BY <3>1
    <3>3. PICK k \in Below(blocks[t], i) : blocks[t][k].ctx = c
      BY <3>2 DEF RenderInv, NearOK, Rendering
    <3>4. ASSUME NEW u \in Strands, NEW j \in DOMAIN blocks[u],
                 blocks[u][j].kind = "render", blocks[u][j].ctx = c
          PROVE  u = t /\ j = i
      <4>1. PICK m \in Below(blocks[u], j) : blocks[u][m].ctx = c
        BY <3>4 DEF RenderInv, NearOK, Rendering
      <4>2. u = t
        BY <3>3, <4>1 DEF ContextInv, OwnOK, Below
      <4>3. i \in Nat /\ j \in Nat
        BY <4>2 DEF ContextInv, ContextTypes
      <4>4. ~(i < j) /\ ~(j < i)
        BY <3>2, <3>4, <4>2 DEF RenderInv, OnceOK, Rendering
      <4> QED
        BY <4>2, <4>3, <4>4
    <3>5. i \in 1..MaxNesting
      <4>1. blocks[t] \in Seq(Blocks) /\ Len(blocks[t]) <= MaxNesting
        BY DEF ContextInv, ContextTypes, RenderInv
      <4> QED
        BY <4>1, TrackingAssumption
    <3>6. Renders(c) = {<<t, i>>}
      BY <3>2, <3>4, <3>5 DEF Renders
    <3> QED
      BY <2>2, <3>6, FS_Singleton
  <2> QED
    BY <2>1, <2>2
<1> QED
  BY <1>1, ContextInit, ContextNext, RenderInit, RenderNext, PTL DEF Spec

-----------------------------------------------------------------------------
(* Queries                                                                  *)

Mine(t) == {q \in Queries : queries[q].state = "running" /\ queries[q].strand = t}

QueryTypes ==
  /\ orm \in [Strands -> Queries \cup {NoQuery}]
  /\ queries \in [Queries -> [state : {"new", "running", "done"},
                              strand : Strands \cup {NoStrand},
                              old : Queries \cup {NoQuery}]]
  /\ base \in [Strands -> [ctx : Contexts \cup {NoContext}, query : Queries \cup {NoQuery}]]
  /\ crossed \subseteq started /\ started \subseteq Strands

\* Whatever a variable or a token holds was begun, and what a strand came with is
\* not its own.
KnownOK ==
  /\ \A q \in Queries : queries[q].state = "running" => queries[q].strand \in started
  /\ \A t \in Strands : base[t].query \notin Mine(t)
  /\ \A q \in Queries :
       queries[q].state = "new" =>
         /\ \A t \in Strands : orm[t] # q /\ base[t].query # q
         /\ \A p \in Queries : queries[p].old # q

\* The running queries of a strand whose queries did not cross are a chain: from the
\* current one each token leads to the one before, and the last to the base.
NestOK ==
  \A t \in Strands \ crossed :
    /\ orm[t] # base[t].query => orm[t] \in Mine(t)
    /\ \A q \in Mine(t) \ {orm[t]} : \E p \in Mine(t) : queries[p].old = q
    /\ \A q \in Mine(t) : queries[q].old \in Mine(t) \cup {base[t].query}
    /\ \A q \in Mine(t) : queries[q].old # orm[t]
    /\ \A p, q \in Mine(t) : queries[p].old = queries[q].old => p = q

QueryInv == QueryTypes /\ KnownOK /\ NestOK

\* No query has begun.
LEMMA QueryInit == Init => QueryInv
<1> SUFFICES ASSUME Init PROVE QueryInv
  OBVIOUS
<1>1. QueryTypes
  BY DEF Init, QueryTypes
<1>2. \A t \in Strands : Mine(t) = {} /\ orm[t] = NoQuery /\ base[t].query = NoQuery
  BY DEF Init, Mine
<1>3. \A q \in Queries : queries[q].old = NoQuery /\ queries[q].state = "new" /\ q # NoQuery
  BY TrackingAssumption DEF Init
<1> QED
  BY <1>1, <1>2, <1>3 DEF QueryInv, KnownOK, NestOK

\* StartQuery adds the new query in front of the chain of its strand.
LEMMA QueryStarts ==
  ASSUME QueryInv, NEW t \in Strands, StartQuery(t)
  PROVE  QueryInv'
<1> USE DEF QueryInv
<1>1. PICK q \in Queries :
        /\ queries[q].state = "new"
        /\ queries' = [queries EXCEPT ![q] =
                         [state |-> "running", strand |-> t, old |-> orm[t]]]
        /\ orm' = [orm EXCEPT ![t] = q]
  BY DEF StartQuery
<1>2. t \in started /\ UNCHANGED <<crossed, base, started>>
  BY DEF StartQuery, strandVars
<1>3. QueryTypes'
  BY <1>1, <1>2 DEF QueryTypes
<1>4. /\ orm'[t] = q /\ \A u \in Strands \ {t} : orm'[u] = orm[u]
      /\ queries'[q] = [state |-> "running", strand |-> t, old |-> orm[t]]
      /\ \A p \in Queries \ {q} : queries'[p] = queries[p]
  BY <1>1 DEF QueryTypes
<1>5. /\ \A u \in Strands : Mine(u)' = IF u = t THEN Mine(u) \cup {q} ELSE Mine(u)
      /\ q \notin Mine(t)
  BY <1>1, <1>4 DEF Mine
<1>6. KnownOK'
  BY <1>1, <1>2, <1>4, <1>5 DEF KnownOK
<1>7. ASSUME NEW u \in Strands \ crossed
      PROVE  /\ orm[u] # base[u].query => orm[u] \in Mine(u)
             /\ \A r \in Mine(u) \ {orm[u]} : \E p \in Mine(u) : queries[p].old = r
             /\ \A r \in Mine(u) : queries[r].old \in Mine(u) \cup {base[u].query}
             /\ \A r \in Mine(u) : queries[r].old # orm[u]
             /\ \A p, r \in Mine(u) : queries[p].old = queries[r].old => p = r
  BY DEF NestOK
<1>8. \A u \in Strands : Mine(u) \subseteq Queries
  BY DEF Mine
<1>9. /\ \A u \in Strands : orm[u] # q /\ base[u].query # q
      /\ \A p \in Queries : queries[p].old # q
  BY <1>1 DEF KnownOK
<1>10. ASSUME NEW u \in Strands \ crossed', u # t
       PROVE  /\ (orm[u] # base[u].query => orm[u] \in Mine(u))'
              /\ (\A r \in Mine(u) \ {orm[u]} : \E p \in Mine(u) : queries[p].old = r)'
              /\ (\A r \in Mine(u) : queries[r].old \in Mine(u) \cup {base[u].query})'
              /\ (\A r \in Mine(u) : queries[r].old # orm[u])'
              /\ (\A p, r \in Mine(u) : queries[p].old = queries[r].old => p = r)'
  <2>1. Mine(u)' = Mine(u) /\ orm'[u] = orm[u] /\ base'[u] = base[u]
    BY <1>2, <1>4, <1>5, <1>10
  <2>2. \A r \in Mine(u) : queries'[r] = queries[r]
    BY <1>1, <1>4, <1>8 DEF Mine
  <2> QED
    BY <1>2, <1>7, <2>1, <2>2
<1>11. ASSUME t \notin crossed'
       PROVE  /\ (orm[t] # base[t].query => orm[t] \in Mine(t))'
              /\ (\A r \in Mine(t) \ {orm[t]} : \E p \in Mine(t) : queries[p].old = r)'
              /\ (\A r \in Mine(t) : queries[r].old \in Mine(t) \cup {base[t].query})'
              /\ (\A r \in Mine(t) : queries[r].old # orm[t])'
              /\ (\A p, r \in Mine(t) : queries[p].old = queries[r].old => p = r)'
  <2>1. t \in Strands \ crossed
    BY <1>2, <1>11
  <2>2. /\ Mine(t)' = Mine(t) \cup {q} /\ orm'[t] = q /\ base'[t] = base[t]
        /\ queries'[q].old = orm[t]
    BY <1>2, <1>4, <1>5
  <2>3. \A r \in Mine(t) : queries'[r] = queries[r] /\ r # q
    BY <1>4, <1>5, <1>8
  <2>4. (orm[t] # base[t].query => orm[t] \in Mine(t))'
    BY <2>2
  <2>5. (\A r \in Mine(t) \ {orm[t]} : \E p \in Mine(t) : queries[p].old = r)'
    BY <1>7, <2>1, <2>2, <2>3
  <2>6. (\A r \in Mine(t) : queries[r].old \in Mine(t) \cup {base[t].query})'
    BY <1>7, <2>1, <2>2, <2>3
  <2>7. (\A r \in Mine(t) : queries[r].old # orm[t])'
    BY <1>8, <1>9, <2>2, <2>3
  <2>8. (\A p, r \in Mine(t) : queries[p].old = queries[r].old => p = r)'
    BY <1>7, <2>1, <2>2, <2>3
  <2> QED
    BY <2>4, <2>5, <2>6, <2>7, <2>8
<1> QED
  BY <1>3, <1>6, <1>10, <1>11 DEF NestOK

\* FinishQuery of the current query takes the first link away; any other one crosses.
LEMMA QueryFinishes ==
  ASSUME QueryInv, NEW t \in Strands, FinishQuery(t)
  PROVE  QueryInv'
<1> USE DEF QueryInv
<1>1. PICK q \in Queries :
        /\ queries[q].state = "running" /\ queries[q].strand = t
        /\ queries' = [queries EXCEPT ![q] = Finished]
        /\ orm' = [orm EXCEPT ![t] = queries[q].old]
        /\ crossed' = IF orm[t] = q THEN crossed ELSE crossed \cup {t}
  BY DEF FinishQuery
<1>2. q \in Mine(t) /\ t \in started /\ UNCHANGED <<base, started>>
  BY <1>1 DEF FinishQuery, strandVars, Mine, KnownOK
<1>3. QueryTypes'
  BY <1>1, <1>2 DEF QueryTypes, Finished
<1>4. /\ orm'[t] = queries[q].old /\ \A u \in Strands \ {t} : orm'[u] = orm[u]
      /\ queries'[q] = Finished
      /\ \A p \in Queries \ {q} : queries'[p] = queries[p]
  BY <1>1 DEF QueryTypes
<1>5. \A u \in Strands : Mine(u)' = Mine(u) \ {q} /\ (u # t => Mine(u)' = Mine(u))
  BY <1>1, <1>4 DEF Mine, Finished
<1>6. KnownOK'
  <2>1. queries'[q].old = NoQuery /\ queries'[q].state = "done" /\ NoQuery \notin Queries
    BY <1>4, TrackingAssumption DEF Finished
  <2>2. \A r \in Queries : queries'[r].state = "new" => r # q /\ queries[r].state = "new"
    BY <1>4, <2>1
  <2>3. \A u \in Strands : base'[u].query \notin Mine(u)'
    BY <1>2, <1>5 DEF KnownOK
  <2>4. \A r \in Queries : queries'[r].state = "running" => queries'[r].strand \in started'
    BY <1>2, <1>4, <2>1 DEF KnownOK
  <2> QED
    BY <1>2, <1>4, <2>1, <2>2, <2>3, <2>4 DEF KnownOK
<1>7. ASSUME NEW u \in Strands \ crossed
      PROVE  /\ orm[u] # base[u].query => orm[u] \in Mine(u)
             /\ \A r \in Mine(u) \ {orm[u]} : \E p \in Mine(u) : queries[p].old = r
             /\ \A r \in Mine(u) : queries[r].old \in Mine(u) \cup {base[u].query}
             /\ \A r \in Mine(u) : queries[r].old # orm[u]
             /\ \A p, r \in Mine(u) : queries[p].old = queries[r].old => p = r
  BY DEF NestOK
<1>8. \A u \in Strands : Mine(u) \subseteq Queries
  BY DEF Mine
<1>10. ASSUME NEW u \in Strands \ crossed', u # t
       PROVE  /\ (orm[u] # base[u].query => orm[u] \in Mine(u))'
              /\ (\A r \in Mine(u) \ {orm[u]} : \E p \in Mine(u) : queries[p].old = r)'
              /\ (\A r \in Mine(u) : queries[r].old \in Mine(u) \cup {base[u].query})'
              /\ (\A r \in Mine(u) : queries[r].old # orm[u])'
              /\ (\A p, r \in Mine(u) : queries[p].old = queries[r].old => p = r)'
  <2>1. Mine(u)' = Mine(u) /\ orm'[u] = orm[u] /\ base'[u] = base[u] /\ u \notin crossed
    BY <1>1, <1>2, <1>4, <1>5, <1>10
  <2>2. \A r \in Mine(u) : queries'[r] = queries[r]
    BY <1>1, <1>4, <1>8, <1>10 DEF Mine
  <2> QED
    BY <1>7, <2>1, <2>2
<1>11. ASSUME t \notin crossed'
       PROVE  /\ (orm[t] # base[t].query => orm[t] \in Mine(t))'
              /\ (\A r \in Mine(t) \ {orm[t]} : \E p \in Mine(t) : queries[p].old = r)'
              /\ (\A r \in Mine(t) : queries[r].old \in Mine(t) \cup {base[t].query})'
              /\ (\A r \in Mine(t) : queries[r].old # orm[t])'
              /\ (\A p, r \in Mine(t) : queries[p].old = queries[r].old => p = r)'
  <2>1. t \in Strands \ crossed /\ orm[t] = q
    BY <1>1, <1>11
  <2>2. Mine(t)' = Mine(t) \ {q} /\ orm'[t] = queries[q].old /\ base'[t] = base[t]
    BY <1>2, <1>4, <1>5
  <2>3. \A r \in Mine(t) \ {q} : queries'[r] = queries[r]
    BY <1>4, <1>8
  <2>4. queries[q].old \in Mine(t) \cup {base[t].query} /\ queries[q].old # q
    BY <1>2, <1>7, <2>1
  <2>5. (orm[t] # base[t].query => orm[t] \in Mine(t))'
    BY <2>2, <2>4
  <2>6. (\A r \in Mine(t) \ {orm[t]} : \E p \in Mine(t) : queries[p].old = r)'
    BY <1>7, <2>1, <2>2, <2>3
  <2>7. (\A r \in Mine(t) : queries[r].old \in Mine(t) \cup {base[t].query})'
    BY <1>7, <2>1, <2>2, <2>3
  <2>8. (\A r \in Mine(t) : queries[r].old # orm[t])'
    BY <1>2, <1>7, <2>1, <2>2, <2>3
  <2>9. (\A p, r \in Mine(t) : queries[p].old = queries[r].old => p = r)'
    BY <1>7, <2>1, <2>2, <2>3
  <2> QED
    BY <2>5, <2>6, <2>7, <2>8, <2>9
<1> QED
  BY <1>3, <1>6, <1>10, <1>11 DEF NestOK

\* FinishElsewhere takes a link out of the chain of a strand, which has crossed.
LEMMA QueryFinishesElsewhere ==
  ASSUME QueryInv, NEW t \in Strands, FinishElsewhere(t)
  PROVE  QueryInv'
<1> USE DEF QueryInv
<1>1. PICK q \in Queries :
        /\ queries[q].state = "running"
        /\ queries' = [queries EXCEPT ![q] = Finished]
        /\ crossed' = crossed \cup {queries[q].strand}
  BY DEF FinishElsewhere
<1>2. UNCHANGED <<base, started, orm>>
  BY <1>1 DEF FinishElsewhere, strandVars
<1> DEFINE s == queries[q].strand
<1>3. s \in started /\ s \in Strands
  BY <1>1 DEF KnownOK, QueryTypes
<1>4. QueryTypes'
  BY <1>1, <1>2, <1>3 DEF QueryTypes, Finished
<1>5. /\ queries'[q] = Finished
      /\ \A p \in Queries \ {q} : queries'[p] = queries[p]
  BY <1>1 DEF QueryTypes
<1>6. \A u \in Strands : Mine(u)' = Mine(u) \ {q} /\ (u # s => Mine(u)' = Mine(u))
  BY <1>1, <1>5 DEF Mine, Finished
<1>7. KnownOK'
  <2>1. queries'[q].old = NoQuery /\ queries'[q].state = "done" /\ NoQuery \notin Queries
    BY <1>5, TrackingAssumption DEF Finished
  <2>2. \A r \in Queries : queries'[r].state # "done" => r # q /\ queries'[r] = queries[r]
    BY <1>5, <2>1
  <2>3. \A u \in Strands : base'[u].query \notin Mine(u)'
    BY <1>2, <1>6 DEF KnownOK
  <2>4. \A r \in Queries : queries'[r].state = "running" => queries'[r].strand \in started'
    BY <1>2, <2>2 DEF KnownOK
  <2>5. \A r \in Queries : queries'[r].state = "new" =>
          /\ \A u \in Strands : orm'[u] # r /\ base'[u].query # r
          /\ \A p \in Queries : queries'[p].old # r
    BY <1>2, <1>5, <2>1, <2>2 DEF KnownOK
  <2> QED
    BY <2>3, <2>4, <2>5 DEF KnownOK
<1>8. \A u \in Strands : Mine(u) \subseteq Queries
  BY DEF Mine
<1>9. ASSUME NEW u \in Strands \ crossed'
      PROVE  /\ (orm[u] # base[u].query => orm[u] \in Mine(u))'
             /\ (\A r \in Mine(u) \ {orm[u]} : \E p \in Mine(u) : queries[p].old = r)'
             /\ (\A r \in Mine(u) : queries[r].old \in Mine(u) \cup {base[u].query})'
             /\ (\A r \in Mine(u) : queries[r].old # orm[u])'
             /\ (\A p, r \in Mine(u) : queries[p].old = queries[r].old => p = r)'
  <2>1. Mine(u)' = Mine(u) /\ orm'[u] = orm[u] /\ base'[u] = base[u] /\ u \notin crossed
    BY <1>1, <1>2, <1>6, <1>9
  <2>2. \A r \in Mine(u) : queries'[r] = queries[r]
    BY <1>1, <1>5, <1>6, <1>8, <2>1
  <2> QED
    BY <2>1, <2>2 DEF NestOK
<1> QED
  BY <1>4, <1>7, <1>9 DEF NestOK

\* StartStrand begins a chain without a link.
LEMMA StrandStarts ==
  ASSUME QueryInv, ContextInv, NEW t \in Strands, StartStrand(t)
  PROVE  QueryInv'
<1> USE DEF QueryInv
<1>1. t \notin started /\ started' = started \cup {t} /\ UNCHANGED <<queries, crossed>>
  BY DEF StartStrand
<1>2. \/ UNCHANGED <<orm, base>>
      \/ \E u \in started :
           /\ orm' = [orm EXCEPT ![t] = orm[u]]
           /\ base' = [base EXCEPT ![t] = [ctx |-> current[u], query |-> orm[u]]]
  BY DEF StartStrand
<1>3. Mine(t) = {} /\ t \notin crossed
  BY <1>1 DEF KnownOK, Mine, QueryTypes
<1>4. orm[t] = base[t].query
  BY <1>3 DEF NestOK
<1>5. /\ orm'[t] = base'[t].query
      /\ \A u \in Strands \ {t} : orm'[u] = orm[u] /\ base'[u] = base[u]
      /\ orm'[t] = orm[t] \/ \E u \in Strands : orm'[t] = orm[u]
  BY <1>1, <1>2, <1>4 DEF QueryTypes
<1>6. QueryTypes'
  <2>1. started' \subseteq Strands /\ crossed' \subseteq started'
    BY <1>1 DEF QueryTypes
  <2>2. orm' \in [Strands -> Queries \cup {NoQuery}]
    BY <1>2, <1>1 DEF QueryTypes
  <2>3. base' \in [Strands -> [ctx : Contexts \cup {NoContext}, query : Queries \cup {NoQuery}]]
    <3>1. current \in [Strands -> Contexts \cup {NoContext}]
      BY DEF ContextInv, ContextTypes
    <3> QED
      BY <1>1, <1>2, <3>1 DEF QueryTypes
  <2> QED
    BY <1>1, <2>1, <2>2, <2>3 DEF QueryTypes
<1>7. \A u \in Strands : Mine(u)' = Mine(u)
  BY <1>1 DEF Mine
<1>8. KnownOK'
  BY <1>1, <1>3, <1>5, <1>7 DEF KnownOK
<1>9. NestOK'
  BY <1>1, <1>3, <1>5, <1>7 DEF NestOK
<1> QED
  BY <1>6, <1>8, <1>9

\* Every step preserves QueryInv.
LEMMA QueryNext == QueryInv /\ ContextInv /\ [Next]_trackingVars => QueryInv'
<1> SUFFICES ASSUME QueryInv, ContextInv, [Next]_trackingVars PROVE QueryInv'
  OBVIOUS
<1>1. ASSUME UNCHANGED <<queryVars, started, base>> PROVE QueryInv'
  <2>1. \A t \in Strands : Mine(t)' = Mine(t)
    BY <1>1 DEF Mine, queryVars
  <2> QED
    BY <1>1, <2>1 DEF QueryInv, QueryTypes, KnownOK, NestOK, queryVars
<1>2. ASSUME NEW t \in Strands,
             \/ EnterWith(t) \/ ExitWith(t) \/ PreRun(t) \/ PostRun(t)
             \/ BeginRender(t) \/ MarkRender(t) \/ EndRender(t) \/ EndNested(t) \/ RenderRaises(t)
      PROVE  UNCHANGED <<queryVars, started, base>>
  BY <1>2 DEF EnterWith, ExitWith, PreRun, PostRun, BeginRender, MarkRender, EndRender,
              EndNested, RenderRaises, strandVars
<1>3. CASE UNCHANGED trackingVars
  BY <1>1, <1>3 DEF trackingVars, strandVars
<1>4. CASE Next
  BY <1>1, <1>2, <1>4, StrandStarts, QueryStarts, QueryFinishes, QueryFinishesElsewhere DEF Next
<1> QED
  BY <1>3, <1>4

\* ORMQuery: the queries that a strand iterates nest, for any number of strands and
\* queries and whatever their generators do, as long as they do not cross.
THEOREM QueriesNest == Spec => []OrmQueriesNest
<1>1. QueryInv => OrmQueriesNest
  BY DEF QueryInv, NestOK, OrmQueriesNest, Mine
<1> QED
  BY <1>1, QueryInit, QueryNext, ContextInit, ContextNext, PTL DEF Spec
-----------------------------------------------------------------------------
(* Types                                                                    *)

\* Every variable of the strands, contexts and queries keeps its type, and only a strand
\* that has started has open blocks, for any number of each and whatever nests.
THEOREM Typed == Spec => []TypeOK
<1> DEFINE Rest == marked \subseteq Contexts /\ shared \subseteq Contexts
<1>1. Init => Rest
  BY DEF Init
<1>2. ContextInv /\ RenderInv /\ Rest /\ [Next]_trackingVars => Rest'
  <2> SUFFICES ASSUME ContextInv, RenderInv, Rest, [Next]_trackingVars PROVE Rest'
    OBVIOUS
  <2>1. ASSUME UNCHANGED <<marked, shared>> PROVE Rest'
    BY <2>1
  <2>2. ASSUME NEW t \in Strands, StartStrand(t) PROVE Rest'
    <3>1. \A u \in started : current[u] \in Contexts \cup {NoContext}
      BY DEF ContextInv, ContextTypes
    <3> QED
      BY <2>2, <3>1 DEF StartStrand
  <2>3. ASSUME NEW t \in Strands, MarkRender(t) PROVE Rest'
    <3>1. blocks[t] \in Seq(Blocks) /\ blocks[t] # <<>> /\ Last(blocks[t]).kind = "unmarked"
      BY <2>3 DEF MarkRender, IsOpen, ContextInv, ContextTypes
    <3>2. Last(blocks[t]) = blocks[t][Len(blocks[t])] /\ Len(blocks[t]) \in DOMAIN blocks[t]
      BY <3>1 DEF Last
    <3>3. Last(blocks[t]).ctx \in Contexts
      BY <3>1, <3>2 DEF RenderInv, NearOK, Rendering
    <3> QED
      BY <2>3, <3>3 DEF MarkRender, strandVars
  <2>4. ASSUME NEW t \in Strands, EndRender(t) PROVE Rest'
    BY <2>4 DEF EndRender, strandVars
  <2>5. ASSUME NEW t \in Strands,
               \/ EnterWith(t) \/ ExitWith(t) \/ PreRun(t) \/ PostRun(t) \/ BeginRender(t)
               \/ EndNested(t) \/ RenderRaises(t)
        PROVE  Rest'
    BY <2>1, <2>5 DEF EnterWith, ExitWith, PreRun, PostRun, BeginRender, EndNested,
                      RenderRaises, strandVars
  <2>6. ASSUME NEW t \in Strands, StartQuery(t) \/ FinishQuery(t) \/ FinishElsewhere(t)
        PROVE  Rest'
    BY <2>1, <2>6 DEF StartQuery, FinishQuery, FinishElsewhere, contextVars, strandVars
  <2>7. CASE UNCHANGED trackingVars
    BY <2>1, <2>7 DEF trackingVars, contextVars, strandVars
  <2> HIDE DEF Rest
  <2> QED
    BY <2>2, <2>3, <2>4, <2>5, <2>6, <2>7 DEF Next
<1>3. ContextInv /\ QueryInv /\ Rest => TypeOK
  BY DEF ContextInv, ContextTypes, QueryInv, QueryTypes, TypeOK, Blocks
<1> QED
  BY <1>1, <1>2, <1>3, ContextInit, ContextNext, RenderInit, RenderNext, QueryInit, QueryNext,
     PTL DEF Spec
=============================================================================
