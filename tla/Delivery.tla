------------------------------ MODULE Delivery ------------------------------
(***************************************************************************)
(* What the ingest queue promises to the domains that give it rows.        *)
(*                                                                         *)
(* A row that is accepted waits in line, or first for its delay, and is    *)
(* handed over to the HTTP client once, in the order of the line, at most  *)
(* BatchMaxSize rows at a time unless the queue is being closed.  Nothing  *)
(* of threads, locks or workers is visible here.                           *)
(***************************************************************************)
EXTENDS Naturals, SequencesExt

CONSTANTS
  Rows,          \* the data of a call; each is offered once
  BatchMaxSize   \* the largest batch before a close

VARIABLES
  offered,   \* rows no call has been made for yet
  delayed,   \* accepted rows that wait for their delay
  dueAt,     \* the time from which a delayed row may be in line
  time,
  line,      \* accepted rows in the order they will be handed over
  out,       \* rows handed over, in order
  dropped,   \* accepted rows lost to an error that the log reports
  closing    \* whether a close has told the queue to empty itself

vars == <<offered, delayed, dueAt, time, line, out, dropped, closing>>

Take(n)  == SubSeq(line, 1, n)
Rest(n)  == SubSeq(line, n + 1, Len(line))
-----------------------------------------------------------------------------
Init ==
  /\ offered = Rows /\ delayed = {} /\ line = <<>> /\ out = <<>> /\ dropped = {}
  /\ dueAt \in [Rows -> Nat] /\ time = 0 /\ closing = FALSE

Accept(r) ==
  /\ r \in offered
  /\ offered' = offered \ {r}
  /\ line' = Append(line, r)
  /\ UNCHANGED <<delayed, dueAt, time, out, dropped, closing>>

\* Only the time of the row itself changes.
AcceptLater(r) ==
  /\ r \in offered
  /\ offered' = offered \ {r}
  /\ delayed' = delayed \cup {r}
  /\ dueAt'[r] >= time
  /\ \A q \in Rows \ {r} : dueAt'[q] = dueAt[q]
  /\ UNCHANGED <<time, line, out, dropped, closing>>

Refuse(r) ==
  /\ r \in offered
  /\ offered' = offered \ {r}
  /\ UNCHANGED <<delayed, dueAt, time, line, out, dropped, closing>>

\* A delayed row joins the line: when it is due, or when all rows have to go.
Release(r) ==
  /\ r \in delayed
  /\ closing \/ dueAt[r] <= time
  /\ delayed' = delayed \ {r}
  /\ line' = Append(line, r)
  /\ UNCHANGED <<offered, dueAt, time, out, dropped, closing>>

DropDelayed(r) ==
  /\ r \in delayed
  /\ delayed' = delayed \ {r}
  /\ dropped' = dropped \cup {r}
  /\ UNCHANGED <<offered, dueAt, time, line, out, closing>>

\* A batch leaves the line, for the client or, when it cannot be encoded, for
\* nowhere.
Batch(n) ==
  /\ n \in 1..Len(line)
  /\ closing \/ n <= BatchMaxSize
  /\ line' = Rest(n)
  /\ UNCHANGED <<offered, delayed, dueAt, time, closing>>

HandOver(n) ==
  /\ Batch(n)
  /\ out' = out \o Take(n)
  /\ UNCHANGED dropped

DropBatch(n) ==
  /\ Batch(n)
  /\ dropped' = dropped \cup Range(Take(n))
  /\ UNCHANGED out

BeginClosing ==
  /\ closing' = TRUE
  /\ UNCHANGED <<offered, delayed, dueAt, time, line, out, dropped>>

Pass ==
  /\ time' = time + 1
  /\ UNCHANGED <<offered, delayed, dueAt, line, out, dropped, closing>>

Next ==
  \/ \E r \in Rows : Accept(r) \/ AcceptLater(r) \/ Refuse(r) \/ Release(r) \/ DropDelayed(r)
  \/ \E n \in 1..Len(line) : HandOver(n) \/ DropBatch(n)
  \/ BeginClosing \/ Pass

Spec == Init /\ [][Next]_vars
=============================================================================
