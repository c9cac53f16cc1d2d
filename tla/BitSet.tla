------------------------------- MODULE BitSet -------------------------------
(***************************************************************************)
(* BitSet (src/src/qorme/utils/bitset.pyx and the bitset.c made of it): a  *)
(* set of small numbers in the bits of one unsigned integer.  A value is   *)
(* the set of the positions of its ones, so that the operations on bits    *)
(* are those on sets; 1ULL << pos is undefined in C when pos reaches the   *)
(* width, so what it may be is a set of values.                            *)
(***************************************************************************)
EXTENDS Integers, Sequences, FiniteSets, FiniteSetsExt

CONSTANT Width  \* 64 in the code

ASSUME WidthAssumption == Width \in Nat \ {0}

Values == SUBSET (0..(Width - 1))

\* The processor takes the count modulo the width, or shifts every bit out.
Shift(pos) == IF pos < Width THEN {{pos}} ELSE {{pos % Width}, {}}
-----------------------------------------------------------------------------
NewBitSet == {}

BitSetSet(v, pos) == {v \cup b : b \in Shift(pos)}

BitSetClear(v, pos) == {v \ b : b \in Shift(pos)}

BitSetHas(v, pos) == {v \cap b # {} : b \in Shift(pos)}

BitSetIor(v, w) == v \cup w

BitSetInt(v) == MapThenSumSet(LAMBDA i : 2^i, v)

BitSetLength(v) == Cardinality(v)

\* Variant for a mutation: the highest bit is taken out first.
LowestIsHighest(v) == CHOOSE i \in v : \A j \in v : j <= i

\* __builtin_ctzll
Lowest(v) == CHOOSE i \in v : \A j \in v : i <= j

\* list takes the lowest bit out, again and again.
BitSetList[v \in Values] ==
  IF v = {} THEN <<>> ELSE <<Lowest(v)>> \o BitSetList[v \ {Lowest(v)}]
-----------------------------------------------------------------------------
\* What the operations return agrees: the list holds each number once and in
\* order, as many as the length says, and they make up the integer; has tells the
\* same; setting and clearing a number within the width changes what has tells of
\* that number, and of no other.
Agrees(v) ==
  LET list == BitSetList[v]
  IN /\ Len(list) = BitSetLength(v)
     /\ \A i, j \in DOMAIN list : i < j => list[i] < list[j]
     /\ BitSetInt({list[i] : i \in DOMAIN list}) = BitSetInt(v)
     /\ \A p, q \in 0..(Width - 1) :
          /\ BitSetHas(v, p) = IF \E i \in DOMAIN list : list[i] = p THEN {TRUE} ELSE {FALSE}
          /\ \A w \in BitSetSet(v, p) : BitSetHas(w, q) = IF q = p THEN {TRUE} ELSE BitSetHas(v, q)
          /\ \A w \in BitSetClear(v, p) : BitSetHas(w, q) = IF q = p THEN {FALSE} ELSE BitSetHas(v, q)
=============================================================================
