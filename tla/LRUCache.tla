------------------------------ MODULE LRUCache ------------------------------
(***************************************************************************)
(* LRUCache (src/src/qorme/utils/lru_cache.pyx and the lru_cache.c made of *)
(* it): a dict, which keeps the order in which its keys were inserted.  A  *)
(* cache is the sequence of its items, the oldest first.                   *)
(***************************************************************************)
EXTENDS Naturals, Sequences, SequencesExt, FiniteSets

Item(key, value) == [key |-> key, value |-> value]

EmptyCache == <<>>

Keys(cache) == {cache[i].key : i \in DOMAIN cache}

KeyList(cache) == [i \in DOMAIN cache |-> cache[i].key]

Place(cache, key) == CHOOSE i \in DOMAIN cache : cache[i].key = key

ValueOf(cache, key) == cache[Place(cache, key)].value

\* Variant for a mutation: a hit leaves the item where it is.
TouchNothing(cache, key) == cache

\* get of a key that is there: the item is popped and inserted back, as the last.
\* get of one that is not changes nothing, and returns None.
Touch(cache, key) ==
  IF key \in Keys(cache)
  THEN Append(RemoveAt(cache, Place(cache, key)), Item(key, ValueOf(cache, key)))
  ELSE cache

\* Assignment to a key of a dict: one that is there keeps its place.
Assign(cache, key, value) ==
  IF key \in Keys(cache)
  THEN [cache EXCEPT ![Place(cache, key)] = Item(key, value)]
  ELSE Append(cache, Item(key, value))

\* set: a full cache loses its first item, whether or not the key is there.  The
\* size must not be zero: an empty full cache has no first item, and the code
\* would delete a key that PyDict_Next has not set.
Put(cache, maxsize, key, value) ==
  Assign(IF Len(cache) = maxsize THEN Tail(cache) ELSE cache, key, value)
=============================================================================
