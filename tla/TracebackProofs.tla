--------------------------- MODULE TracebackProofs ---------------------------
(***************************************************************************)
(* Theorems about Traceback, for any number of threads and files, chains   *)
(* of any length and caches of any size: the caches stay within their      *)
(* bounds, and no call sees what other calls do to them.                   *)
(***************************************************************************)
EXTENDS Traceback, FiniteSetTheorems, WellFoundedInduction, TLAPS

-----------------------------------------------------------------------------
(* Caches                                                                   *)

Unique(cache) ==
  \A i, j \in DOMAIN cache : cache[i].key = cache[j].key => i = j

\* The key of an item is found at its place.
LEMMA Found ==
  ASSUME NEW cache, NEW key \in Keys(cache)
  PROVE  /\ Place(cache, key) \in DOMAIN cache
         /\ cache[Place(cache, key)].key = key
  BY DEF Keys, Place

\* Removal of one place moves those after it down.
LEMMA Removed ==
  ASSUME NEW S, NEW s \in Seq(S), NEW p \in 1..Len(s)
  PROVE  /\ RemoveAt(s, p) \in Seq(S) /\ Len(RemoveAt(s, p)) = Len(s) - 1
         /\ \A i \in 1..(Len(s) - 1) :
              RemoveAt(s, p)[i] = IF i < p THEN s[i] ELSE s[i + 1]
<1> DEFINE n == Len(s)
           l == SubSeq(s, 1, p - 1)
           u == SubSeq(s, p + 1, n)
<1>1. n \in Nat /\ p \in Nat /\ 1 <= p /\ p <= n
  OBVIOUS
<1>2. l \in Seq(S) /\ Len(l) = p - 1 /\ \A i \in 1..(p - 1) : l[i] = s[i]
  <2>1. p - 1 \in 0..n
    BY <1>1
  <2> QED
    BY <1>1, <2>1
<1>3. u \in Seq(S) /\ Len(u) = n - p /\ \A i \in 1..(n - p) : u[i] = s[p + i]
  <2>1. u \in Seq(S) /\ Len(u) = n - p
    BY <1>1
  <2>2. ASSUME NEW i \in 1..(n - p) PROVE u[i] = s[p + i]
    <3>1. u[i] = s[(p + 1) + i - 1] /\ (p + 1) + i - 1 = p + i
      BY <1>1, <2>2
    <3> QED
      BY <3>1
  <2> QED
    BY <2>1, <2>2
<1>4. RemoveAt(s, p) = l \o u
  BY DEF RemoveAt
<1> HIDE DEF l, u
<1>5. /\ l \o u \in Seq(S) /\ Len(l \o u) = Len(l) + Len(u)
      /\ \A i \in 1..(Len(l) + Len(u)) : (l \o u)[i] = IF i <= Len(l) THEN l[i] ELSE u[i - Len(l)]
  <2>1. l \in Seq(S) /\ u \in Seq(S)
    BY <1>2, <1>3
  <2>2. l \o u \in Seq(S) /\ Len(l \o u) = Len(l) + Len(u)
    BY <2>1
  <2>3. \A i \in 1..(Len(l) + Len(u)) : (l \o u)[i] = IF i <= Len(l) THEN l[i] ELSE u[i - Len(l)]
    BY <2>1
  <2> QED
    BY <2>2, <2>3
<1>6. Len(l) + Len(u) = n - 1
  BY <1>1, <1>2, <1>3
<1>7. ASSUME NEW i \in 1..(n - 1)
      PROVE  (l \o u)[i] = IF i < p THEN s[i] ELSE s[i + 1]
  <2>1. (l \o u)[i] = IF i <= p - 1 THEN l[i] ELSE u[i - (p - 1)]
    BY <1>2, <1>5, <1>6
  <2>2. CASE i < p
    <3>1. i \in 1..(p - 1) /\ i <= p - 1
      BY <1>1, <2>2
    <3> QED
      BY <1>2, <2>1, <2>2, <3>1
  <2>3. CASE ~(i < p)
    <3>1. ~(i <= p - 1) /\ i - (p - 1) \in 1..(n - p) /\ p + (i - (p - 1)) = i + 1
      BY <1>1, <2>3
    <3> QED
      BY <1>3, <2>1, <2>3, <3>1
  <2> QED
    BY <2>2, <2>3
<1> QED
  BY <1>4, <1>5, <1>6, <1>7

\* pop and insertion move an item to the end.
LEMMA Touched ==
  ASSUME NEW S, NEW cache \in Seq(S), NEW key \in Keys(cache), Unique(cache),
         \A x \in S : x = Item(x.key, x.value)
  PROVE  LET d == Touch(cache, key)
         IN /\ d \in Seq(S) /\ Len(d) = Len(cache) /\ Unique(d)
            /\ \A i \in DOMAIN d : \E j \in DOMAIN cache : d[i] = cache[j]
<1> DEFINE n == Len(cache)
           p == Place(cache, key)
           r == RemoveAt(cache, p)
           x == Item(key, ValueOf(cache, key))
           d == Append(r, x)
<1>1. p \in 1..n /\ cache[p].key = key /\ DOMAIN cache = 1..n /\ n \in Nat
  <2>1. p \in DOMAIN cache /\ cache[p].key = key
    BY Found
  <2> QED
    BY <2>1
<1>2. x = cache[p] /\ x \in S
  <2>1. cache[p] \in S
    BY <1>1
  <2>2. x = Item(cache[p].key, cache[p].value)
    BY <1>1 DEF ValueOf
  <2> QED
    BY <2>1, <2>2
<1>3. /\ r \in Seq(S) /\ Len(r) = n - 1
      /\ \A i \in 1..(n - 1) : r[i] = IF i < p THEN cache[i] ELSE cache[i + 1]
  BY <1>1, Removed
<1> DEFINE From(i) == IF i < p THEN i ELSE IF i < n THEN i + 1 ELSE p
<1>4. /\ d \in Seq(S) /\ Len(d) = n /\ DOMAIN d = 1..n
      /\ \A i \in 1..n : From(i) \in 1..n /\ d[i] = cache[From(i)]
  <2> HIDE DEF r, x
  <2>1. d \in Seq(S) /\ Len(d) = (n - 1) + 1 /\ DOMAIN d = 1..((n - 1) + 1)
    BY <1>2, <1>3
  <2>2. (n - 1) + 1 = n
    BY <1>1
  <2>3. ASSUME NEW i \in 1..n
        PROVE  From(i) \in 1..n /\ d[i] = cache[From(i)]
    <3>1. CASE i = n
      <4>1. d[i] = x /\ From(i) = p
        BY <1>1, <1>2, <1>3, <3>1
      <4> QED
        BY <1>1, <1>2, <4>1
    <3>2. CASE i # n
      <4>1. i \in 1..(n - 1) /\ i < n
        <5>1. n \in Nat /\ i \in Nat /\ 1 <= i /\ i <= n
          BY <1>1
        <5> HIDE DEF n
        <5> QED
          BY <3>2, <5>1
      <4>2. d[i] = r[i]
        BY <1>1, <1>2, <1>3, <4>1
      <4>3. From(i) = (IF i < p THEN i ELSE i + 1) /\ From(i) \in 1..n
        BY <1>1, <4>1
      <4> QED
        BY <1>3, <4>1, <4>2, <4>3
    <3> QED
      BY <3>1, <3>2
  <2> QED
    BY <2>1, <2>2, <2>3
<1>5. \A i, j \in 1..n : From(i) = From(j) => i = j
  BY <1>1
<1>6. Unique(d)
  <2> HIDE DEF d, From
  <2> QED
    BY <1>1, <1>4, <1>5 DEF Unique
<1>7. Touch(cache, key) = d
  BY DEF Touch
<1> HIDE DEF d, From
<1> QED
  BY <1>1, <1>4, <1>6, <1>7

\* Assignment keeps the places of the other items, and adds one for a new key.
LEMMA Assigned ==
  ASSUME NEW S, NEW cache \in Seq(S), NEW key, NEW value, Item(key, value) \in S,
         Unique(cache)
  PROVE  LET d == Assign(cache, key, value)
         IN /\ d \in Seq(S) /\ Unique(d)
            /\ Len(d) \in {Len(cache), Len(cache) + 1}
            /\ \A i \in DOMAIN d : d[i] = Item(key, value) \/ \E j \in DOMAIN cache : d[i] = cache[j]
<1> DEFINE n == Len(cache)
           p == Place(cache, key)
           x == Item(key, value)
<1>1. x \in S /\ x.key = key /\ DOMAIN cache = 1..n /\ n \in Nat
  BY DEF Item
<1> HIDE DEF x
<1>2. CASE key \in Keys(cache)
  <2> DEFINE d == [cache EXCEPT ![p] = x]
  <2>1. p \in 1..n /\ cache[p].key = key
    BY <1>1, <1>2, Found
  <2>2. d \in Seq(S) /\ Len(d) = n /\ DOMAIN d = 1..n
    BY <1>1, <2>1
  <2>3. \A i \in 1..n : d[i] = IF i = p THEN x ELSE cache[i]
    BY <1>1, <2>1
  <2>4. Assign(cache, key, value) = d
    BY <1>2 DEF Assign, x
  <2> HIDE DEF d
  <2>5. Unique(d)
    BY <1>1, <2>1, <2>2, <2>3 DEF Unique
  <2> QED
    BY <1>1, <2>2, <2>3, <2>4, <2>5 DEF x
<1>3. CASE key \notin Keys(cache)
  <2> DEFINE d == Append(cache, x)
  <2>1. d \in Seq(S) /\ Len(d) = n + 1 /\ DOMAIN d = 1..(n + 1)
    BY <1>1
  <2>2. d[n + 1] = x /\ \A i \in 1..n : d[i] = cache[i] /\ cache[i].key # key
    BY <1>1, <1>3 DEF Keys
  <2>3. \A i \in 1..(n + 1) : i = n + 1 \/ i \in 1..n
    BY <1>1
  <2>4. Assign(cache, key, value) = d
    BY <1>3 DEF Assign, x
  <2> HIDE DEF d
  <2>5. Unique(d)
    BY <1>1, <2>1, <2>2, <2>3 DEF Unique
  <2> QED
    BY <1>1, <2>1, <2>2, <2>3, <2>4, <2>5 DEF x
<1> QED
  BY <1>2, <1>3

\* set evicts one item when the cache is full, and so stays within the size.
LEMMA PutBounded ==
  ASSUME NEW S, NEW cache \in Seq(S), NEW key, NEW value, Item(key, value) \in S,
         Unique(cache), NEW maxsize \in Nat \ {0}, Len(cache) <= maxsize
  PROVE  LET d == Put(cache, maxsize, key, value)
         IN /\ d \in Seq(S) /\ Unique(d) /\ Len(d) <= maxsize
            /\ \A i \in DOMAIN d : d[i] = Item(key, value) \/ \E j \in DOMAIN cache : d[i] = cache[j]
<1> DEFINE n == Len(cache)
           c == IF n = maxsize THEN Tail(cache) ELSE cache
<1>1. n \in Nat /\ DOMAIN cache = 1..n
  OBVIOUS
<1>2. /\ c \in Seq(S) /\ Len(c) + 1 <= maxsize /\ Len(c) \in Nat /\ Unique(c)
      /\ \A i \in DOMAIN c : \E j \in DOMAIN cache : c[i] = cache[j]
  <2>1. CASE n = maxsize
    <3>1. /\ Tail(cache) \in Seq(S) /\ Len(Tail(cache)) = n - 1
          /\ DOMAIN Tail(cache) = 1..(n - 1)
          /\ \A i \in 1..(n - 1) : Tail(cache)[i] = cache[i + 1]
      BY <2>1
    <3>2. \A i \in 1..(n - 1) : i + 1 \in 1..n
      BY <1>1
    <3>3. Unique(Tail(cache))
      <4> SUFFICES ASSUME NEW i \in 1..(n - 1), NEW j \in 1..(n - 1),
                          Tail(cache)[i].key = Tail(cache)[j].key
                   PROVE  i = j
        BY <3>1 DEF Unique
      <4>1. i + 1 = j + 1
        BY <1>1, <3>1, <3>2 DEF Unique
      <4> QED
        BY <4>1
    <3>4. n - 1 \in Nat /\ (n - 1) + 1 <= maxsize
      BY <2>1
    <3>5. c = Tail(cache)
      BY <2>1
    <3> HIDE DEF c
    <3>6. \A i \in DOMAIN c : c[i] = cache[i + 1] /\ i + 1 \in DOMAIN cache
      BY <1>1, <3>1, <3>2, <3>5
    <3>7. c \in Seq(S) /\ Unique(c) /\ Len(c) = n - 1
      BY <3>1, <3>3, <3>5
    <3>8. \A i \in DOMAIN c : \E j \in DOMAIN cache : c[i] = cache[j]
      BY <3>6
    <3>9. Len(c) + 1 <= maxsize /\ Len(c) \in Nat
      BY <3>4, <3>7
    <3> QED
      BY <3>7, <3>8, <3>9
  <2>2. CASE n # maxsize
    <3>1. c = cache
      BY <2>2
    <3>2. n + 1 <= maxsize
      <4>1. n \in Nat /\ n <= maxsize /\ maxsize \in Nat
        BY <1>1
      <4> QED
        BY <2>2, <4>1
    <3> HIDE DEF c
    <3> QED
      BY <1>1, <3>1, <3>2
  <2> QED
    BY <2>1, <2>2
<1>3. Put(cache, maxsize, key, value) = Assign(c, key, value)
  BY DEF Put
<1> HIDE DEF c
<1> DEFINE d == Assign(c, key, value)
<1>4. /\ d \in Seq(S) /\ Unique(d) /\ Len(d) \in {Len(c), Len(c) + 1}
      /\ \A i \in DOMAIN d : d[i] = Item(key, value) \/ \E j \in DOMAIN c : d[i] = c[j]
  BY <1>2, Assigned
<1> HIDE DEF d
<1>5. Len(d) <= maxsize
  BY <1>2, <1>4
<1>6. \A i \in DOMAIN d : d[i] = Item(key, value) \/ \E j \in DOMAIN cache : d[i] = cache[j]
  BY <1>2, <1>4
<1> QED
  BY <1>3, <1>4, <1>5, <1>6 DEF d

\* A cache without a key twice has as many keys as items.
LEMMA KeysCounted ==
  ASSUME NEW S, NEW cache \in Seq(S), Unique(cache)
  PROVE  Cardinality(Keys(cache)) = Len(cache)
<1> DEFINE n == Len(cache)
           f == [i \in 1..n |-> cache[i].key]
<1>1. n \in Nat /\ DOMAIN cache = 1..n
  OBVIOUS
<1>2. f \in Bijection(1..n, Keys(cache))
  <2>1. f \in [1..n -> Keys(cache)]
    BY <1>1 DEF Keys
  <2>2. \A i, j \in 1..n : f[i] = f[j] => i = j
    BY <1>1 DEF Unique
  <2>3. \A k \in Keys(cache) : \E i \in 1..n : f[i] = k
    BY <1>1 DEF Keys
  <2> HIDE DEF f
  <2> QED
    BY <2>1, <2>2, <2>3, Zenon DEF Bijection, Injection, Surjection, IsInjective
<1>3. ExistsBijection(1..n, Keys(cache))
  BY <1>2 DEF ExistsBijection
<1>4. IsFiniteSet(1..n) /\ Cardinality(1..n) = n
  BY <1>1, FS_Interval
<1> QED
  BY <1>3, <1>4, FS_Bijection

-----------------------------------------------------------------------------
(* Calls                                                                    *)

EntryItems == [key : Frames, value : [data : Frames, ignore : BOOLEAN]]
FileItems == [key : Files, value : BOOLEAN]

EntryRight(item) ==
  item.value.data = item.key /\ (item.value.ignore <=> IsIgnored(item.key))
FileRight(item) == item.value <=> item.key \in IgnoredFiles

\* What a cache holds is what would be computed again.
CacheInv ==
  /\ entries \in Seq(EntryItems) /\ Unique(entries) /\ Len(entries) <= EntriesSize
  /\ files \in Seq(FileItems) /\ Unique(files) /\ Len(files) <= FilesSize
  /\ \A i \in DOMAIN entries : EntryRight(entries[i])
  /\ \A i \in DOMAIN files : FileRight(files[i])

\* The frames that a call has left behind: the one it is at counts when it is done.
Seen(t) == IF pc[t] \in {"entry", "file", "info", "ignored", "kept"} THEN at[t] - 1 ELSE at[t]

\* Frame k is the first of an application module, and the stack holds what comes
\* after it, as far as it has been seen.
StackFrom(t, k) ==
  /\ k \in 1..Seen(t) /\ ~IsIgnored(chain[t][k]) /\ \A i \in 1..(k - 1) : IsIgnored(chain[t][i])
  /\ Len(stack[t]) = Seen(t) - k + 1
  /\ \A i \in 1..Len(stack[t]) : stack[t][i] = chain[t][k + i - 1]

\* The stack holds nothing while all frames seen are ignored, and those from the
\* first that is not after that.
StackRight(t) ==
  \/ stack[t] = <<>> /\ \A i \in 1..Seen(t) : IsIgnored(chain[t][i])
  \/ \E k \in Nat : StackFrom(t, k)

CallTypes ==
  /\ pc \in [Threads -> {"idle", "back", "entry", "file", "info", "ignored", "kept", "done"}]
  /\ chain \in [Threads -> Seq(Frames)] /\ at \in [Threads -> Nat]
  /\ stack \in [Threads -> Seq(Frames)]

CallOK(t) ==
  /\ at[t] <= Len(chain[t]) /\ Len(stack[t]) <= NumEntries
  /\ pc[t] \in {"entry", "file", "info", "ignored", "kept"} =>
       at[t] > 0 /\ Len(stack[t]) < NumEntries
  /\ pc[t] = "ignored" => IsIgnored(Frame(t))
  /\ pc[t] = "kept" => ~IsIgnored(Frame(t))
  /\ StackRight(t)
  /\ pc[t] = "done" => at[t] = Len(chain[t]) \/ Len(stack[t]) = NumEntries

CallInv == CallTypes /\ \A t \in Threads : CallOK(t)

\* The caches are empty.
LEMMA CacheInit == Init => CacheInv
<1> SUFFICES ASSUME Init PROVE CacheInv
  OBVIOUS
<1>1. entries = <<>> /\ files = <<>> /\ DOMAIN <<>> = {} /\ Len(<<>>) = 0
  BY DEF Init, EmptyCache
<1>2. 0 <= EntriesSize /\ 0 <= FilesSize
  BY TracebackAssumption
<1>3. <<>> \in Seq(EntryItems) /\ <<>> \in Seq(FileItems)
  OBVIOUS
<1> QED
  BY <1>1, <1>2, <1>3 DEF CacheInv, Unique

\* The frame of a call that has come to one.
LEMMA FrameTyped ==
  ASSUME CallInv, NEW t \in Threads,
         pc[t] \in {"entry", "file", "info", "ignored", "kept"}
  PROVE  Frame(t) \in Frames /\ Frame(t)[1] \in Files
<1>1. chain[t] \in Seq(Frames) /\ at[t] \in 1..Len(chain[t])
  BY DEF CallInv, CallTypes, CallOK
<1>2. chain[t][at[t]] \in Frames
  BY <1>1
<1> QED
  BY <1>2 DEF Frame, Frames

\* Every step preserves CacheInv.
LEMMA CacheNext == CacheInv /\ CallInv /\ [Next]_vars => CacheInv'
<1> SUFFICES ASSUME CacheInv, CallInv, [Next]_vars PROVE CacheInv'
  OBVIOUS
<1>1. ASSUME UNCHANGED <<entries, files>> PROVE CacheInv'
  BY <1>1 DEF CacheInv, Unique
<1>2. /\ \A x \in EntryItems : x = Item(x.key, x.value)
      /\ \A x \in FileItems : x = Item(x.key, x.value)
  BY DEF EntryItems, FileItems, Item
<1>3. ASSUME NEW t \in Threads, EntryHit(t) PROVE CacheInv'
  <2> DEFINE key == EntryKey(Frame(t))
  <2>1. key \in Keys(entries) /\ entries' = Touch(entries, key) /\ files' = files
    BY <1>3 DEF EntryHit
  <2> HIDE DEF key
  <2>2. /\ entries' \in Seq(EntryItems) /\ Len(entries') = Len(entries) /\ Unique(entries')
        /\ \A i \in DOMAIN entries' : \E j \in DOMAIN entries : entries'[i] = entries[j]
    BY <1>2, <2>1, Touched DEF CacheInv
  <2>3. \A i \in DOMAIN entries' : EntryRight(entries'[i])
    BY <2>2 DEF CacheInv
  <2> QED
    BY <2>1, <2>2, <2>3 DEF CacheInv, EntryRight, FileRight, IsIgnored
<1>4. ASSUME NEW t \in Threads, FileHit(t) PROVE CacheInv'
  <2> DEFINE key == Frame(t)[1]
  <2>1. key \in Keys(files) /\ files' = Touch(files, key) /\ entries' = entries
    BY <1>4 DEF FileHit
  <2> HIDE DEF key
  <2>2. /\ files' \in Seq(FileItems) /\ Len(files') = Len(files) /\ Unique(files')
        /\ \A i \in DOMAIN files' : \E j \in DOMAIN files : files'[i] = files[j]
    BY <1>2, <2>1, Touched DEF CacheInv
  <2>3. \A i \in DOMAIN files' : FileRight(files'[i])
    BY <2>2 DEF CacheInv
  <2> QED
    BY <2>1, <2>2, <2>3 DEF CacheInv, EntryRight, FileRight, IsIgnored
<1>5. ASSUME NEW t \in Threads, SetFile(t) PROVE CacheInv'
  <2> DEFINE key == Frame(t)[1]
             value == IsIgnored(Frame(t))
  <2>1. files' = Put(files, FilesSize, key, value) /\ entries' = entries /\ pc[t] = "info"
    BY <1>5 DEF SetFile
  <2>2. key \in Files
    BY <2>1, FrameTyped
  <2>3. value \in BOOLEAN /\ (value <=> key \in IgnoredFiles)
    BY DEF IsIgnored
  <2> HIDE DEF key, value
  <2>4. Item(key, value) \in FileItems /\ FileRight(Item(key, value))
    BY <2>2, <2>3 DEF Item, FileItems, FileRight
  <2>5. /\ files \in Seq(FileItems) /\ Unique(files) /\ Len(files) <= FilesSize
        /\ FilesSize \in Nat \ {0}
    BY TracebackAssumption DEF CacheInv
  <2>6. /\ files' \in Seq(FileItems) /\ Unique(files') /\ Len(files') <= FilesSize
        /\ \A i \in DOMAIN files' : files'[i] = Item(key, value) \/ \E j \in DOMAIN files : files'[i] = files[j]
    BY <2>1, <2>4, <2>5, PutBounded
  <2>7. \A i \in DOMAIN files' : FileRight(files'[i])
    BY <2>4, <2>6 DEF CacheInv
  <2> QED
    BY <2>1, <2>6, <2>7 DEF CacheInv, EntryRight, FileRight, IsIgnored
<1>6. ASSUME NEW t \in Threads, SetEntry(t) PROVE CacheInv'
  <2> DEFINE key == Frame(t)
             value == [data |-> Frame(t), ignore |-> pc[t] = "ignored"]
  <2>1. /\ entries' = Put(entries, EntriesSize, key, value) /\ files' = files
        /\ pc[t] \in {"ignored", "kept"}
    BY <1>6 DEF SetEntry, EntryKey
  <2>2. key \in Frames
    BY <2>1, FrameTyped
  <2>3. value \in [data : Frames, ignore : BOOLEAN] /\ value.data = key
        /\ (value.ignore <=> IsIgnored(key))
    <3>1. IsIgnored(key) <=> pc[t] = "ignored"
      BY <2>1 DEF CallInv, CallOK
    <3> QED
      BY <2>2, <3>1
  <2> HIDE DEF key, value
  <2>4. Item(key, value) \in EntryItems /\ EntryRight(Item(key, value))
    BY <2>2, <2>3 DEF Item, EntryItems, EntryRight
  <2>5. /\ entries \in Seq(EntryItems) /\ Unique(entries) /\ Len(entries) <= EntriesSize
        /\ EntriesSize \in Nat \ {0}
    BY TracebackAssumption DEF CacheInv
  <2>6. /\ entries' \in Seq(EntryItems) /\ Unique(entries') /\ Len(entries') <= EntriesSize
        /\ \A i \in DOMAIN entries' :
             entries'[i] = Item(key, value) \/ \E j \in DOMAIN entries : entries'[i] = entries[j]
    BY <2>1, <2>4, <2>5, PutBounded
  <2>7. \A i \in DOMAIN entries' : EntryRight(entries'[i])
    BY <2>4, <2>6 DEF CacheInv
  <2> QED
    BY <2>1, <2>6, <2>7 DEF CacheInv, EntryRight, FileRight, IsIgnored
<1>7. ASSUME NEW t \in Threads, BeginStack(t) \/ GetBack(t) \/ EntryMiss(t) \/ FileMiss(t)
      PROVE  UNCHANGED <<entries, files>>
  BY <1>7 DEF BeginStack, GetBack, EntryMiss, FileMiss, cacheVars
<1>8. CASE UNCHANGED vars
  BY <1>1, <1>8 DEF vars, cacheVars
<1> QED
  BY <1>1, <1>3, <1>4, <1>5, <1>6, <1>7, <1>8 DEF Next

\* No call has begun.
LEMMA CallInit == Init => CallInv
<1> SUFFICES ASSUME Init PROVE CallInv
  OBVIOUS
<1>1. /\ pc = [t \in Threads |-> "idle"] /\ chain = [t \in Threads |-> <<>>]
      /\ at = [t \in Threads |-> 0] /\ stack = [t \in Threads |-> <<>>]
  BY DEF Init
<1>2. CallTypes
  BY <1>1 DEF CallTypes
<1>3. ASSUME NEW t \in Threads PROVE CallOK(t)
  <2>1. Len(<<>>) = 0 /\ 0 <= NumEntries /\ Seen(t) = 0 /\ 1..0 = {}
    BY <1>1, TracebackAssumption DEF Seen
  <2> QED
    BY <1>1, <2>1 DEF CallOK, StackRight
<1> QED
  BY <1>2, <1>3 DEF CallInv

\* A step that leaves a call where it is.
LEMMA StaysRight ==
  ASSUME NEW t \in Threads, StackRight(t), Seen(t)' = Seen(t),
         chain'[t] = chain[t], stack'[t] = stack[t]
  PROVE  StackRight(t)'
<1>1. CASE stack[t] = <<>> /\ \A i \in 1..Seen(t) : IsIgnored(chain[t][i])
  BY <1>1 DEF StackRight, IsIgnored
<1>2. CASE \E k \in Nat : StackFrom(t, k)
  <2>1. PICK k \in Nat : StackFrom(t, k)
    BY <1>2
  <2>2. StackFrom(t, k)'
    BY <2>1 DEF StackFrom, IsIgnored
  <2> QED
    BY <2>2 DEF StackRight
<1> QED
  BY <1>1, <1>2 DEF StackRight

\* What a call is about to collect is its frame, unless it is a leading ignored one.
LEMMA Collected ==
  ASSUME CallInv, NEW t \in Threads, pc[t] \in {"entry", "ignored", "kept"}, NEW entry,
         entry.data = Frame(t), entry.ignore <=> IsIgnored(Frame(t)),
         Collect(t, entry), Goto(t, "back"), UNCHANGED <<chain, at>>
  PROVE  CallInv'
<1> DEFINE c == chain[t]
           n == at[t]
           s == stack[t]
           x == Frame(t)
<1>1. /\ CallTypes /\ CallOK(t) /\ n \in Nat /\ n > 0 /\ n <= Len(c) /\ Len(s) < NumEntries
      /\ c \in Seq(Frames) /\ s \in Seq(Frames) /\ Seen(t) = n - 1 /\ x = c[n]
  BY DEF CallInv, CallTypes, CallOK, Seen, Frame
<1>2. x \in Frames
  BY FrameTyped
<1>3. /\ pc' = [pc EXCEPT ![t] = "back"] /\ chain' = chain /\ at' = at
      /\ stack' = IF IsIgnored(x) /\ s = <<>> THEN stack
                  ELSE [stack EXCEPT ![t] = Append(s, x)]
  <2>1. stack' = IF entry.ignore /\ s = <<>> THEN stack
                 ELSE [stack EXCEPT ![t] = Append(s, entry.data)]
    BY <1>1 DEF Collect, Collecting, CallTypes
  <2> QED
    BY <2>1 DEF Goto
<1> HIDE DEF x
<1>4. CallTypes'
  BY <1>1, <1>2, <1>3 DEF CallTypes
<1>5. /\ pc'[t] = "back" /\ stack'[t] = IF IsIgnored(x) /\ s = <<>> THEN s ELSE Append(s, x)
      /\ \A u \in Threads \ {t} : pc'[u] = pc[u] /\ stack'[u] = stack[u]
  BY <1>1, <1>3 DEF CallTypes
<1>6. Seen(t)' = n /\ \A u \in Threads \ {t} : Seen(u)' = Seen(u)
  BY <1>3, <1>5 DEF Seen
<1>7. NumEntries \in Nat
  BY TracebackAssumption
<1>8. CallOK(t)'
  <2>1. Len(stack'[t]) <= NumEntries
    BY <1>1, <1>2, <1>5, <1>7
  <2>2. \/ stack'[t] = <<>> /\ \A i \in 1..n : IsIgnored(c[i])
        \/ \E k \in Nat : /\ k \in 1..n /\ ~IsIgnored(c[k]) /\ \A i \in 1..(k - 1) : IsIgnored(c[i])
                          /\ Len(stack'[t]) = n - k + 1
                          /\ \A i \in 1..Len(stack'[t]) : stack'[t][i] = c[k + i - 1]
    <3>1. CASE s = <<>> /\ \A i \in 1..(n - 1) : IsIgnored(c[i])
      <4>1. CASE IsIgnored(x)
        BY <1>1, <1>5, <3>1, <4>1
      <4>2. CASE ~IsIgnored(x)
        <5>1. stack'[t] = <<x>>
          BY <1>2, <1>5, <3>1, <4>2
        <5>2. n \in Nat /\ n \in 1..n /\ Len(<<x>>) = n - n + 1 /\ n + 1 - 1 = n
          BY <1>1
        <5>3. \A i \in 1..Len(<<x>>) : <<x>>[i] = c[n + i - 1]
          <6>1. \A i \in 1..Len(<<x>>) : i = 1
            OBVIOUS
          <6> QED
            BY <1>1, <5>2, <6>1
        <5>4. ~IsIgnored(c[n]) /\ \A i \in 1..(n - 1) : IsIgnored(c[i])
          BY <1>1, <3>1, <4>2
        <5>5. /\ Len(stack'[t]) = n - n + 1
              /\ \A i \in 1..Len(stack'[t]) : stack'[t][i] = c[n + i - 1]
          BY <5>1, <5>2, <5>3
        <5> QED
          BY <5>2, <5>4, <5>5
      <4> QED
        BY <4>1, <4>2
    <3>2. CASE \E k \in Nat : StackFrom(t, k)
      <4>1. PICK k \in Nat :
              /\ k \in 1..(n - 1) /\ ~IsIgnored(c[k]) /\ \A i \in 1..(k - 1) : IsIgnored(c[i])
              /\ Len(s) = (n - 1) - k + 1
              /\ \A i \in 1..Len(s) : s[i] = c[k + i - 1]
        BY <1>1, <3>2 DEF StackFrom
      <4>2. s # <<>> /\ stack'[t] = Append(s, x)
        BY <1>1, <1>5, <4>1
      <4>3. /\ k \in 1..n /\ Len(Append(s, x)) = n - k + 1
            /\ \A i \in 1..(n - k + 1) : i = n - k + 1 \/ i \in 1..Len(s)
        BY <1>1, <1>2, <4>1
      <4>4. ASSUME NEW i \in 1..(n - k + 1) PROVE Append(s, x)[i] = c[k + i - 1]
        <5>1. CASE i = n - k + 1
          <6>1. i = Len(s) + 1 /\ k + i - 1 = n
            BY <1>1, <4>1, <5>1
          <6> QED
            BY <1>1, <1>2, <6>1
        <5>2. CASE i \in 1..Len(s)
          <6>1. Append(s, x)[i] = s[i]
            BY <1>1, <1>2, <5>2
          <6>2. s[i] = c[k + i - 1]
            BY <4>1, <5>2
          <6> QED
            BY <6>1, <6>2
        <5> QED
          BY <4>3, <5>1, <5>2
      <4> QED
        BY <4>1, <4>2, <4>3, <4>4, ZenonT(30)
    <3> QED
      BY <1>1, <3>1, <3>2 DEF CallOK, StackRight
  <2>3. StackRight(t)'
    BY <1>3, <1>6, <2>2 DEF StackRight, StackFrom, IsIgnored
  <2> QED
    BY <1>1, <1>3, <1>5, <2>1, <2>3 DEF CallOK, IsIgnored
<1>9. ASSUME NEW u \in Threads \ {t} PROVE CallOK(u)'
  <2>1. CallOK(u)
    BY DEF CallInv
  <2>2. StackRight(u)'
    BY <1>3, <1>5, <1>6, <2>1, StaysRight DEF CallOK
  <2> QED
    BY <1>3, <1>5, <2>1, <2>2 DEF CallOK, Frame, IsIgnored
<1> QED
  BY <1>4, <1>8, <1>9 DEF CallInv

\* A step of a call that collects nothing.
LEMMA OtherCalls ==
  ASSUME CallInv, NEW t \in Threads, CallTypes', CallOK(t)',
         \A u \in Threads \ {t} : /\ pc'[u] = pc[u] /\ chain'[u] = chain[u]
                                  /\ at'[u] = at[u] /\ stack'[u] = stack[u]
  PROVE  CallInv'
<1>1. ASSUME NEW u \in Threads \ {t} PROVE CallOK(u)'
  <2>1. CallOK(u)
    BY DEF CallInv
  <2>2. Seen(u)' = Seen(u)
    BY DEF Seen
  <2>3. StackRight(u)'
    BY <2>1, <2>2, StaysRight DEF CallOK
  <2> QED
    BY <2>1, <2>3 DEF CallOK, Frame, IsIgnored
<1> QED
  BY <1>1 DEF CallInv

\* Every step preserves CallInv.
LEMMA CallNext == CacheInv /\ CallInv /\ [Next]_vars => CallInv'
<1> SUFFICES ASSUME CacheInv, CallInv, [Next]_vars PROVE CallInv'
  OBVIOUS
<1>0. CallTypes /\ \A t \in Threads : CallOK(t)
  BY DEF CallInv
<1>1. ASSUME NEW t \in Threads, BeginStack(t) PROVE CallInv'
  <2>1. PICK c \in Chains :
          /\ chain' = [chain EXCEPT ![t] = c] /\ at' = [at EXCEPT ![t] = 0]
          /\ stack' = [stack EXCEPT ![t] = <<>>]
          /\ pc' = [pc EXCEPT ![t] = IF NumEntries = 0 THEN "done" ELSE "back"]
    BY <1>1 DEF BeginStack, Goto
  <2>2. c \in Seq(Frames) /\ NumEntries \in Nat
    BY TracebackAssumption
  <2>3. CallTypes'
    BY <1>0, <2>1, <2>2 DEF CallTypes
  <2>4. /\ chain'[t] = c /\ at'[t] = 0 /\ stack'[t] = <<>>
        /\ pc'[t] = IF NumEntries = 0 THEN "done" ELSE "back"
    BY <1>0, <2>1 DEF CallTypes
  <2>5. Seen(t)' = 0 /\ 1..0 = {} /\ Len(<<>>) = 0
    BY <2>4 DEF Seen
  <2>6. CallOK(t)'
    BY <2>2, <2>4, <2>5 DEF CallOK, StackRight
  <2> QED
    BY <1>0, <2>1, <2>3, <2>6, OtherCalls DEF CallTypes
<1>2. ASSUME NEW t \in Threads, GetBack(t) PROVE CallInv'
  <2>1. /\ pc[t] = "back" /\ UNCHANGED <<chain, stack>> /\ at[t] \in Nat
        /\ at[t] <= Len(chain[t]) /\ Len(stack[t]) <= NumEntries
    BY <1>0, <1>2 DEF GetBack, CallTypes, CallOK
  <2>2. CASE at[t] < Len(chain[t]) /\ Len(stack[t]) < NumEntries
    <3>1. at' = [at EXCEPT ![t] = at[t] + 1] /\ pc' = [pc EXCEPT ![t] = "entry"]
      BY <1>2, <2>2 DEF GetBack, Goto
    <3>2. CallTypes' /\ at'[t] = at[t] + 1 /\ pc'[t] = "entry"
      BY <1>0, <2>1, <3>1 DEF CallTypes
    <3>3. Seen(t)' = Seen(t)
      BY <2>1, <3>2 DEF Seen
    <3>4. at'[t] <= Len(chain[t]) /\ at'[t] > 0
      BY <1>0, <2>1, <2>2, <3>2 DEF CallTypes
    <3>5. StackRight(t)'
      BY <1>0, <2>1, <3>3, StaysRight DEF CallOK
    <3>6. CallOK(t)'
      BY <2>1, <2>2, <3>2, <3>4, <3>5 DEF CallOK, IsIgnored
    <3> QED
      BY <1>0, <2>1, <3>1, <3>2, <3>6, OtherCalls DEF CallTypes
  <2>3. CASE ~(at[t] < Len(chain[t]) /\ Len(stack[t]) < NumEntries)
    <3>1. at' = at /\ pc' = [pc EXCEPT ![t] = "done"]
      BY <1>2, <2>3 DEF GetBack, Goto
    <3>2. CallTypes' /\ pc'[t] = "done"
      BY <1>0, <2>1, <3>1 DEF CallTypes
    <3>3. Seen(t)' = Seen(t)
      BY <2>1, <3>1, <3>2 DEF Seen
    <3>4. at[t] = Len(chain[t]) \/ Len(stack[t]) = NumEntries
      <4>1. Len(chain[t]) \in Nat /\ Len(stack[t]) \in Nat /\ NumEntries \in Nat
        BY <1>0, TracebackAssumption DEF CallTypes
      <4> QED
        BY <2>1, <2>3, <4>1
    <3>5. StackRight(t)'
      BY <1>0, <2>1, <3>3, StaysRight DEF CallOK
    <3>6. CallOK(t)'
      BY <2>1, <3>1, <3>2, <3>4, <3>5 DEF CallOK, IsIgnored
    <3> QED
      BY <1>0, <2>1, <3>1, <3>2, <3>6, OtherCalls DEF CallTypes
  <2> QED
    BY <2>2, <2>3
<1>3. ASSUME NEW t \in Threads, EntryHit(t) PROVE CallInv'
  <2> DEFINE key == Frame(t)
             entry == ValueOf(entries, key)
  <2>1. /\ pc[t] = "entry" /\ key \in Keys(entries) /\ Collect(t, entry) /\ Goto(t, "back")
        /\ UNCHANGED <<chain, at>>
    BY <1>3 DEF EntryHit, EntryKey
  <2>2. entry.data = key /\ (entry.ignore <=> IsIgnored(key))
    <3>1. Place(entries, key) \in DOMAIN entries /\ entries[Place(entries, key)].key = key
      BY <2>1, Found
    <3>2. EntryRight(entries[Place(entries, key)])
      BY <3>1 DEF CacheInv
    <3> QED
      BY <3>1, <3>2 DEF EntryRight, ValueOf
  <2> HIDE DEF entry
  <2> QED
    BY <2>1, <2>2, Collected
<1>4. ASSUME NEW t \in Threads, SetEntry(t) PROVE CallInv'
  <2> DEFINE entry == [data |-> Frame(t), ignore |-> pc[t] = "ignored"]
  <2>1. /\ pc[t] \in {"ignored", "kept"} /\ Collect(t, entry) /\ Goto(t, "back")
        /\ UNCHANGED <<chain, at>>
    BY <1>4 DEF SetEntry
  <2>2. entry.data = Frame(t) /\ (entry.ignore <=> IsIgnored(Frame(t)))
    BY <1>0, <2>1 DEF CallOK
  <2> HIDE DEF entry
  <2> QED
    BY <2>1, <2>2, Collected
<1>5. ASSUME NEW t \in Threads, EntryMiss(t) \/ FileHit(t) \/ FileMiss(t) \/ SetFile(t)
      PROVE  CallInv'
  <2>1. /\ pc[t] \in {"entry", "file", "info"} /\ UNCHANGED <<chain, at, stack>>
        /\ \E p \in {"file", "info", "ignored", "kept"} :
             /\ pc' = [pc EXCEPT ![t] = p]
             /\ p = "ignored" => IsIgnored(Frame(t))
             /\ p = "kept" => ~IsIgnored(Frame(t))
    <3>1. CASE EntryMiss(t) \/ FileMiss(t) \/ SetFile(t)
      BY <3>1 DEF EntryMiss, FileMiss, SetFile, Goto, callVars
    <3>2. CASE FileHit(t)
      <4> DEFINE key == Frame(t)[1]
      <4>1. key \in Keys(files)
        BY <3>2 DEF FileHit
      <4>2. Place(files, key) \in DOMAIN files /\ files[Place(files, key)].key = key
        BY <4>1, Found
      <4>3. FileRight(files[Place(files, key)])
        BY <4>2 DEF CacheInv
      <4>4. ValueOf(files, key) <=> IsIgnored(Frame(t))
        BY <4>2, <4>3 DEF FileRight, ValueOf, IsIgnored
      <4> QED
        BY <3>2, <4>4 DEF FileHit, Goto, callVars
    <3> QED
      BY <1>5, <3>1, <3>2
  <2>2. PICK p \in {"file", "info", "ignored", "kept"} :
          /\ pc' = [pc EXCEPT ![t] = p]
          /\ p = "ignored" => IsIgnored(Frame(t))
          /\ p = "kept" => ~IsIgnored(Frame(t))
    BY <2>1
  <2>3. CallTypes' /\ pc'[t] = p
    BY <1>0, <2>1, <2>2 DEF CallTypes
  <2>4. Seen(t)' = Seen(t) /\ Frame(t)' = Frame(t)
    BY <2>1, <2>3 DEF Seen, Frame
  <2>5. StackRight(t)'
    BY <1>0, <2>1, <2>4, StaysRight DEF CallOK
  <2>6. CallOK(t)'
    BY <1>0, <2>1, <2>2, <2>3, <2>4, <2>5 DEF CallOK, IsIgnored
  <2> QED
    BY <1>0, <2>1, <2>2, <2>3, <2>6, OtherCalls DEF CallTypes
<1>6. CASE UNCHANGED vars
  <2>1. CallTypes'
    BY <1>0, <1>6 DEF vars, callVars, CallTypes
  <2>2. ASSUME NEW t \in Threads PROVE CallOK(t)'
    <3>1. UNCHANGED <<pc, chain, at, stack>>
      BY <1>6 DEF vars, callVars
    <3>2. Seen(t)' = Seen(t)
      BY <3>1 DEF Seen
    <3>3. StackRight(t)'
      BY <1>0, <3>1, <3>2, StaysRight DEF CallOK
    <3> QED
      BY <1>0, <3>1, <3>3 DEF CallOK, Frame, IsIgnored
  <2> QED
    BY <2>1, <2>2 DEF CallInv
<1> QED
  BY <1>1, <1>2, <1>3, <1>4, <1>5, <1>6 DEF Next

\* LRUCache.set and get: the caches never hold more than their size, nor a key twice,
\* however many threads miss the same key and set it.
THEOREM Bounded == Spec => []CachesAreBounded
<1>1. CacheInv => CachesAreBounded
  BY KeysCounted DEF CacheInv, CachesAreBounded
<1> QED
  BY <1>1, CacheInit, CacheNext, CallInit, CallNext, PTL DEF Spec

\* What is left of a chain from frame k, the first of an application module.
LEMMA FromFirst ==
  ASSUME NEW c \in Seq(Frames), NEW k \in 1..Len(c), ~IsIgnored(c[k]),
         \A i \in 1..(k - 1) : IsIgnored(c[i])
  PROVE  FromFirstKept(c) = SubSeq(c, k, Len(c))
<1> DEFINE kept == {i \in DOMAIN c : ~IsIgnored(c[i])}
           first == CHOOSE i \in kept : \A j \in kept : i <= j
<1>1. DOMAIN c = 1..Len(c) /\ Len(c) \in Nat
  OBVIOUS
<1>2. k \in kept /\ kept \subseteq 1..Len(c)
  BY <1>1
<1>3. \A j \in kept : k <= j
  BY <1>1
<1>4. FromFirstKept(c) = SubSeq(c, first, Len(c))
  BY <1>2 DEF FromFirstKept
<1> HIDE DEF kept
<1>5. first \in kept /\ first <= k
  BY <1>2, <1>3
<1>6. k <= first
  BY <1>3, <1>5
<1> HIDE DEF first
<1>7. first \in 1..Len(c) /\ first \in Nat /\ k \in Nat
  BY <1>1, <1>2, <1>5
<1>8. first = k
  BY <1>5, <1>6, <1>7
<1> QED
  BY <1>4, <1>8

\* A set of numbers has a least one.
LEMMA LeastOf ==
  ASSUME NEW T \in SUBSET Nat, T # {}
  PROVE  \E k \in T : \A j \in T : k <= j
<1> DEFINE R == OpToRel(<, Nat)
<1>1. IsWellFoundedOn(R, Nat)
  BY NatLessThanWellFounded
<1>2. \A x, y \in Nat : y < x => <<y, x>> \in R
  BY DEF OpToRel
<1> HIDE DEF R
<1>3. T \subseteq Nat
  OBVIOUS
<1>4. PICK k \in T : \A j \in T : ~(<<j, k>> \in R)
  BY <1>1, <1>3, WFMin, Zenon
<1>5. \A j \in T : k \in Nat /\ j \in Nat /\ ~(j < k)
  BY <1>2, <1>3, <1>4
<1> QED
  BY <1>5

\* A part of a chain is a chain.
LEMMA FromFirstKeptTyped ==
  ASSUME NEW c \in Seq(Frames)
  PROVE  FromFirstKept(c) \in Seq(Frames)
<1>1. CASE \A i \in DOMAIN c : IsIgnored(c[i])
  <2>1. FromFirstKept(c) = <<>>
    BY <1>1 DEF FromFirstKept
  <2> QED
    BY <2>1
<1>2. CASE \E i \in DOMAIN c : ~IsIgnored(c[i])
  <2> DEFINE kept == {i \in DOMAIN c : ~IsIgnored(c[i])}
             first == CHOOSE i \in kept : \A j \in kept : i <= j
  <2>1. FromFirstKept(c) = SubSeq(c, first, Len(c))
    BY <1>2 DEF FromFirstKept
  <2>2. kept # {} /\ kept \subseteq Nat
    BY <1>2
  <2>3. PICK k \in kept : \A j \in kept : k <= j
    BY <2>2, LeastOf
  <2> HIDE DEF kept
  <2>4. first \in kept
    BY <2>3
  <2>5. first \in 1..Len(c)
    BY <2>4 DEF kept
  <2> HIDE DEF first
  <2>6. SubSeq(c, first, Len(c)) \in Seq(Frames)
    BY <2>5
  <2> QED
    BY <2>1, <2>6
<1> QED
  BY <1>1, <1>2

\* get_stack: whatever other threads do to the caches, a call returns the frames of its
\* own chain, for chains of any length.
THEOREM StacksAreRight == Spec => []StackIsChain
<1>1. CallInv => StackIsChain
  <2> SUFFICES ASSUME CallInv, NEW t \in Threads, pc[t] = "done"
               PROVE  stack[t] = SubSeq(FromFirstKept(chain[t]), 1,
                                        Least(NumEntries, Len(FromFirstKept(chain[t]))))
    BY DEF StackIsChain
  <2> DEFINE c == chain[t]
             s == stack[t]
             frames == FromFirstKept(c)
             kept == {i \in DOMAIN c : ~IsIgnored(c[i])}
  <2>1. /\ c \in Seq(Frames) /\ s \in Seq(Frames) /\ at[t] \in Nat /\ at[t] <= Len(c)
        /\ Len(s) <= NumEntries /\ Seen(t) = at[t] /\ StackRight(t)
        /\ at[t] = Len(c) \/ Len(s) = NumEntries
    BY DEF CallInv, CallTypes, CallOK, Seen
  <2>2. NumEntries \in Nat /\ Len(c) \in Nat /\ DOMAIN c = 1..Len(c)
    BY <2>1, TracebackAssumption
  <2>3. CASE s = <<>> /\ \A i \in 1..at[t] : IsIgnored(c[i])
    <3>1. Len(s) = 0
      BY <2>3
    <3>2. CASE at[t] = Len(c)
      <4>1. kept = {}
        BY <2>2, <2>3, <3>2
      <4>2. frames = <<>>
        BY <4>1 DEF FromFirstKept
      <4>3. Least(NumEntries, Len(frames)) = 0
        BY <2>2, <4>2 DEF Least
      <4> QED
        BY <2>3, <4>2, <4>3
    <3>3. CASE NumEntries = 0
      <4>1. Least(NumEntries, Len(frames)) = 0
        <5>1. frames \in Seq(Frames)
          BY <2>1, FromFirstKeptTyped
        <5>2. Len(frames) \in Nat
          BY <5>1
        <5> HIDE DEF frames
        <5> QED
          BY <3>3, <5>2 DEF Least
      <4>2. frames \in Seq(Frames)
        BY <2>1, FromFirstKeptTyped
      <4> HIDE DEF frames
      <4>3. SubSeq(frames, 1, 0) = <<>>
        BY <4>2
      <4> QED
        BY <2>3, <4>1, <4>3 DEF frames
    <3> QED
      BY <2>1, <3>1, <3>2, <3>3
  <2>4. CASE \E k \in Nat : StackFrom(t, k)
    <3>1. PICK k \in Nat :
            /\ k \in 1..at[t] /\ ~IsIgnored(c[k]) /\ \A i \in 1..(k - 1) : IsIgnored(c[i])
            /\ Len(s) = at[t] - k + 1
            /\ \A i \in 1..Len(s) : s[i] = c[k + i - 1]
      BY <2>1, <2>4 DEF StackFrom
    <3>2. frames = SubSeq(c, k, Len(c))
      <4>1. k \in 1..Len(c)
        BY <2>1, <2>2, <3>1
      <4> QED
        BY <2>1, <3>1, <4>1, FromFirst
    <3> HIDE DEF c, s, frames
    <3>3. /\ frames \in Seq(Frames) /\ Len(frames) = Len(c) - k + 1
          /\ \A i \in 1..Len(frames) : frames[i] = c[k + i - 1]
      BY <2>1, <2>2, <3>1, <3>2
    <3>4. Least(NumEntries, Len(frames)) = Len(s) /\ Len(s) <= Len(frames)
      BY <2>1, <2>2, <3>1, <3>3 DEF Least
    <3> DEFINE r == SubSeq(frames, 1, Len(s))
    <3>5. /\ r \in Seq(Frames) /\ Len(r) = Len(s)
          /\ \A i \in 1..Len(s) : r[i] = frames[i]
      BY <2>1, <3>3, <3>4
    <3> HIDE DEF r
    <3>6. \A i \in 1..Len(s) : s[i] = r[i]
      BY <3>1, <3>3, <3>4, <3>5
    <3>7. s = r
      BY <2>1, <3>5, <3>6
    <3> QED
      BY <3>4, <3>7 DEF r, s, c, frames
  <2> QED
    BY <2>1, <2>3, <2>4 DEF StackRight
<1> QED
  BY <1>1, CacheInit, CacheNext, CallInit, CallNext, PTL DEF Spec
-----------------------------------------------------------------------------
(* What is used last.                                                       *)

\* A cache holds the keys used last, in the order of their use.
Recent(cache, recent, size) ==
  /\ \A i, j \in DOMAIN recent : recent[i] = recent[j] => i = j
  /\ Len(cache) = Least(size, Len(recent))
  /\ \A i \in 1..Len(cache) : cache[i].key = recent[Len(recent) - Len(cache) + i]

\* A key used for the first time comes last.
LEMMA UsedFirst ==
  ASSUME NEW S, NEW recent \in Seq(S), NEW key \in S, \A i \in DOMAIN recent : recent[i] # key
  PROVE  /\ Used(recent, key) \in Seq(S) /\ Len(Used(recent, key)) = Len(recent) + 1
         /\ \A i \in 1..Len(recent) : Used(recent, key)[i] = recent[i]
         /\ Used(recent, key)[Len(recent) + 1] = key
<1>1. Used(recent, key) = Append(recent, key)
  BY DEF Used
<1> QED
  BY <1>1

\* A key used again moves from its place to the end.
LEMMA UsedAgain ==
  ASSUME NEW S, NEW recent \in Seq(S), NEW key \in S, NEW p \in 1..Len(recent),
         recent[p] = key, \A i, j \in DOMAIN recent : recent[i] = recent[j] => i = j
  PROVE  /\ Used(recent, key) \in Seq(S) /\ Len(Used(recent, key)) = Len(recent)
         /\ \A i \in 1..(Len(recent) - 1) :
              Used(recent, key)[i] = IF i < p THEN recent[i] ELSE recent[i + 1]
         /\ Used(recent, key)[Len(recent)] = key
<1> DEFINE m == Len(recent)
           r == RemoveAt(recent, p)
           places == {i \in DOMAIN recent : recent[i] = key}
<1>1. m \in Nat /\ DOMAIN recent = 1..m /\ (m - 1) + 1 = m
  OBVIOUS
<1>2. places = {p}
  BY <1>1
<1>3. Used(recent, key) = Append(r, key)
  <2>1. places # {} /\ (CHOOSE i \in places : TRUE) = p
    BY <1>2
  <2> QED
    BY <2>1 DEF Used
<1>4. /\ r \in Seq(S) /\ Len(r) = m - 1
      /\ \A i \in 1..(m - 1) : r[i] = IF i < p THEN recent[i] ELSE recent[i + 1]
  BY Removed
<1> HIDE DEF r
<1>5. /\ Append(r, key) \in Seq(S) /\ Len(Append(r, key)) = (m - 1) + 1
      /\ \A i \in 1..(m - 1) : Append(r, key)[i] = r[i]
      /\ Append(r, key)[(m - 1) + 1] = key
  <2>1. /\ Append(r, key) \in Seq(S) /\ Len(Append(r, key)) = Len(r) + 1
        /\ \A i \in 1..Len(r) : Append(r, key)[i] = r[i]
        /\ Append(r, key)[Len(r) + 1] = key
    BY <1>4
  <2> QED
    BY <1>4, <2>1
<1> QED
  BY <1>1, <1>3, <1>4, <1>5

\* A key is in the order of use once, however often it is used.
LEMMA UsedOnce ==
  ASSUME NEW S, NEW recent \in Seq(S), NEW key \in S,
         \A i, j \in DOMAIN recent : recent[i] = recent[j] => i = j
  PROVE  \A i, j \in DOMAIN Used(recent, key) :
           Used(recent, key)[i] = Used(recent, key)[j] => i = j
<1> DEFINE m == Len(recent)
           u == Used(recent, key)
<1>1. m \in Nat /\ DOMAIN recent = 1..m
  OBVIOUS
<1>2. CASE \A i \in DOMAIN recent : recent[i] # key
  <2>1. /\ u \in Seq(S) /\ Len(u) = m + 1
        /\ \A i \in 1..m : u[i] = recent[i] /\ u[i] # key
        /\ u[m + 1] = key
    BY <1>1, <1>2, UsedFirst
  <2> HIDE DEF u, m
  <2>2. DOMAIN u = 1..(m + 1) /\ \A i \in 1..(m + 1) : i = m + 1 \/ i \in 1..m
    BY <1>1, <2>1
  <2> QED
    BY <1>1, <2>1, <2>2 DEF u
<1>3. CASE \E i \in DOMAIN recent : recent[i] = key
  <2>1. PICK p \in 1..m : recent[p] = key
    BY <1>1, <1>3
  <2>2. /\ u \in Seq(S) /\ Len(u) = m
        /\ \A i \in 1..(m - 1) : u[i] = IF i < p THEN recent[i] ELSE recent[i + 1]
        /\ u[m] = key
    BY <1>1, <2>1, UsedAgain
  <2> DEFINE From(i) == IF i = m THEN p ELSE IF i < p THEN i ELSE i + 1
  <2> HIDE DEF u, m
  <2>3. DOMAIN u = 1..m
    BY <1>1, <2>2
  <2>4. \A i \in 1..m : From(i) \in 1..m /\ u[i] = recent[From(i)]
    <3> SUFFICES ASSUME NEW i \in 1..m PROVE From(i) \in 1..m /\ u[i] = recent[From(i)]
      OBVIOUS
    <3>1. CASE i = m
      BY <2>1, <2>2, <3>1
    <3>2. CASE i # m
      <4>1. i \in 1..(m - 1) /\ i + 1 \in 1..m
        BY <1>1, <3>2
      <4> QED
        BY <2>2, <3>2, <4>1
    <3> QED
      BY <3>1, <3>2
  <2>5. \A i, j \in 1..m : From(i) = From(j) => i = j
    BY <1>1, <2>1
  <2> HIDE DEF From
  <2> QED
    BY <1>1, <2>2, <2>3, <2>4, <2>5 DEF u
<1> QED
  BY <1>2, <1>3

\* get of a key makes it the last of the cache, as it is the last used.
LEMMA TouchedRecent ==
  ASSUME NEW S, NEW K, NEW cache \in Seq(S), NEW recent \in Seq(K), NEW key \in K,
         NEW size \in Nat, Recent(cache, recent, size), Len(cache) <= Len(recent),
         key \in Keys(cache), \A x \in S : x = Item(x.key, x.value)
  PROVE  Recent(Touch(cache, key), Used(recent, key), size)
<1> DEFINE n == Len(cache)
           m == Len(recent)
           q == Place(cache, key)
           p == m - n + q
           x == Item(key, ValueOf(cache, key))
           r == RemoveAt(cache, q)
           d == Append(r, x)
           u == Used(recent, key)
<1>1. /\ n \in Nat /\ m \in Nat /\ n <= m /\ n = Least(size, m)
      /\ \A i \in 1..n : cache[i].key = recent[m - n + i]
      /\ \A i, j \in DOMAIN recent : recent[i] = recent[j] => i = j
  BY DEF Recent
<1>2. q \in 1..n /\ cache[q].key = key
  <2>1. q \in DOMAIN cache /\ cache[q].key = key
    BY Found
  <2> QED
    BY <2>1
<1>3. x \in S /\ x.key = key
  <2>1. cache[q] \in S
    BY <1>2
  <2>2. cache[q] = Item(cache[q].key, cache[q].value)
    BY <2>1
  <2>3. x = cache[q]
    BY <1>2, <2>2 DEF ValueOf
  <2> QED
    BY <1>2, <2>1, <2>3
<1>4. p \in 1..m /\ recent[p] = key
  BY <1>1, <1>2
<1>5. /\ u \in Seq(K) /\ Len(u) = m /\ u[m] = key
      /\ \A i \in 1..(m - 1) : u[i] = IF i < p THEN recent[i] ELSE recent[i + 1]
  BY <1>1, <1>4, UsedAgain
<1>6. /\ r \in Seq(S) /\ Len(r) = n - 1
      /\ \A i \in 1..(n - 1) : r[i] = IF i < q THEN cache[i] ELSE cache[i + 1]
  BY <1>2, Removed
<1> HIDE DEF r, x
<1>7. /\ Len(d) = Len(r) + 1 /\ d[Len(r) + 1] = x
      /\ \A i \in 1..Len(r) : d[i] = r[i]
  BY <1>3, <1>6
<1>8. Touch(cache, key) = d
  BY DEF Touch, r, x
<1>9. \A i, j \in DOMAIN u : u[i] = u[j] => i = j
  BY <1>1, UsedOnce
<1> HIDE DEF n, m, q, d, u
<1>10. Len(d) = n /\ d[n] = x /\ \A i \in 1..(n - 1) : d[i] = r[i]
  <2>1. Len(r) + 1 = n
    BY <1>1, <1>6
  <2> QED
    BY <1>6, <1>7, <2>1
<1>11. ASSUME NEW i \in 1..n PROVE d[i].key = u[m - n + i]
  <2>1. CASE i = n
    BY <1>1, <1>3, <1>5, <1>10, <2>1
  <2>2. CASE i # n
    <3>1. /\ i \in 1..(n - 1) /\ i + 1 \in 1..n /\ m - n + i \in 1..(m - 1)
          /\ (i < q <=> m - n + i < p) /\ m - n + (i + 1) = (m - n + i) + 1
      BY <1>1, <1>2, <2>2
    <3>2. d[i] = IF i < q THEN cache[i] ELSE cache[i + 1]
      BY <1>6, <1>10, <3>1
    <3>3. cache[i].key = recent[m - n + i] /\ cache[i + 1].key = recent[(m - n + i) + 1]
      BY <1>1, <3>1
    <3>4. u[m - n + i] = IF m - n + i < p THEN recent[m - n + i] ELSE recent[(m - n + i) + 1]
      BY <1>5, <3>1
    <3> HIDE DEF p
    <3> QED
      BY <3>1, <3>2, <3>3, <3>4
  <2> QED
    BY <2>1, <2>2
<1> QED
  BY <1>1, <1>5, <1>8, <1>9, <1>10, <1>11 DEF Recent, u, m, n

\* The lesser of two numbers is one of them.
LEMMA LeastIs ==
  ASSUME NEW a \in Nat, NEW b \in Nat
  PROVE  /\ Least(a, b) \in Nat /\ Least(a, b) <= a /\ Least(a, b) <= b
         /\ Least(a, b) = a \/ Least(a, b) = b
  BY DEF Least

\* set of a key that is not there makes it the last, in the place of the first when the
\* cache is full.
LEMMA PutRecent ==
  ASSUME NEW S, NEW K, NEW cache \in Seq(S), NEW recent \in Seq(K), NEW key \in K,
         NEW size \in Nat \ {0}, Recent(cache, recent, size),
         key \notin Keys(cache), NEW value, Item(key, value) \in S
  PROVE  Recent(Put(cache, size, key, value), Used(recent, key), size)
<1> DEFINE n == Len(cache)
           m == Len(recent)
           x == Item(key, value)
           u == Used(recent, key)
<1>1. /\ n \in Nat /\ m \in Nat /\ n <= m /\ n <= size /\ (n = size \/ n = m)
      /\ \A i \in 1..n : cache[i].key = recent[m - n + i] /\ cache[i].key # key
      /\ \A i, j \in DOMAIN recent : recent[i] = recent[j] => i = j
      /\ DOMAIN recent = 1..m
  <2>1. n = Least(size, m) /\ n \in Nat /\ m \in Nat /\ size \in Nat
    BY DEF Recent
  <2>2. \A i \in 1..n : cache[i].key # key
    BY DEF Keys
  <2>3. n <= m /\ n <= size /\ (n = size \/ n = m)
    BY <2>1, LeastIs
  <2>4. /\ \A i \in 1..n : cache[i].key = recent[m - n + i]
        /\ \A i, j \in DOMAIN recent : recent[i] = recent[j] => i = j
    BY DEF Recent
  <2>5. DOMAIN recent = 1..m
    OBVIOUS
  <2> HIDE DEF n, m
  <2> QED
    BY <2>1, <2>2, <2>3, <2>4, <2>5
<1>2. x \in S /\ x.key = key
  BY DEF Item
<1>3. \A i, j \in DOMAIN u : u[i] = u[j] => i = j
  BY <1>1, UsedOnce
<1> HIDE DEF x, u
<1>4. CASE n # size
  <2>1. n = m /\ m + 1 <= size
    BY <1>1, <1>4
  <2>2. \A i \in DOMAIN recent : recent[i] # key
    <3> SUFFICES ASSUME NEW i \in 1..m PROVE recent[i] # key
      BY <1>1
    <3>1. m - n + i = i /\ i \in 1..n
      BY <1>1, <2>1
    <3> QED
      BY <1>1, <3>1
  <2>3. /\ u \in Seq(K) /\ Len(u) = m + 1 /\ u[m + 1] = key
        /\ \A i \in 1..m : u[i] = recent[i]
    BY <2>2, UsedFirst DEF u
  <2> DEFINE d == Append(cache, x)
  <2>4. /\ Len(d) = n + 1 /\ d[n + 1] = x
        /\ \A i \in 1..n : d[i] = cache[i]
    BY <1>2
  <2>5. Put(cache, size, key, value) = d
    BY <1>4 DEF Put, Assign, x
  <2> HIDE DEF d, n, m
  <2>6. Least(size, m + 1) = m + 1
    BY <1>1, <2>1 DEF Least
  <2>7. ASSUME NEW i \in 1..(m + 1) PROVE d[i].key = u[i] /\ (m + 1) - (m + 1) + i = i
    <3>1. CASE i = m + 1
      BY <1>1, <1>2, <2>1, <2>3, <2>4, <3>1
    <3>2. CASE i \in 1..m
      <4>1. m - n + i = i
        BY <1>1, <2>1
      <4> QED
        BY <1>1, <2>1, <2>3, <2>4, <3>2, <4>1
    <3> QED
      BY <1>1, <3>1, <3>2
  <2>8. Len(d) = m + 1
    BY <2>1, <2>4
  <2> QED
    BY <1>3, <2>3, <2>5, <2>6, <2>7, <2>8 DEF Recent, u
<1>5. CASE n = size
  <2> DEFINE c == Tail(cache)
             d == Append(c, x)
  <2>1. n \in Nat \ {0} /\ n - 1 \in Nat /\ cache # <<>>
    BY <1>1, <1>5
  <2>2. /\ c \in Seq(S) /\ Len(c) = n - 1
        /\ \A i \in 1..(n - 1) : c[i] = cache[i + 1]
    BY <2>1
  <2>9. DOMAIN c = 1..(n - 1)
    BY <2>2
  <2> HIDE DEF c
  <2>3. /\ Len(d) = Len(c) + 1 /\ d[Len(c) + 1] = x
        /\ \A i \in 1..Len(c) : d[i] = c[i]
    BY <1>2, <2>2
  <2>4. key \notin Keys(c)
    <3> SUFFICES ASSUME NEW i \in 1..(n - 1) PROVE c[i].key # key
      BY <2>9 DEF Keys
    <3>1. i + 1 \in 1..n
      BY <2>1
    <3>2. cache[i + 1].key # key
      BY <1>1, <3>1
    <3> QED
      BY <2>2, <3>2
  <2>5. Put(cache, size, key, value) = d
    BY <1>5, <2>4 DEF Put, Assign, x, c
  <2> HIDE DEF d, n, m
  <2>6. /\ Len(d) = n /\ d[n].key = key
        /\ \A i \in 1..(n - 1) : d[i].key = recent[m - n + (i + 1)]
    <3>1. Len(d) = n /\ d[n] = x /\ \A i \in 1..(n - 1) : d[i] = c[i]
      <4>1. (n - 1) + 1 = n
        BY <2>1
      <4> QED
        BY <2>2, <2>3, <4>1
    <3>2. ASSUME NEW i \in 1..(n - 1) PROVE d[i].key = recent[m - n + (i + 1)]
      <4>1. i + 1 \in 1..n
        BY <2>1
      <4>2. cache[i + 1].key = recent[m - n + (i + 1)]
        BY <1>1, <4>1
      <4> QED
        BY <2>2, <3>1, <4>2
    <3> QED
      BY <1>2, <3>1, <3>2
  <2>7. CASE \A i \in DOMAIN recent : recent[i] # key
    <3>1. /\ u \in Seq(K) /\ Len(u) = m + 1 /\ u[m + 1] = key
          /\ \A i \in 1..m : u[i] = recent[i]
      BY <2>7, UsedFirst DEF u, m
    <3>2. Least(size, m + 1) = n
      BY <1>1, <1>5 DEF Least
    <3>3. ASSUME NEW i \in 1..n PROVE d[i].key = u[(m + 1) - n + i]
      <4>1. CASE i = n
        <5>1. (m + 1) - n + i = m + 1
          BY <1>1, <4>1
        <5> QED
          BY <2>6, <3>1, <4>1, <5>1
      <4>2. CASE i # n
        <5>1. /\ i \in 1..(n - 1) /\ (m + 1) - n + i = m - n + (i + 1)
              /\ m - n + (i + 1) \in 1..m
          BY <1>1, <4>2
        <5> QED
          BY <2>6, <3>1, <5>1
      <4> QED
        BY <4>1, <4>2
    <3> QED
      BY <1>3, <2>5, <2>6, <3>1, <3>2, <3>3 DEF Recent, u
  <2>8. CASE \E i \in DOMAIN recent : recent[i] = key
    <3>1. PICK p \in 1..m : recent[p] = key
      BY <1>1, <2>8
    <3>2. p <= m - n
      <4> SUFFICES ASSUME ~(p <= m - n) PROVE FALSE
        OBVIOUS
      <4>1. p - (m - n) \in 1..n /\ m - n + (p - (m - n)) = p
        BY <1>1, <3>1
      <4> QED
        BY <1>1, <3>1, <4>1
    <3>3. /\ u \in Seq(K) /\ Len(u) = m /\ u[m] = key
          /\ \A i \in 1..(m - 1) : u[i] = IF i < p THEN recent[i] ELSE recent[i + 1]
      <4>1. \A i, j \in DOMAIN recent : recent[i] = recent[j] => i = j
        BY <1>1
      <4> QED
        BY <3>1, <4>1, UsedAgain DEF u, m
    <3>4. Least(size, m) = n
      BY <1>1, <1>5 DEF Least
    <3>5. ASSUME NEW i \in 1..n PROVE d[i].key = u[m - n + i]
      <4>1. CASE i = n
        <5>1. m - n + i = m
          BY <1>1, <4>1
        <5> QED
          BY <2>6, <3>3, <4>1, <5>1
      <4>2. CASE i # n
        <5>1. /\ i \in 1..(n - 1) /\ m - n + i \in 1..(m - 1) /\ ~(m - n + i < p)
              /\ m - n + (i + 1) = (m - n + i) + 1
          BY <1>1, <3>1, <3>2, <4>2
        <5> QED
          BY <2>6, <3>3, <5>1
      <4> QED
        BY <4>1, <4>2
    <3> QED
      BY <1>3, <2>5, <2>6, <3>3, <3>4, <3>5 DEF Recent, u
  <2> QED
    BY <2>7, <2>8
<1> QED
  BY <1>4, <1>5

\* The order of use is one of keys.
LEMMA UsedTyped ==
  ASSUME NEW S, NEW recent \in Seq(S), NEW key \in S,
         \A i, j \in DOMAIN recent : recent[i] = recent[j] => i = j
  PROVE  Used(recent, key) \in Seq(S)
<1>1. CASE \A i \in DOMAIN recent : recent[i] # key
  BY <1>1, UsedFirst
<1>2. CASE \E i \in 1..Len(recent) : recent[i] = key
  BY <1>2, UsedAgain
<1>3. DOMAIN recent = 1..Len(recent)
  OBVIOUS
<1> QED
  BY <1>1, <1>2, <1>3

\* The keys of a cache are the last part of the order of use.
LEMMA KeysAreLast ==
  ASSUME NEW S, NEW K, NEW cache \in Seq(S), NEW recent \in Seq(K),
         NEW size \in Nat, Recent(cache, recent, size)
  PROVE  KeyList(cache) = LastOf(Least(size, Len(recent)), recent)
<1> DEFINE n == Len(cache)
           m == Len(recent)
           l == SubSeq(recent, m - n + 1, m)
<1>1. n \in Nat /\ m \in Nat /\ n <= m /\ n = Least(size, m) /\ DOMAIN cache = 1..n
  <2>1. n \in Nat /\ m \in Nat /\ DOMAIN cache = 1..n
    OBVIOUS
  <2>2. n = Least(size, m)
    BY DEF Recent
  <2> QED
    BY <2>1, <2>2, LeastIs
<1>2. \A i \in 1..n : cache[i].key = recent[m - n + i]
  BY DEF Recent
<1>3. Len(l) = n /\ l \in Seq(K) /\ \A i \in 1..n : l[i] = recent[m - n + i]
  <2>1. m - n + 1 \in 1..(m + 1) /\ m - (m - n + 1) + 1 = n
    BY <1>1
  <2>2. l \in Seq(K) /\ Len(l) = m - (m - n + 1) + 1
    BY <1>1, <2>1
  <2>3. ASSUME NEW i \in 1..n PROVE l[i] = recent[m - n + i]
    <3>1. l[i] = recent[(m - n + 1) + i - 1]
      <4>1. ASSUME NEW a \in 1..(m + 1), NEW j \in 1..(m - a + 1)
            PROVE  SubSeq(recent, a, m)[j] = recent[a + j - 1]
        OBVIOUS
      <4>2. i \in 1..(m - (m - n + 1) + 1)
        BY <2>1
      <4> QED
        BY <2>1, <4>1, <4>2
    <3>2. (m - n + 1) + i - 1 = m - n + i
      BY <1>1
    <3> QED
      BY <3>1, <3>2
  <2> QED
    BY <2>1, <2>2, <2>3
<1>4. LastOf(Least(size, m), recent) = l
  BY <1>1 DEF LastOf
<1> HIDE DEF l, n, m
<1>5. l = [i \in 1..n |-> l[i]]
  BY <1>3
<1>6. KeyList(cache) = [i \in 1..n |-> cache[i].key]
  BY <1>1 DEF KeyList
<1> QED
  BY <1>2, <1>3, <1>4, <1>5, <1>6 DEF m

\* Until a key that was there has been set, each cache holds what was used last.
RecentInv ==
  /\ "entries" \notin doubled =>
       recentEntries \in Seq(Frames) /\ Recent(entries, recentEntries, EntriesSize)
  /\ "files" \notin doubled =>
       recentFiles \in Seq(Files) /\ Recent(files, recentFiles, FilesSize)

\* Nothing is cached and nothing has been used.
LEMMA RecentInit == Init => RecentInv
<1> SUFFICES ASSUME Init PROVE RecentInv
  OBVIOUS
<1>1. /\ entries = <<>> /\ files = <<>> /\ recentEntries = <<>> /\ recentFiles = <<>>
      /\ DOMAIN <<>> = {} /\ Len(<<>>) = 0 /\ 1..0 = {}
      /\ <<>> \in Seq(Frames) /\ <<>> \in Seq(Files)
  BY DEF Init, EmptyCache
<1>2. Least(EntriesSize, 0) = 0 /\ Least(FilesSize, 0) = 0
  BY TracebackAssumption DEF Least
<1> QED
  BY <1>1, <1>2 DEF RecentInv, Recent

\* A hit, for either cache.
LEMMA HitRecent ==
  ASSUME NEW S, NEW K, NEW cache \in Seq(S), NEW recent \in Seq(K), NEW key \in K,
         NEW size \in Nat, Recent(cache, recent, size),
         key \in Keys(cache), \A x \in S : x = Item(x.key, x.value)
  PROVE  Used(recent, key) \in Seq(K) /\ Recent(Touch(cache, key), Used(recent, key), size)
<1>1. Len(cache) <= Len(recent)
  <2>1. Len(cache) = Least(size, Len(recent)) /\ Len(recent) \in Nat
    BY DEF Recent
  <2> QED
    BY <2>1, LeastIs
<1>2. Recent(Touch(cache, key), Used(recent, key), size)
  BY <1>1, TouchedRecent
<1> QED
  BY <1>2, UsedTyped DEF Recent

\* A miss that sets a key that is not there, for either cache.
LEMMA SetRecent ==
  ASSUME NEW S, NEW K, NEW cache \in Seq(S), NEW recent \in Seq(K), NEW key \in K,
         NEW size \in Nat \ {0}, Recent(cache, recent, size),
         key \notin Keys(cache), NEW value, Item(key, value) \in S
  PROVE  /\ Used(recent, key) \in Seq(K)
         /\ Recent(Put(cache, size, key, value), Used(recent, key), size)
<1>1. Recent(Put(cache, size, key, value), Used(recent, key), size)
  BY PutRecent
<1> QED
  BY <1>1, UsedTyped DEF Recent

\* Every step preserves RecentInv.
LEMMA RecentNext == CacheInv /\ CallInv /\ RecentInv /\ [Next]_vars => RecentInv'
<1> SUFFICES ASSUME CacheInv, CallInv, RecentInv, [Next]_vars PROVE RecentInv'
  OBVIOUS
<1>0. /\ entries \in Seq(EntryItems) /\ files \in Seq(FileItems)
      /\ EntriesSize \in Nat \ {0} /\ FilesSize \in Nat \ {0}
      /\ EntriesSize \in Nat /\ FilesSize \in Nat
  BY TracebackAssumption DEF CacheInv
<1>1. /\ \A x \in EntryItems : x = Item(x.key, x.value)
      /\ \A x \in FileItems : x = Item(x.key, x.value)
  BY DEF EntryItems, FileItems, Item
<1>2. ASSUME UNCHANGED <<entries, files, recentEntries, recentFiles, doubled>> PROVE RecentInv'
  BY <1>2 DEF RecentInv, Recent
<1>3. ASSUME NEW t \in Threads, EntryHit(t) PROVE RecentInv'
  <2> DEFINE key == EntryKey(Frame(t))
  <2>1. /\ key \in Keys(entries) /\ entries' = Touch(entries, key)
        /\ recentEntries' = Used(recentEntries, key)
        /\ UNCHANGED <<files, recentFiles, doubled>>
    BY <1>3 DEF EntryHit
  <2>2. key \in Frames
    BY <1>3, FrameTyped DEF EntryHit, EntryKey
  <2> HIDE DEF key
  <2>3. "entries" \notin doubled =>
          recentEntries' \in Seq(Frames) /\ Recent(entries', recentEntries', EntriesSize)
    BY <1>0, <1>1, <2>1, <2>2, HitRecent DEF RecentInv
  <2> QED
    BY <2>1, <2>3 DEF RecentInv
<1>4. ASSUME NEW t \in Threads, FileHit(t) PROVE RecentInv'
  <2> DEFINE key == Frame(t)[1]
  <2>1. /\ key \in Keys(files) /\ files' = Touch(files, key)
        /\ recentFiles' = Used(recentFiles, key)
        /\ UNCHANGED <<entries, recentEntries, doubled>>
    BY <1>4 DEF FileHit
  <2>2. key \in Files
    BY <1>4, FrameTyped DEF FileHit
  <2> HIDE DEF key
  <2>3. "files" \notin doubled =>
          recentFiles' \in Seq(Files) /\ Recent(files', recentFiles', FilesSize)
    BY <1>0, <1>1, <2>1, <2>2, HitRecent DEF RecentInv
  <2> QED
    BY <2>1, <2>3 DEF RecentInv
<1>5. ASSUME NEW t \in Threads, SetFile(t) PROVE RecentInv'
  <2> DEFINE key == Frame(t)[1]
             value == IsIgnored(Frame(t))
  <2>1. /\ files' = Put(files, FilesSize, key, value) /\ pc[t] = "info"
        /\ recentFiles' = Used(recentFiles, key)
        /\ doubled' = IF key \in Keys(files) THEN doubled \cup {"files"} ELSE doubled
        /\ UNCHANGED <<entries, recentEntries>>
    BY <1>5 DEF SetFile
  <2>2. key \in Files
    BY <2>1, FrameTyped
  <2>3. value \in BOOLEAN
    BY DEF IsIgnored
  <2> HIDE DEF key, value
  <2>4. Item(key, value) \in FileItems
    BY <2>2, <2>3 DEF Item, FileItems
  <2>5. "files" \notin doubled' =>
          recentFiles' \in Seq(Files) /\ Recent(files', recentFiles', FilesSize)
    <3> SUFFICES ASSUME "files" \notin doubled'
                 PROVE  recentFiles' \in Seq(Files) /\ Recent(files', recentFiles', FilesSize)
      OBVIOUS
    <3>1. key \notin Keys(files) /\ "files" \notin doubled
      BY <2>1
    <3>2. recentFiles \in Seq(Files) /\ Recent(files, recentFiles, FilesSize)
      BY <3>1 DEF RecentInv
    <3> QED
      BY <1>0, <2>1, <2>2, <2>4, <3>1, <3>2, SetRecent
  <2>6. "entries" \notin doubled' => "entries" \notin doubled
    BY <2>1
  <2> QED
    BY <2>1, <2>5, <2>6 DEF RecentInv
<1>6. ASSUME NEW t \in Threads, SetEntry(t) PROVE RecentInv'
  <2> DEFINE key == EntryKey(Frame(t))
             value == [data |-> Frame(t), ignore |-> pc[t] = "ignored"]
  <2>1. /\ entries' = Put(entries, EntriesSize, key, value) /\ pc[t] \in {"ignored", "kept"}
        /\ recentEntries' = Used(recentEntries, key)
        /\ doubled' = IF key \in Keys(entries) THEN doubled \cup {"entries"} ELSE doubled
        /\ UNCHANGED <<files, recentFiles>>
    BY <1>6 DEF SetEntry
  <2>2. key \in Frames /\ Frame(t) \in Frames
    BY <2>1, FrameTyped DEF EntryKey
  <2>3. Item(key, value) \in EntryItems
    BY <2>2 DEF Item, EntryItems
  <2> HIDE DEF key, value
  <2>5. "entries" \notin doubled' =>
          recentEntries' \in Seq(Frames) /\ Recent(entries', recentEntries', EntriesSize)
    <3> SUFFICES ASSUME "entries" \notin doubled'
                 PROVE  /\ recentEntries' \in Seq(Frames)
                        /\ Recent(entries', recentEntries', EntriesSize)
      OBVIOUS
    <3>1. key \notin Keys(entries) /\ "entries" \notin doubled
      BY <2>1
    <3>2. recentEntries \in Seq(Frames) /\ Recent(entries, recentEntries, EntriesSize)
      BY <3>1 DEF RecentInv
    <3> QED
      BY <1>0, <2>1, <2>2, <2>3, <3>1, <3>2, SetRecent
  <2>6. "files" \notin doubled' => "files" \notin doubled
    BY <2>1
  <2> QED
    BY <2>1, <2>5, <2>6 DEF RecentInv
<1>7. ASSUME NEW t \in Threads, BeginStack(t) \/ GetBack(t) \/ EntryMiss(t) \/ FileMiss(t)
      PROVE  RecentInv'
  BY <1>2, <1>7 DEF BeginStack, GetBack, EntryMiss, FileMiss, cacheVars, recentVars
<1>8. CASE UNCHANGED vars
  BY <1>2, <1>8 DEF vars, cacheVars, recentVars
<1> QED
  BY <1>3, <1>4, <1>5, <1>6, <1>7, <1>8 DEF Next

\* LRUCache.get and set: until two threads have set the same key, a cache of any size
\* holds the keys used last, in the order of their use, and no fewer than fit.
THEOREM MostRecentKept == Spec => []KeepsMostRecent
<1>1. CacheInv /\ RecentInv => KeepsMostRecent
  <2> SUFFICES ASSUME CacheInv, RecentInv PROVE KeepsMostRecent
    OBVIOUS
  <2>1. /\ entries \in Seq(EntryItems) /\ files \in Seq(FileItems)
        /\ EntriesSize \in Nat /\ FilesSize \in Nat
    BY TracebackAssumption DEF CacheInv
  <2> QED
    BY <2>1, KeysAreLast DEF RecentInv, KeepsMostRecent
<1> QED
  BY <1>1, CacheInit, CacheNext, CallInit, CallNext, RecentInit, RecentNext, PTL DEF Spec
-----------------------------------------------------------------------------
(* Types                                                                    *)

\* What is used joins the order of use, whether it was there or not.
LEMMA UsedAny ==
  ASSUME NEW S, NEW recent \in Seq(S), NEW key \in S
  PROVE  Used(recent, key) \in Seq(S)
<1> DEFINE places == {i \in DOMAIN recent : recent[i] = key}
<1>1. CASE places = {}
  BY <1>1 DEF Used
<1>2. CASE places # {}
  <2> DEFINE i == CHOOSE i \in places : TRUE
  <2>1. i \in places
    BY <1>2
  <2> HIDE DEF i
  <2>2. i \in 1..Len(recent) /\ Len(recent) \in Nat
    BY <2>1
  <2>3. SubSeq(recent, 1, i - 1) \in Seq(S) /\ SubSeq(recent, i + 1, Len(recent)) \in Seq(S)
    BY <2>2
  <2>4. RemoveAt(recent, i) \in Seq(S)
    BY <2>3 DEF RemoveAt
  <2>5. Used(recent, key) = Append(RemoveAt(recent, i), key)
    BY <1>2 DEF Used, i
  <2> QED
    BY <2>4, <2>5
<1> QED
  BY <1>1, <1>2

\* Every variable of the calls and the caches keeps its type, for any chains and sizes.
THEOREM Typed == Spec => []TypeOK
<1> DEFINE Rest == /\ chain \in [Threads -> Chains \cup {<<>>}]
                   /\ recentEntries \in Seq(Frames) /\ recentFiles \in Seq(Files)
                   /\ doubled \subseteq {"entries", "files"}
<1>1. Init => Rest
  BY DEF Init
<1>2. CallInv /\ Rest /\ [Next]_vars => Rest'
  <2> SUFFICES ASSUME CallInv, Rest, [Next]_vars PROVE Rest'
    OBVIOUS
  <2>1. ASSUME NEW t \in Threads, BeginStack(t) PROVE Rest'
    BY <2>1 DEF BeginStack, recentVars
  <2>2. ASSUME NEW t \in Threads, EntryHit(t) PROVE Rest'
    <3>1. Used(recentEntries, Frame(t)) \in Seq(Frames)
      BY <2>2, FrameTyped, UsedAny DEF EntryHit
    <3> QED
      BY <2>2, <3>1 DEF EntryHit, EntryKey
  <2>3. ASSUME NEW t \in Threads, FileHit(t) PROVE Rest'
    <3>1. Used(recentFiles, Frame(t)[1]) \in Seq(Files)
      BY <2>3, FrameTyped, UsedAny DEF FileHit
    <3> QED
      BY <2>3, <3>1 DEF FileHit, callVars
  <2>4. ASSUME NEW t \in Threads, SetFile(t) PROVE Rest'
    <3>1. Used(recentFiles, Frame(t)[1]) \in Seq(Files)
      BY <2>4, FrameTyped, UsedAny DEF SetFile
    <3> QED
      BY <2>4, <3>1 DEF SetFile, callVars
  <2>5. ASSUME NEW t \in Threads, SetEntry(t) PROVE Rest'
    <3>1. Used(recentEntries, Frame(t)) \in Seq(Frames)
      BY <2>5, FrameTyped, UsedAny DEF SetEntry
    <3> QED
      BY <2>5, <3>1 DEF SetEntry, EntryKey
  <2>6. ASSUME NEW t \in Threads, GetBack(t) \/ EntryMiss(t) \/ FileMiss(t) PROVE Rest'
    BY <2>6 DEF GetBack, EntryMiss, FileMiss, callVars, recentVars
  <2>7. CASE UNCHANGED vars
    BY <2>7 DEF vars, callVars, recentVars
  <2> HIDE DEF Rest
  <2> QED
    BY <2>1, <2>2, <2>3, <2>4, <2>5, <2>6, <2>7 DEF Next
<1>3. CacheInv /\ CallInv /\ Rest => TypeOK
  <2> SUFFICES ASSUME CacheInv, CallInv, Rest PROVE TypeOK
    OBVIOUS
  <2>1. entries \in Seq(EntryItems) /\ files \in Seq(FileItems)
    BY DEF CacheInv
  <2>2. ASSUME NEW t \in Threads
        PROVE  /\ chain[t] \in Chains \cup {<<>>} /\ at[t] \in 0..Len(chain[t])
               /\ stack[t] \in Seq(Frames)
    <3>1. chain[t] \in Seq(Frames) /\ at[t] \in Nat /\ at[t] <= Len(chain[t])
      BY DEF CallInv, CallTypes, CallOK
    <3>2. at[t] \in 0..Len(chain[t])
      BY <3>1
    <3> QED
      BY <3>2 DEF CallInv, CallTypes
  <2>3. pc \in [Threads -> {"idle", "back", "entry", "file", "info", "ignored", "kept", "done"}]
    BY DEF CallInv, CallTypes
  <2> QED
    BY <2>1, <2>2, <2>3 DEF TypeOK, EntryItems, FileItems
<1> QED
  BY <1>1, <1>2, <1>3, CacheInit, CacheNext, CallInit, CallNext, PTL DEF Spec
=============================================================================
