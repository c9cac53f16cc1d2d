----------------------------- MODULE Traceback ------------------------------
(***************************************************************************)
(* Traceback.get_stack (src/src/qorme/utils/traceback.pyx and the          *)
(* traceback.c made of it): the call stack of a query, without the frames  *)
(* of ignored modules that lead to it, through two caches that the threads *)
(* of the process share.                                                   *)
(*                                                                         *)
(* A frame is the place in a file that it executes.  Threads run in turn   *)
(* under the interpreter's lock, so that an operation of a cache is one    *)
(* step; they may change between the look-up of an entry and its           *)
(* insertion, which calls Python code (os.path.basename, linecache).       *)
(***************************************************************************)
EXTENDS LRUCache

CONSTANTS
  Threads,
  Files,
  Lines,
  IgnoredFiles,   \* those whose name contains one of ignored_modules
  Chains,         \* bound: the chains of frames of a call, innermost first
  NumEntries,     \* num_entries
  EntriesSize,    \* entries_cache_size
  FilesSize       \* file_info_cache_size

Frames == Files \X Lines

ASSUME TracebackAssumption ==
  /\ IgnoredFiles \subseteq Files
  /\ Chains \subseteq Seq(Frames)
  /\ NumEntries \in Nat /\ EntriesSize \in Nat \ {0} /\ FilesSize \in Nat \ {0}

VARIABLES
  entries,        \* traceback_entries_cache
  files,          \* file_info_cache
  pc,             \* where a thread is
  chain,          \* the frames of a thread, below that which calls get_stack
  at,             \* the frame that a thread has come to
  stack,          \* the entries that it has collected
  recentEntries,  \* history: the entries used, the last one last
  recentFiles,    \* history: the files used, the last one last
  doubled         \* history: the caches in which a key was set that was there

cacheVars == <<entries, files>>
callVars == <<chain, at, stack>>
recentVars == <<recentEntries, recentFiles, doubled>>
vars == <<cacheVars, pc, callVars, recentVars>>
-----------------------------------------------------------------------------
Goto(t, p) == pc' = [pc EXCEPT ![t] = p]

Frame(t) == chain[t][at[t]]

\* cache_key: the name of the function is no part of it.
EntryKey(frame) == frame

Used(recent, key) ==
  LET places == {i \in DOMAIN recent : recent[i] = key}
  IN Append(IF places = {} THEN recent ELSE RemoveAt(recent, CHOOSE i \in places : TRUE), key)

\* Have the leading frames of ignored modules been left behind?
Collecting(t) == stack[t] # <<>>

IsIgnored(frame) == frame[1] \in IgnoredFiles

\* With no entries to collect nothing is looked at.
BeginStack(t) ==
  /\ pc[t] \in {"idle", "done"}
  /\ \E c \in Chains : chain' = [chain EXCEPT ![t] = c]
  /\ at' = [at EXCEPT ![t] = 0]
  /\ stack' = [stack EXCEPT ![t] = <<>>]
  /\ Goto(t, IF NumEntries = 0 THEN "done" ELSE "back")
  /\ UNCHANGED <<cacheVars, recentVars>>

\* PyFrame_GetBack, while there is a frame and an entry is missing.
GetBack(t) ==
  /\ pc[t] = "back"
  /\ IF at[t] < Len(chain[t]) /\ Len(stack[t]) < NumEntries
     THEN at' = [at EXCEPT ![t] = @ + 1] /\ Goto(t, "entry")
     ELSE Goto(t, "done") /\ UNCHANGED at
  /\ UNCHANGED <<cacheVars, chain, stack, recentVars>>

\* Variant for a mutation: frames of ignored modules are never collected.
CollectNoIgnored(t, entry) ==
  stack' = IF entry.ignore THEN stack ELSE [stack EXCEPT ![t] = Append(@, entry.data)]

\* An entry is collected unless it is one of the leading ignored ones.
Collect(t, entry) ==
  stack' = IF entry.ignore /\ ~Collecting(t) THEN stack
           ELSE [stack EXCEPT ![t] = Append(@, entry.data)]
-----------------------------------------------------------------------------
(* get_entry and get_file_info.                                             *)

EntryHit(t) ==
  /\ pc[t] = "entry" /\ EntryKey(Frame(t)) \in Keys(entries)
  /\ entries' = Touch(entries, EntryKey(Frame(t)))
  /\ recentEntries' = Used(recentEntries, EntryKey(Frame(t)))
  /\ Collect(t, ValueOf(entries, EntryKey(Frame(t))))
  /\ Goto(t, "back")
  /\ UNCHANGED <<files, chain, at, recentFiles, doubled>>

EntryMiss(t) ==
  /\ pc[t] = "entry" /\ EntryKey(Frame(t)) \notin Keys(entries)
  /\ Goto(t, "file")
  /\ UNCHANGED <<cacheVars, callVars, recentVars>>

FileHit(t) ==
  /\ pc[t] = "file" /\ Frame(t)[1] \in Keys(files)
  /\ files' = Touch(files, Frame(t)[1])
  /\ recentFiles' = Used(recentFiles, Frame(t)[1])
  /\ Goto(t, IF ValueOf(files, Frame(t)[1]) THEN "ignored" ELSE "kept")
  /\ UNCHANGED <<entries, callVars, recentEntries, doubled>>

FileMiss(t) ==
  /\ pc[t] = "file" /\ Frame(t)[1] \notin Keys(files)
  /\ Goto(t, "info")
  /\ UNCHANGED <<cacheVars, callVars, recentVars>>

\* The relative path and the decision to ignore the file have been computed.
SetFile(t) ==
  /\ pc[t] = "info"
  /\ files' = Put(files, FilesSize, Frame(t)[1], IsIgnored(Frame(t)))
  /\ recentFiles' = Used(recentFiles, Frame(t)[1])
  /\ doubled' = IF Frame(t)[1] \in Keys(files) THEN doubled \cup {"files"} ELSE doubled
  /\ Goto(t, IF IsIgnored(Frame(t)) THEN "ignored" ELSE "kept")
  /\ UNCHANGED <<entries, callVars, recentEntries>>

\* The line has been read from the file.
SetEntry(t) ==
  /\ pc[t] \in {"ignored", "kept"}
  /\ LET key == EntryKey(Frame(t))
         entry == [data |-> Frame(t), ignore |-> pc[t] = "ignored"]
     IN /\ entries' = Put(entries, EntriesSize, key, entry)
        /\ recentEntries' = Used(recentEntries, key)
        /\ doubled' = IF key \in Keys(entries) THEN doubled \cup {"entries"} ELSE doubled
        /\ Collect(t, entry)
  /\ Goto(t, "back")
  /\ UNCHANGED <<files, chain, at, recentFiles>>
-----------------------------------------------------------------------------
Init ==
  /\ entries = EmptyCache /\ files = EmptyCache
  /\ pc = [t \in Threads |-> "idle"]
  /\ chain = [t \in Threads |-> <<>>]
  /\ at = [t \in Threads |-> 0]
  /\ stack = [t \in Threads |-> <<>>]
  /\ recentEntries = <<>> /\ recentFiles = <<>>
  /\ doubled = {}

Next ==
  \E t \in Threads :
    \/ BeginStack(t) \/ GetBack(t) \/ EntryHit(t) \/ EntryMiss(t)
    \/ FileHit(t) \/ FileMiss(t) \/ SetFile(t) \/ SetEntry(t)

Spec == Init /\ [][Next]_vars
-----------------------------------------------------------------------------
\* The variables have their types.
TypeOK ==
  /\ entries \in Seq([key : Frames, value : [data : Frames, ignore : BOOLEAN]])
  /\ files \in Seq([key : Files, value : BOOLEAN])
  /\ pc \in [Threads -> {"idle", "back", "entry", "file", "info", "ignored", "kept", "done"}]
  /\ \A t \in Threads :
       /\ chain[t] \in Chains \cup {<<>>} /\ at[t] \in 0..Len(chain[t])
       /\ stack[t] \in Seq(Frames)
  /\ recentEntries \in Seq(Frames) /\ recentFiles \in Seq(Files)
  /\ doubled \subseteq {"entries", "files"}

\* A cache never holds more than its size, nor a key twice, when threads miss
\* the same key and both set it (lru_cache.pyx:20-30).
CachesAreBounded ==
  /\ Len(entries) <= EntriesSize /\ Cardinality(Keys(entries)) = Len(entries)
  /\ Len(files) <= FilesSize /\ Cardinality(Keys(files)) = Len(files)

\* The frames from the first that is not of an ignored module.
FromFirstKept(c) ==
  LET kept == {i \in DOMAIN c : ~IsIgnored(c[i])}
  IN IF kept = {} THEN <<>>
     ELSE SubSeq(c, CHOOSE i \in kept : \A j \in kept : i <= j, Len(c))

Least(a, b) == IF a < b THEN a ELSE b

\* Whatever other threads do to the caches, the stack of a call is its chain of
\* frames from the first that is not of an ignored module, cut at the number of
\* entries asked for; ignored frames further out stay in it (traceback.pyx:85-107).
StackIsChain ==
  \A t \in Threads :
    pc[t] = "done" =>
      LET frames == FromFirstKept(chain[t])
      IN stack[t] = SubSeq(frames, 1, Least(NumEntries, Len(frames)))

LastOf(n, s) == SubSeq(s, Len(s) - n + 1, Len(s))

\* Until two threads have set the same key, a cache holds the keys used last,
\* in the order of their use, and no fewer than fit (lru_cache.pyx:14-30).
KeepsMostRecent ==
  /\ "entries" \notin doubled =>
       KeyList(entries) = LastOf(Least(EntriesSize, Len(recentEntries)), recentEntries)
  /\ "files" \notin doubled =>
       KeyList(files) = LastOf(Least(FilesSize, Len(recentFiles)), recentFiles)
=============================================================================
