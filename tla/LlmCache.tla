------------------------------ MODULE LlmCache ------------------------------
(***************************************************************************)
(* The on-disk completion cache, crates/cobrust-llm-router/src/cache.rs.   *)
(*                                                                         *)
(* A completion lives in <hex>.json.  `put` writes it to <hex>.tmp, a name *)
(* derived from the key alone, narrows its mode and renames it over        *)
(* <hex>.json; `get` reads <hex>.json and parses it.  Every step is a      *)
(* system call on a file shared by all tasks and all processes, so the     *)
(* model keeps what POSIX keeps: names point to inodes, an open file       *)
(* survives the renaming of its name, and opening <hex>.tmp for writing    *)
(* truncates whatever inode has that name.                                 *)
(*                                                                         *)
(* Abstractions.  A completion is a member of Texts; a file holds one, or  *)
(* is "empty", or is "torn" (a prefix, or one completion over another) and *)
(* does not parse.  write(2) of a whole entry is one step, which an error  *)
(* or the death of the process can cut short.                              *)
(***************************************************************************)

CONSTANTS
  Tasks,            \* tasks that call the cache, in one process or several
  Keys,             \* cache keys
  Texts,            \* completions
  Inodes,           \* inodes of the file system
  None,             \* no value
  OverlappingPuts,  \* may two tasks be inside put for one key at a time?
  IoFaults          \* may a system call fail, or a caller die?

ASSUME CacheAssumption ==
  /\ None \notin Keys /\ None \notin Texts /\ None \notin Inodes
  /\ None \notin {"empty", "torn", "stored", "failed", "miss", "poisoned"}
  /\ Texts \cap {"empty", "torn", "stored", "failed", "miss", "poisoned"} = {}
  /\ OverlappingPuts \in BOOLEAN
  /\ IoFaults \in BOOLEAN

VARIABLES
  tmp,    \* tmp[k]: inode named <hex>.tmp, or None
  pub,    \* pub[k]: inode named <hex>.json, or None
  data,   \* data[i]: content of inode i
  pc,     \* pc[t]: the next system call of t
  key,    \* key[t]: key of the put t is inside, or None
  text,   \* text[t]: completion it stores, or None
  fd,     \* fd[t]: inode t has open, or None
  out     \* out[t]: result of t's last call, or None

vars == <<tmp, pub, data, pc, key, text, fd, out>>

PutSteps == {"open", "write", "chmod", "rename"}
Contents == Texts \cup {"empty", "torn"}
Results == Texts \cup {"stored", "failed", "miss", "poisoned", None}

\* Names point to inodes, and a call holds the key, completion and file it needs.
TypeOK ==
  /\ tmp \in [Keys -> Inodes \cup {None}]
  /\ pub \in [Keys -> Inodes \cup {None}]
  /\ data \in [Inodes -> Contents]
  /\ pc \in [Tasks -> {"idle", "read"} \cup PutSteps]
  /\ key \in [Tasks -> Keys \cup {None}]
  /\ text \in [Tasks -> Texts \cup {None}]
  /\ fd \in [Tasks -> Inodes \cup {None}]
  /\ out \in [Tasks -> Results]

Init ==
  /\ tmp = [k \in Keys |-> None]
  /\ pub = [k \in Keys |-> None]
  /\ data = [i \in Inodes |-> "empty"]
  /\ pc = [t \in Tasks |-> "idle"]
  /\ key = [t \in Tasks |-> None]
  /\ text = [t \in Tasks |-> None]
  /\ fd = [t \in Tasks |-> None]
  /\ out = [t \in Tasks |-> None]

----------------------------------------------------------------------------
\* Mutant of TmpOf: one temporary file for the whole cache directory.
SharedTmpOf(k) == CHOOSE j \in Keys : TRUE

\* The name of the temporary file of key k: path.with_extension("tmp").
TmpOf(k) == k

\* Inodes no name and no open file refers to: the file system may reuse them.
Free == {i \in Inodes : /\ \A k \in Keys : tmp[k] # i /\ pub[k] # i
                        /\ \A t \in Tasks : fd[t] # i}

\* What a file holds after x is written from its start over `old`: the tail
\* of a longer `old` survives.
Overwritten(old, x) == IF old \in {"empty", x} THEN {x} ELSE {x, "torn"}

\* What a write of x that does not finish may leave in the file.
CutShort(old, x) == {old, x, "torn"}

Return(t, result) ==
  /\ pc' = [pc EXCEPT ![t] = "idle"]
  /\ key' = [key EXCEPT ![t] = None]
  /\ text' = [text EXCEPT ![t] = None]
  /\ fd' = [fd EXCEPT ![t] = None]
  /\ out' = [out EXCEPT ![t] = result]

Goto(t, label) == pc' = [pc EXCEPT ![t] = label]

----------------------------------------------------------------------------
\* get

GetMiss(t, k) ==
  /\ pc[t] = "idle"
  /\ pub[k] = None
  /\ Return(t, "miss")
  /\ UNCHANGED <<tmp, pub, data>>

GetOpen(t, k) ==
  /\ pc[t] = "idle"
  /\ pub[k] # None
  /\ Goto(t, "read")
  /\ fd' = [fd EXCEPT ![t] = pub[k]]
  /\ out' = [out EXCEPT ![t] = None]
  /\ UNCHANGED <<tmp, pub, data, key, text>>

\* A file that does not parse is reported as cache poisoning.
GetRead(t) ==
  /\ pc[t] = "read"
  /\ Return(t, IF data[fd[t]] \in Texts THEN data[fd[t]] ELSE "poisoned")
  /\ UNCHANGED <<tmp, pub, data>>

\* The file cannot be read.
GetFail(t) ==
  /\ IoFaults
  /\ pc[t] = "read"
  /\ Return(t, "failed")
  /\ UNCHANGED <<tmp, pub, data>>

----------------------------------------------------------------------------
\* put

InPut(t, k) == pc[t] \in PutSteps /\ key[t] = k

PutBegin(t, k, x) ==
  /\ pc[t] = "idle"
  /\ OverlappingPuts \/ \A u \in Tasks : ~InPut(u, k)
  /\ Goto(t, "open")
  /\ key' = [key EXCEPT ![t] = k]
  /\ text' = [text EXCEPT ![t] = x]
  /\ out' = [out EXCEPT ![t] = None]
  /\ UNCHANGED <<tmp, pub, data, fd>>

\* Mutant of PutOpenOld: the file is opened without O_TRUNC.
PutOpenOldUntruncated(t) ==
  /\ pc[t] = "open"
  /\ tmp[TmpOf(key[t])] # None
  /\ fd' = [fd EXCEPT ![t] = tmp[TmpOf(key[t])]]
  /\ Goto(t, "write")
  /\ UNCHANGED <<tmp, pub, data, key, text, out>>

\* open(O_CREAT|O_TRUNC) of a name that exists: the inode is shared.
PutOpenOld(t) ==
  LET i == tmp[TmpOf(key[t])] IN
    /\ pc[t] = "open"
    /\ i # None
    /\ data' = [data EXCEPT ![i] = "empty"]
    /\ fd' = [fd EXCEPT ![t] = i]
    /\ Goto(t, "write")
    /\ UNCHANGED <<tmp, pub, key, text, out>>

PutOpenNew(t) ==
  LET i == CHOOSE j \in Free : TRUE IN
    /\ pc[t] = "open"
    /\ tmp[TmpOf(key[t])] = None
    /\ Free # {}
    /\ tmp' = [tmp EXCEPT ![TmpOf(key[t])] = i]
    /\ data' = [data EXCEPT ![i] = "empty"]
    /\ fd' = [fd EXCEPT ![t] = i]
    /\ Goto(t, "write")
    /\ UNCHANGED <<pub, key, text, out>>

\* write and close.
PutWrite(t) ==
  /\ pc[t] = "write"
  /\ \E c \in Overwritten(data[fd[t]], text[t]) :
       data' = [data EXCEPT ![fd[t]] = c]
  /\ fd' = [fd EXCEPT ![t] = None]
  /\ Goto(t, "chmod")
  /\ UNCHANGED <<tmp, pub, key, text, out>>

\* Both calls name the temporary file: ENOENT when another task has renamed it
\* away in the meantime.
PutChmod(t) ==
  /\ pc[t] = "chmod"
  /\ IF tmp[TmpOf(key[t])] = None
       THEN Return(t, "failed")
       ELSE Goto(t, "rename") /\ UNCHANGED <<key, text, fd, out>>
  /\ UNCHANGED <<tmp, pub, data>>

PutRename(t) ==
  /\ pc[t] = "rename"
  /\ IF tmp[TmpOf(key[t])] = None
       THEN Return(t, "failed") /\ UNCHANGED <<tmp, pub>>
       ELSE /\ pub' = [pub EXCEPT ![key[t]] = tmp[TmpOf(key[t])]]
            /\ tmp' = [tmp EXCEPT ![TmpOf(key[t])] = None]
            /\ Return(t, "stored")
  /\ UNCHANGED data

----------------------------------------------------------------------------
\* Mutant of CutOff: the temporary file's name is removed on the way out.
CutOffCleaningUp(t) ==
  /\ IF pc[t] \in PutSteps
       THEN tmp' = [tmp EXCEPT ![TmpOf(key[t])] = None]
       ELSE UNCHANGED tmp
  /\ UNCHANGED <<pub, data>>

\* A system call fails, or the process dies: the temporary file stays behind.
CutOff(t) ==
  /\ IF pc[t] = "write"
       THEN \E c \in CutShort(data[fd[t]], text[t]) :
              data' = [data EXCEPT ![fd[t]] = c]
       ELSE UNCHANGED data
  /\ UNCHANGED <<tmp, pub>>

PutFail(t) ==
  /\ IoFaults
  /\ pc[t] \in PutSteps
  /\ CutOff(t)
  /\ Return(t, "failed")

Die(t) ==
  /\ IoFaults
  /\ pc[t] # "idle"
  /\ CutOff(t)
  /\ Return(t, None)

----------------------------------------------------------------------------
\* The calls in progress of task t: everything but the start of a new call.
Continue(t) ==
  \/ GetRead(t)
  \/ PutOpenOld(t) \/ PutOpenNew(t) \/ PutWrite(t)
  \/ PutChmod(t) \/ PutRename(t)

Next ==
  \E t \in Tasks :
    \/ \E k \in Keys : GetMiss(t, k) \/ GetOpen(t, k)
    \/ \E k \in Keys, x \in Texts : PutBegin(t, k, x)
    \/ Continue(t)
    \/ GetFail(t) \/ PutFail(t)
    \/ Die(t)

Spec == Init /\ [][Next]_vars

----------------------------------------------------------------------------
\* "Write atomically via a temp file then rename, so readers never see a
\* partial file": no lookup ever meets an entry that does not parse.
ReadersNeverSeePartialFile == \A t \in Tasks : out[t] # "poisoned"

\* The refinement mapping: a key holds what its published file holds, and a
\* lookup has its answer from the moment it has the file open.
Lookup(t) == <<"get", None, data[fd[t]]>>
Store(t) == <<"put", key[t], text[t]>>
StoreBar == [k \in Keys |-> IF pub[k] = None THEN None ELSE data[pub[k]]]
BusyBar == [t \in Tasks |-> IF pc[t] = "idle" THEN <<"idle", None, None>>
                            ELSE IF pc[t] = "read" THEN Lookup(t) ELSE Store(t)]

Atomic == INSTANCE AtomicCache WITH store <- StoreBar, busy <- BusyBar

\* When no two stores of one key overlap, the file protocol is an atomic map:
\* lookups return complete entries, and a store that fails or whose process
\* dies at any step has no effect on any key.
ImplementsAtomicCache == Atomic!Spec

----------------------------------------------------------------------------
\* Why it is: while a task is between the opening and the renaming of its
\* temporary file, the name is its own, and no published or opened-for-reading
\* inode is reachable from any temporary name.

NamesAreExclusive ==
  /\ \A j, k \in Keys : tmp[j] # None => tmp[j] # pub[k]
  /\ \A j, k \in Keys : tmp[j] # None /\ tmp[j] = tmp[k] => j = k

PublishedIsWhole == \A k \in Keys : pub[k] # None => data[pub[k]] \in Texts

ReaderIsSafe ==
  \A t \in Tasks : pc[t] = "read" =>
    /\ fd[t] \in Inodes
    /\ data[fd[t]] \in Texts
    /\ \A k \in Keys : tmp[k] # fd[t]

WriterOwnsTmp ==
  \A t \in Tasks :
    /\ pc[t] \in PutSteps => key[t] \in Keys /\ text[t] \in Texts
    /\ pc[t] = "write" => fd[t] \in Inodes /\ tmp[key[t]] = fd[t]
                           /\ data[fd[t]] = "empty"
    /\ pc[t] \in {"chmod", "rename"} => tmp[key[t]] # None
                                       /\ data[tmp[key[t]]] = text[t]

OnePutPerKey ==
  \A t, u \in Tasks : pc[t] \in PutSteps /\ pc[u] \in PutSteps /\ key[t] = key[u]
                        => t = u

\* The inductive invariant behind ImplementsAtomicCache, for tasks that do not
\* overlap their stores of one key.
CacheInv ==
  /\ TypeOK
  /\ NamesAreExclusive
  /\ PublishedIsWhole
  /\ ReaderIsSafe
  /\ WriterOwnsTmp
  /\ OnePutPerKey
=============================================================================
