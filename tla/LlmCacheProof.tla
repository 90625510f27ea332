--------------------------- MODULE LlmCacheProof ---------------------------
(***************************************************************************)
(* The completion cache implements AtomicCache for every number of tasks,  *)
(* keys, completions and inodes, provided no two stores of one key         *)
(* overlap.                                                                *)
(*                                                                         *)
(* CacheInv is inductive.  Within it, the step at which a call takes       *)
(* effect is the opening of the file for a lookup and the renaming for a   *)
(* store; every other step of a call, and its being cut short, leaves the  *)
(* map as it was.                                                          *)
(***************************************************************************)
EXTENDS LlmCache, TLAPS

USE DEF TmpOf, PutSteps, Contents, Results, Atomic!Idle

\* With no file and no call in progress nothing can be shared.
LEMMA InitEstablishesInv == ASSUME Init PROVE CacheInv
  BY CacheAssumption DEF Init, CacheInv, TypeOK, NamesAreExclusive, PublishedIsWhole,
     ReaderIsSafe, WriterOwnsTmp, OnePutPerKey

\* No system call of cache.rs, and no failure of one, breaks the invariant.
LEMMA StepKeepsInv ==
  ASSUME CacheInv, ~OverlappingPuts, [Next]_vars
  PROVE  CacheInv'
<1> USE CacheAssumption DEF CacheInv, TypeOK, NamesAreExclusive, PublishedIsWhole,
     ReaderIsSafe, WriterOwnsTmp, OnePutPerKey
<1>1. ASSUME NEW t \in Tasks, NEW k \in Keys, GetMiss(t, k) PROVE CacheInv'
  BY <1>1 DEF GetMiss, Return
<1>2. ASSUME NEW t \in Tasks, NEW k \in Keys, GetOpen(t, k) PROVE CacheInv'
  BY <1>2 DEF GetOpen, Goto
<1>3. ASSUME NEW t \in Tasks, NEW k \in Keys, NEW x \in Texts, PutBegin(t, k, x) PROVE CacheInv'
  BY <1>3 DEF PutBegin, Goto, InPut
<1>4. ASSUME NEW t \in Tasks, GetRead(t) PROVE CacheInv'
  BY <1>4 DEF GetRead, Return
<1>5. ASSUME NEW t \in Tasks, PutOpenOld(t) PROVE CacheInv'
  BY <1>5 DEF PutOpenOld, Goto
<1>6. ASSUME NEW t \in Tasks, PutOpenNew(t) PROVE CacheInv'
  <2> DEFINE i == CHOOSE j \in Free : TRUE
  <2>1. i \in Free
    BY <1>6 DEF PutOpenNew
  <2>2. /\ i \in Inodes
        /\ \A k \in Keys : tmp[k] # i /\ pub[k] # i
        /\ \A u \in Tasks : fd[u] # i
    BY <2>1 DEF Free
  <2> HIDE DEF i
  <2>3. /\ pc[t] = "open"
        /\ tmp[key[t]] = None
        /\ tmp' = [tmp EXCEPT ![key[t]] = i]
        /\ data' = [data EXCEPT ![i] = "empty"]
        /\ fd' = [fd EXCEPT ![t] = i]
        /\ Goto(t, "write")
        /\ UNCHANGED <<pub, key, text, out>>
    BY <1>6 DEF PutOpenNew, i
  <2> QED BY <2>2, <2>3 DEF Goto
<1>7. ASSUME NEW t \in Tasks, PutWrite(t) PROVE CacheInv'
  BY <1>7 DEF PutWrite, Goto, Overwritten
<1>8. ASSUME NEW t \in Tasks, PutChmod(t) PROVE CacheInv'
  BY <1>8 DEF PutChmod, Goto, Return
<1>9. ASSUME NEW t \in Tasks, PutRename(t) PROVE CacheInv'
  <2>1. CASE tmp[key[t]] = None
    BY <1>9, <2>1 DEF PutRename, Return
  <2>2. CASE tmp[key[t]] # None
    <3>1. /\ pc[t] = "rename"
          /\ key[t] \in Keys
          /\ data[tmp[key[t]]] \in Texts
      BY <1>9 DEF PutRename
    <3>2. /\ pub' = [pub EXCEPT ![key[t]] = tmp[key[t]]]
          /\ tmp' = [tmp EXCEPT ![key[t]] = None]
          /\ data' = data
          /\ Return(t, "stored")
      BY <1>9, <2>2 DEF PutRename
    <3>3. TypeOK'
      BY <3>1, <3>2 DEF Return
    <3>4. NamesAreExclusive'
      BY <2>2, <3>1, <3>2
    <3>5. PublishedIsWhole'
      BY <3>1, <3>2
    <3>6. ReaderIsSafe'
      BY <3>1, <3>2 DEF Return
    <3>7. WriterOwnsTmp' /\ OnePutPerKey'
      BY <3>1, <3>2 DEF Return
    <3> QED BY <3>3, <3>4, <3>5, <3>6, <3>7
  <2> QED BY <2>1, <2>2
<1>10. ASSUME NEW t \in Tasks, PutFail(t) PROVE CacheInv'
  BY <1>10 DEF PutFail, CutOff, CutShort, Return
<1>11. ASSUME NEW t \in Tasks, Die(t) PROVE CacheInv'
  BY <1>11 DEF Die, CutOff, CutShort, Return
<1>12. ASSUME NEW t \in Tasks, GetFail(t) PROVE CacheInv'
  BY <1>12 DEF GetFail, Return
<1>13. CASE UNCHANGED vars
  BY <1>13 DEF vars
<1> QED
  BY <1>1, <1>2, <1>3, <1>4, <1>5, <1>6, <1>7, <1>8, <1>9, <1>10, <1>11, <1>12, <1>13
  DEF Next, Continue

\* No file is an empty map.
LEMMA InitRefines == ASSUME Init PROVE Atomic!Init
  BY DEF Init, Atomic!Init, StoreBar, BusyBar

\* A call cut short leaves every key as it was: what put has written so far has
\* no published name.
LEMMA CutOffRefines ==
  ASSUME CacheInv, NEW t \in Tasks, pc[t] # "idle", CutOff(t),
         \E r \in {"failed", None} : Return(t, r)
  PROVE  Atomic!Abandon(t)
<1> USE CacheAssumption DEF CacheInv, TypeOK
<1>1. \A k \in Keys : pub'[k] = pub[k] /\ (pub[k] # None => data'[pub[k]] = data[pub[k]])
  BY DEF CutOff, NamesAreExclusive, WriterOwnsTmp
<1>2. \A u \in Tasks : pc[u] = "read" => data'[fd[u]] = data[fd[u]]
  BY DEF CutOff, ReaderIsSafe, WriterOwnsTmp
<1>3. StoreBar' = StoreBar
  BY <1>1 DEF StoreBar
<1>4. BusyBar[t] # Atomic!Idle
  BY DEF BusyBar, Lookup, Store
<1>5. PICK r \in {"failed", None} : Return(t, r)
  OBVIOUS
<1>6. BusyBar' = [BusyBar EXCEPT ![t] = Atomic!Idle]
  <2>1. \A u \in Tasks \ {t} : BusyBar'[u] = BusyBar[u]
    BY <1>2, <1>5 DEF Return, BusyBar, Lookup, Store
  <2>2. BusyBar'[t] = Atomic!Idle
    BY <1>5 DEF Return, BusyBar
  <2> QED BY <2>1, <2>2 DEF BusyBar
<1> QED BY <1>3, <1>4, <1>5, <1>6 DEF Return, Atomic!Abandon, Atomic!Finish

\* Every system call is a step of the atomic map or changes nothing of it.
LEMMA StepRefines ==
  ASSUME CacheInv, CacheInv', [Next]_vars
  PROVE  [Atomic!Next]_(Atomic!vars)
<1> USE CacheAssumption DEF CacheInv, TypeOK, StoreBar, BusyBar, Lookup, Store, Atomic!vars
<1>1. ASSUME NEW t \in Tasks, NEW k \in Keys, GetMiss(t, k) PROVE Atomic!Miss(t, k)
  BY <1>1 DEF GetMiss, Return, Atomic!Miss, Atomic!Finish
<1>2. ASSUME NEW t \in Tasks, NEW k \in Keys, GetOpen(t, k) PROVE Atomic!Find(t, k)
  <2>1. StoreBar[k] = data[pub[k]] /\ data[pub[k]] \in Texts /\ UNCHANGED StoreBar
    BY <1>2 DEF GetOpen, PublishedIsWhole
  <2>2. BusyBar' = [BusyBar EXCEPT ![t] = <<"get", None, data[pub[k]]>>]
    BY <1>2 DEF GetOpen, Goto
  <2>3. BusyBar[t] = Atomic!Idle
    BY <1>2 DEF GetOpen
  <2> QED BY <1>2, <2>1, <2>2, <2>3 DEF GetOpen, Atomic!Find
<1>3. ASSUME NEW t \in Tasks, NEW k \in Keys, NEW x \in Texts, PutBegin(t, k, x)
      PROVE  Atomic!Begin(t, k, x)
  BY <1>3 DEF PutBegin, Goto, Atomic!Begin
<1>4. ASSUME NEW t \in Tasks, GetRead(t) PROVE Atomic!ReturnHit(t)
  <2> DEFINE x == data[fd[t]]
  <2>1. pc[t] = "read" /\ x \in Texts
    BY <1>4 DEF GetRead, ReaderIsSafe
  <2>2. BusyBar[t] = <<"get", None, x>>
    BY <2>1
  <2>3. Return(t, x) /\ UNCHANGED <<tmp, pub, data>>
    BY <1>4, <2>1 DEF GetRead
  <2>4. Atomic!Finish(t, x) /\ UNCHANGED StoreBar
    BY <2>1, <2>3 DEF Return, Atomic!Finish
  <2> HIDE DEF x, StoreBar, BusyBar
  <2> QED BY <2>1, <2>2, <2>4 DEF Atomic!ReturnHit
<1>5. ASSUME NEW t \in Tasks, PutOpenOld(t) PROVE UNCHANGED Atomic!vars
  <2> DEFINE i == tmp[key[t]]
  <2>1. /\ pc[t] = "open" /\ key[t] \in Keys /\ i \in Inodes
        /\ data' = [data EXCEPT ![i] = "empty"]
        /\ fd' = [fd EXCEPT ![t] = i]
        /\ Goto(t, "write")
        /\ UNCHANGED <<tmp, pub, key, text, out>>
    BY <1>5 DEF PutOpenOld, WriterOwnsTmp
  <2>2. /\ \A k \in Keys : pub[k] # i
        /\ \A u \in Tasks : pc[u] = "read" => fd[u] # i
    BY <2>1 DEF NamesAreExclusive, ReaderIsSafe
  <2> HIDE DEF i
  <2> QED BY <2>1, <2>2 DEF Goto, ReaderIsSafe
<1>6. ASSUME NEW t \in Tasks, PutOpenNew(t) PROVE UNCHANGED Atomic!vars
  <2> DEFINE i == CHOOSE j \in Free : TRUE
  <2>1. i \in Free
    BY <1>6 DEF PutOpenNew
  <2>2. /\ \A k \in Keys : pub[k] # i
        /\ \A u \in Tasks : fd[u] # i
    BY <2>1 DEF Free
  <2> HIDE DEF i
  <2>3. /\ pc[t] = "open"
        /\ data' = [data EXCEPT ![i] = "empty"]
        /\ fd' = [fd EXCEPT ![t] = i]
        /\ Goto(t, "write")
        /\ UNCHANGED <<pub, key, text, out>>
    BY <1>6 DEF PutOpenNew, i
  <2> QED BY <2>2, <2>3 DEF Goto, ReaderIsSafe
<1>7. ASSUME NEW t \in Tasks, PutWrite(t) PROVE UNCHANGED Atomic!vars
  BY <1>7 DEF PutWrite, Goto, ReaderIsSafe, NamesAreExclusive, WriterOwnsTmp
<1>8. ASSUME NEW t \in Tasks, PutChmod(t) PROVE UNCHANGED Atomic!vars
  BY <1>8 DEF PutChmod, Goto, WriterOwnsTmp
<1>9. ASSUME NEW t \in Tasks, PutRename(t) PROVE Atomic!Commit(t)
  <2>1. /\ pc[t] = "rename"
        /\ key[t] \in Keys /\ text[t] \in Texts
        /\ tmp[key[t]] # None /\ data[tmp[key[t]]] = text[t]
    BY <1>9 DEF PutRename, WriterOwnsTmp
  <2>2. /\ pub' = [pub EXCEPT ![key[t]] = tmp[key[t]]]
        /\ data' = data
        /\ Return(t, "stored")
    BY <1>9, <2>1 DEF PutRename
  <2>3. BusyBar[t] = <<"put", key[t], text[t]>>
    BY <2>1
  <2>4. StoreBar' = [StoreBar EXCEPT ![key[t]] = text[t]]
    BY <2>1, <2>2
  <2>5. Atomic!Finish(t, "stored")
    BY <2>1, <2>2 DEF Return, Atomic!Finish
  <2> QED BY <2>1, <2>3, <2>4, <2>5 DEF Atomic!Commit
<1>10. ASSUME NEW t \in Tasks, PutFail(t) PROVE Atomic!Abandon(t)
  <2>1. pc[t] # "idle" /\ CutOff(t) /\ \E r \in {"failed", None} : Return(t, r)
    BY <1>10 DEF PutFail
  <2> QED BY <2>1, CutOffRefines
<1>11. ASSUME NEW t \in Tasks, Die(t) PROVE Atomic!Abandon(t)
  <2>1. pc[t] # "idle" /\ CutOff(t) /\ \E r \in {"failed", None} : Return(t, r)
    BY <1>11 DEF Die
  <2> QED BY <2>1, CutOffRefines
<1>12. ASSUME NEW t \in Tasks, GetFail(t) PROVE Atomic!Abandon(t)
  <2>1. pc[t] # "idle" /\ CutOff(t) /\ \E r \in {"failed", None} : Return(t, r)
    BY <1>12 DEF GetFail, CutOff
  <2> QED BY <2>1, CutOffRefines
<1>13. ASSUME UNCHANGED vars PROVE UNCHANGED Atomic!vars
  BY <1>13 DEF vars
<1> QED
  BY <1>1, <1>2, <1>3, <1>4, <1>5, <1>6, <1>7, <1>8, <1>9, <1>10, <1>11, <1>12, <1>13
  DEF Next, Continue, Atomic!Next

\* Without overlapping stores of one key, every published file is whole and every
\* writer is alone with its temporary file: put of cache.rs, at each system call.
THEOREM CacheFilesAreConsistent ==
  ASSUME ~OverlappingPuts PROVE Spec => []CacheInv
<1>1. Init => CacheInv
  BY InitEstablishesInv
<1>2. CacheInv /\ [Next]_vars => CacheInv'
  BY StepKeepsInv
<1> QED BY <1>1, <1>2, PTL DEF Spec

\* Without overlapping stores of one key, get and put of cache.rs behave as one
\* atomic map, whichever system calls fail and whichever callers die.
THEOREM CacheImplementsAtomicCache ==
  ASSUME ~OverlappingPuts PROVE Spec => ImplementsAtomicCache
<1>1. Init => Atomic!Init
  BY InitRefines
<1>2. CacheInv /\ CacheInv' /\ [Next]_vars => [Atomic!Next]_(Atomic!vars)
  BY StepRefines
<1>3. Spec => []CacheInv
  BY CacheFilesAreConsistent
<1> QED BY <1>1, <1>2, <1>3, PTL DEF Spec, ImplementsAtomicCache, Atomic!Spec

\* Without overlapping stores of one key, "readers never see a partial file"
\* (cache.rs, put): no lookup meets an entry that does not parse.
THEOREM CompleteEntriesOnly ==
  ASSUME ~OverlappingPuts PROVE Spec => []ReadersNeverSeePartialFile
<1>1. Init => ReadersNeverSeePartialFile
  BY CacheAssumption DEF Init, ReadersNeverSeePartialFile
<1>2. CacheInv /\ ReadersNeverSeePartialFile /\ [Next]_vars
        => ReadersNeverSeePartialFile'
  <2> SUFFICES ASSUME CacheInv, ReadersNeverSeePartialFile, [Next]_vars
               PROVE  ReadersNeverSeePartialFile'
    OBVIOUS
  <2> USE CacheAssumption DEF CacheInv, TypeOK, ReadersNeverSeePartialFile
  <2>1. ASSUME NEW t \in Tasks, GetRead(t) PROVE ReadersNeverSeePartialFile'
    BY <2>1 DEF GetRead, Return, ReaderIsSafe
  <2>2. ASSUME NEW t \in Tasks,
               \/ \E k \in Keys : GetMiss(t, k) \/ GetOpen(t, k)
               \/ \E k \in Keys, x \in Texts : PutBegin(t, k, x)
               \/ PutChmod(t) \/ PutRename(t) \/ GetFail(t) \/ PutFail(t) \/ Die(t)
        PROVE  ReadersNeverSeePartialFile'
    BY <2>2 DEF GetMiss, GetOpen, PutBegin, PutChmod, PutRename, GetFail, PutFail, Die, Return
  <2>3. CASE UNCHANGED out
    BY <2>3
  <2> QED
    BY <2>1, <2>2, <2>3
    DEF Next, Continue, PutOpenOld, PutOpenNew, PutWrite, vars
<1> QED BY <1>1, <1>2, CacheFilesAreConsistent, PTL DEF Spec
=============================================================================
