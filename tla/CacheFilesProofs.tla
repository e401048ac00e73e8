--------------------------- MODULE CacheFilesProofs ---------------------------
(***************************************************************************)
(* Proofs about the files of the response cache: how many are counted, and *)
(* which are in the cache directory.  They build on the invariant SafeInv  *)
(* of CacheStoreProofs.                                                    *)
(***************************************************************************)
EXTENDS CacheStoreProofs

-----------------------------------------------------------------------------
(***************************************************************************)
(* The file count.  The counted files are those of the LRU and those of    *)
(* the tasks that count theirs: every step adds one, removes one or keeps  *)
(* them all, and the counter follows.                                      *)
(***************************************************************************)
Counts(t) == pc[t] \in {"push", "decr"} /\ IsFile(obj[t])

CountInv == IsFiniteSet(CountedFiles) /\ FileCountExact

LEMMA InCounted ==
  \A p : p \in CountedFiles <=> \/ \E o \in lru : IsFile(o) /\ o.path = p
                                \/ \E t \in Tasks : Counts(t) /\ obj[t].path = p
BY Zenon DEF CountedFiles, FilesOf, HeldAt, Counts

LEMMA InCountedNext ==
  \A p : p \in CountedFiles' <=> \/ \E o \in lru' : IsFile(o) /\ o.path = p
                                 \/ \E t \in Tasks : Counts(t)' /\ obj'[t].path = p
BY DEF CountedFiles, FilesOf, HeldAt, Counts, IsFile

\* The objects whose files are counted.
Refs == {o \in lru : IsFile(o)} \cup {obj[t] : t \in {u \in Tasks : Counts(u)}}

LEMMA SameRefs ==
  ASSUME CountInv, Refs' = Refs, fileCnt' = fileCnt PROVE CountInv'
<1>1. /\ CountedFiles = {o.path : o \in Refs}
      /\ CountedFiles' = {o.path : o \in Refs'}
  BY DEF CountedFiles, FilesOf, HeldAt, Counts, Refs, IsFile
<1>2. CountedFiles' = CountedFiles
  BY <1>1
<1> QED
  BY <1>2 DEF CountInv, FileCountExact

\* A step that leaves the LRU and the counted file of its task alone.
LEMMA CountFrame ==
  ASSUME CountInv, NEW x \in Tasks, lru' = lru, fileCnt' = fileCnt,
         \A t \in Tasks \ {x} : pc'[t] = pc[t] /\ obj'[t] = obj[t],
         \/ ~Counts(x) /\ ~Counts(x)'
         \/ Counts(x) /\ Counts(x)' /\ obj'[x] = obj[x]
  PROVE  CountInv'
<1>1. \A t \in Tasks : /\ Counts(t)' <=> Counts(t)
                       /\ Counts(t) => obj'[t] = obj[t]
  BY DEF Counts, IsFile
<1>2. CountedFiles' = CountedFiles
  BY <1>1, InCounted, InCountedNext, Zenon
<1> QED
  BY <1>2 DEF CountInv, FileCountExact

LEMMA CountAdds ==
  ASSUME SafeInv, CountInv, NEW s \in Tasks, IncrCount(s) PROVE CountInv'
<1> DEFINE f == obj[s].path
<1>1. /\ pc[s] = "incr" /\ IsFile(obj[s])
      /\ pc' = [pc EXCEPT ![s] = "push"] /\ lru' = lru /\ obj' = obj
      /\ fileCnt' = fileCnt + 1
  BY DEF IncrCount, Goto, lruVars, SafeInv, TypeInv, FileLabels
<1>2. Owns(s) /\ \A t \in Tasks : Counts(t) => Owns(t)
  BY <1>1, Zenon DEF Owns, Counts
<1>3. ~Counts(s) /\ f \notin CountedFiles
  BY <1>1, <1>2, InCounted DEF SafeInv, OwnInv, Counts
<1>4. /\ Counts(s)'
      /\ \A t \in Tasks \ {s} : Counts(t)' <=> Counts(t)
  BY <1>1 DEF Counts, IsFile, SafeInv, TypeInv, TypeOK
<1>5. CountedFiles' = CountedFiles \cup {f}
  BY <1>1, <1>3, <1>4, InCounted, InCountedNext, Zenon
<1> HIDE DEF f
<1> QED
  BY <1>1, <1>3, <1>5, FS_AddElement, Zenon DEF CountInv, FileCountExact

LEMMA CountRemoves ==
  ASSUME SafeInv, CountInv, NEW t \in Tasks, RemoveDecr(t)
  PROVE  CountInv' /\ fileCnt > 0
<1> DEFINE f == obj[t].path
<1>1. /\ pc[t] = "decr" /\ IsFile(obj[t])
      /\ pc' = [pc EXCEPT ![t] = "unlink"] /\ lru' = lru /\ obj' = obj
      /\ fileCnt' = IF fileCnt = 0 THEN 0 ELSE fileCnt - 1
  BY Zenon DEF RemoveDecr, Goto, lruVars, SafeInv, TypeInv, FileLabels
<1>2. Owns(t) /\ Counts(t) /\ \A u \in Tasks : Counts(u) => Owns(u)
  BY <1>1, Zenon DEF Owns, Counts
<1>3. /\ ~Counts(t)'
      /\ \A u \in Tasks \ {t} : Counts(u)' <=> Counts(u)
  BY <1>1, Zenon DEF Counts, IsFile, SafeInv, TypeInv, TypeOK
<1>4. /\ \A o \in lru : IsFile(o) => o.path # f
      /\ \A u \in Tasks \ {t} : Counts(u) => obj[u].path # f
  BY <1>2 DEF SafeInv, OwnInv
<1>5. f \in CountedFiles /\ CountedFiles' = CountedFiles \ {f}
  BY <1>1, <1>2, <1>3, <1>4, InCounted, InCountedNext
<1> HIDE DEF f
<1>6. /\ IsFiniteSet(CountedFiles')
      /\ Cardinality(CountedFiles') = Cardinality(CountedFiles) - 1
  BY <1>5, FS_RemoveElement DEF CountInv
<1>7. Cardinality(CountedFiles) \in Nat /\ Cardinality(CountedFiles') \in Nat
  BY <1>6, FS_CardinalityType, Zenon DEF CountInv
<1> QED
  BY <1>1, <1>6, <1>7 DEF CountInv, FileCountExact

LEMMA CountPush ==
  ASSUME SafeInv, CountInv, NEW s \in Stores, Push(s) PROVE CountInv'
<1>1. s \in Tasks
  BY Zenon DEF Tasks
<1>2. /\ \A t \in Tasks \ {s} : pc'[t] = pc[t] /\ obj'[t] = obj[t]
      /\ pc[s] = "push" /\ fileCnt' = fileCnt
  BY PushEffect
<1>3. /\ \A t \in Tasks \ {s} : Counts(t)' <=> Counts(t)
      /\ Counts(s) <=> IsFile(obj[s])
  BY <1>2, Zenon DEF Counts, IsFile
<1>4. Refs' = Refs
  <2> DEFINE others == {obj[t] : t \in {u \in Tasks \ {s} : Counts(u)}}
             mine == IF IsFile(obj[s]) THEN {obj[s]} ELSE {}
  <2>1. Refs = {o \in lru : IsFile(o)} \cup others \cup mine
    BY <1>1, <1>3, Zenon DEF Refs
  <2>2. ASSUME NEW o \in lru, IsFile(o), lru' = (lru \ {o}) \cup {obj[s]},
               pc'[s] = "decr", obj'[s] = o
        PROVE  Refs' = Refs
    <3>1. Counts(s)'
      BY <2>2, Zenon DEF Counts, IsFile
    <3>2. Refs' = {q \in lru' : IsFile(q)} \cup others \cup {o}
      BY <1>1, <1>2, <1>3, <2>2, <3>1 DEF Refs, IsFile
    <3> HIDE DEF others
    <3> QED
      BY <2>1, <2>2, <3>2
  <2>3. ASSUME NEW M \in SUBSET lru, \A o \in M : ~IsFile(o),
               lru' = (lru \ M) \cup {obj[s]}, pc'[s] \in {"done", "idle"}
        PROVE  Refs' = Refs
    <3>1. ~Counts(s)'
      BY <2>3, Zenon DEF Counts
    <3>2. Refs' = {q \in lru' : IsFile(q)} \cup others
      BY <1>1, <1>2, <1>3, <2>3, <3>1 DEF Refs, IsFile
    <3> HIDE DEF others
    <3> QED
      BY <2>1, <2>3, <3>2, Zenon
  <2> QED
    BY <2>2, <2>3, PushEffect
<1> QED
  BY <1>2, <1>4, SameRefs

LEMMA CountEvict ==
  ASSUME SafeInv, CountInv, NEW g \in Gets, GetEvict(g) PROVE CountInv'
<1>1. g \in Tasks
  BY Zenon DEF Tasks
<1>2. lru' = lru \ {obj[g]} /\ obj[g] \in lru /\ fileCnt' = fileCnt
  BY EvictExact, Zenon DEF GetEvict, SafeInv
<1>3. /\ \A t \in Tasks \ {g} : pc'[t] = pc[t] /\ obj'[t] = obj[t]
      /\ pc[g] = "evict"
      /\ \/ IsFile(obj[g]) /\ pc'[g] = "decr" /\ obj'[g] = obj[g]
         \/ ~IsFile(obj[g]) /\ pc'[g] \in {"done", "idle"}
  BY <1>1, Zenon DEF GetEvict, Goto, Finish, SafeInv, TypeInv, TypeOK
<1>4. /\ \A t \in Tasks \ {g} : Counts(t)' <=> Counts(t)
      /\ ~Counts(g)
      /\ Counts(g)' <=> IsFile(obj[g])
      /\ IsFile(obj[g]) => obj'[g] = obj[g]
  BY <1>3 DEF Counts, IsFile
<1>5. Refs' = Refs
  <2> DEFINE others == {obj[t] : t \in {u \in Tasks \ {g} : Counts(u)}}
             mine == IF IsFile(obj[g]) THEN {obj[g]} ELSE {}
  <2>1. Refs = {o \in lru : IsFile(o)} \cup others
    BY <1>1, <1>4, Zenon DEF Refs
  <2>2. Refs' = {o \in lru' : IsFile(o)} \cup others \cup mine
    BY <1>1, <1>3, <1>4, Zenon DEF Refs, IsFile
  <2> HIDE DEF others
  <2> QED
    BY <1>2, <2>1, <2>2, Zenon
<1> QED
  BY <1>2, <1>5, SameRefs

\* What CountFrame asks of a step of task x.
KeepsCount(x) ==
  /\ lru' = lru /\ fileCnt' = fileCnt
  /\ \A t \in Tasks \ {x} : pc'[t] = pc[t] /\ obj'[t] = obj[t]
  /\ \/ ~Counts(x) /\ ~Counts(x)'
     \/ Counts(x) /\ Counts(x)' /\ obj'[x] = obj[x]

\* Only incr_count and FileStore::remove move the counter, each with the set.
LEMMA CountStep == SafeInv /\ CountInv /\ [Next]_vars => CountInv'
<1> SUFFICES ASSUME SafeInv, CountInv, [Next]_vars PROVE CountInv'
  BY Zenon
<1>0. pc \in [Tasks -> PCs] /\ obj \in [Tasks -> Object]
  BY Zenon DEF SafeInv, TypeInv, TypeOK
<1> USE <1>0, BlankType DEF Goto, Finish, lruVars, dirVars, Obj,
    Counts, IsFile
<1>1. ASSUME NEW s \in Stores, NEW k \in Keys, Put(s, k) PROVE CountInv'
  <2>1. s \in Tasks /\ KeepsCount(s)
    BY <1>1, Zenon DEF Put, Tasks, KeepsCount
  <2> QED
    BY <2>1, CountFrame, Zenon DEF KeepsCount
<1>2. ASSUME NEW s \in Stores, StoreStep(s) PROVE CountInv'
  <2> s \in Tasks
    BY Zenon DEF Tasks
  <2>1. CASE SpoolGiveUp(s)
    <3>1. KeepsCount(s)
      BY <2>1, Zenon DEF KeepsCount, SpoolGiveUp
    <3> QED
      BY <3>1, CountFrame, Zenon DEF KeepsCount
  <2>2. CASE SpoolOnMemory(s)
    <3>1. KeepsCount(s)
      BY <2>2, Zenon DEF KeepsCount, SpoolOnMemory
    <3> QED
      BY <3>1, CountFrame DEF KeepsCount
  <2>3. CASE SpillCreate(s)
    <3>1. KeepsCount(s)
      BY <2>3, Zenon DEF KeepsCount, SpillCreate
    <3> QED
      BY <3>1, CountFrame DEF KeepsCount
  <2>4. CASE SpillCreateFails(s)
    <3>1. KeepsCount(s)
      BY <2>4, Zenon DEF KeepsCount, SpillCreateFails
    <3> QED
      BY <3>1, CountFrame DEF KeepsCount
  <2>5. CASE SpillAbort(s)
    <3>1. KeepsCount(s)
      BY <2>5, Zenon DEF KeepsCount, SpillAbort
    <3> QED
      BY <3>1, CountFrame DEF KeepsCount
  <2>6. CASE SpillCommit(s)
    <3>1. KeepsCount(s)
      BY <2>6, Zenon DEF KeepsCount, SpillCommit
    <3> QED
      BY <3>1, CountFrame DEF KeepsCount
  <2>7. CASE NewObject(s)
    <3>1. KeepsCount(s)
      BY <2>7, Zenon DEF KeepsCount, NewObject
    <3> QED
      BY <3>1, CountFrame DEF KeepsCount
  <2>8. CASE IncrCount(s)
    BY <2>8, CountAdds, Zenon
  <2>9. CASE PushFails(s)
    <3>1. KeepsCount(s)
      BY <2>9, Zenon DEF KeepsCount, PushFails
    <3> QED
      BY <3>1, CountFrame DEF KeepsCount
  <2>10. CASE Push(s)
    BY <2>10, CountPush, Zenon
  <2>11. CASE RemoveDecr(s)
    BY <2>11, CountRemoves, Zenon
  <2>12. CASE RemoveUnlink(s)
    <3>1. KeepsCount(s)
      BY <2>12, Zenon DEF KeepsCount, RemoveUnlink
    <3> QED
      BY <3>1, CountFrame DEF KeepsCount
  <2> QED
    BY <1>2, <2>1, <2>2, <2>3, <2>4, <2>5, <2>6, <2>7,
       <2>8, <2>9, <2>10, <2>11, <2>12 DEF StoreStep, Remove
<1>3. ASSUME NEW g \in Gets, GetStep(g) \/ GetLookup(g) PROVE CountInv'
  <2> g \in Tasks
    BY Zenon DEF Tasks
  <2>1. CASE GetLookup(g)
    <3>1. KeepsCount(g)
      BY <2>1, Zenon DEF KeepsCount, GetLookup
    <3> QED
      BY <3>1, CountFrame DEF KeepsCount
  <2>2. CASE GetFresh(g)
    <3>1. KeepsCount(g)
      BY <2>2, Zenon DEF KeepsCount, GetFresh
    <3> QED
      BY <3>1, CountFrame DEF KeepsCount
  <2>3. CASE GetStale(g)
    <3>1. KeepsCount(g)
      BY <2>3, Zenon DEF KeepsCount, GetStale
    <3> QED
      BY <3>1, CountFrame DEF KeepsCount
  <2>4. CASE GetOpen(g)
    <3>1. KeepsCount(g)
      BY <2>4, Zenon DEF KeepsCount, GetOpen
    <3> QED
      BY <3>1, CountFrame DEF KeepsCount
  <2>5. CASE GetOpenFails(g)
    <3>1. KeepsCount(g)
      BY <2>5, Zenon DEF KeepsCount, GetOpenFails
    <3> QED
      BY <3>1, CountFrame DEF KeepsCount
  <2>6. CASE GetDropped(g)
    <3>1. KeepsCount(g)
      BY <2>6, Zenon DEF KeepsCount, GetDropped
    <3> QED
      BY <3>1, CountFrame DEF KeepsCount
  <2>7. CASE GetEvict(g)
    BY <2>7, CountEvict
  <2>8. CASE GetEvictSkips(g)
    <3>1. KeepsCount(g)
      BY <2>8, Zenon DEF KeepsCount, GetEvictSkips
    <3> QED
      BY <3>1, CountFrame DEF KeepsCount
  <2>9. CASE ReadEnds(g)
    <3>1. KeepsCount(g)
      BY <2>9, Zenon DEF KeepsCount, ReadEnds
    <3> QED
      BY <3>1, CountFrame DEF KeepsCount
  <2>10. CASE ReadMismatch(g)
    <3>1. KeepsCount(g)
      BY <2>10, Zenon DEF KeepsCount, ReadMismatch
    <3> QED
      BY <3>1, CountFrame DEF KeepsCount
  <2>11. CASE RemoveDecr(g)
    BY <2>11, CountRemoves
  <2>12. CASE RemoveUnlink(g)
    <3>1. KeepsCount(g)
      BY <2>12, Zenon DEF KeepsCount, RemoveUnlink
    <3> QED
      BY <3>1, CountFrame DEF KeepsCount
  <2> QED
    BY <1>3, <2>1, <2>2, <2>3, <2>4, <2>5, <2>6, <2>7,
       <2>8, <2>9, <2>10, <2>11, <2>12 DEF GetStep, Remove
<1>4. ASSUME NEW p \in disk, ExternalRemove(p) PROVE CountInv'
  <2>1. UNCHANGED <<lru, pc, obj, fileCnt>>
    BY <1>4, Zenon DEF ExternalRemove
  <2>2. Refs' = Refs
    BY <2>1, Zenon DEF Refs
  <2> QED
    BY <2>1, <2>2, SameRefs, Zenon
<1>5. CASE Poison
  <2>1. UNCHANGED <<lru, pc, obj, fileCnt>>
    BY <1>5, Zenon DEF Poison
  <2>2. Refs' = Refs
    BY <2>1, Zenon DEF Refs
  <2> QED
    BY <2>1, <2>2, SameRefs, Zenon
<1>6. CASE UNCHANGED vars
  <2>1. UNCHANGED <<lru, pc, obj, fileCnt>>
    BY <1>6, Zenon DEF vars
  <2>2. Refs' = Refs
    BY <2>1 DEF Refs
  <2> QED
    BY <2>1, <2>2, SameRefs
<1> QED
  BY <1>1, <1>2, <1>3, <1>4, <1>5, <1>6, Zenon DEF Next

LEMMA CountInit == Init => CountInv
<1> SUFFICES ASSUME Init PROVE CountInv
  OBVIOUS
<1>1. CountedFiles = {}
  BY InCounted DEF Init, Counts
<1> QED
  BY <1>1, FS_EmptySet DEF CountInv, FileCountExact, Init

-----------------------------------------------------------------------------
\* FileStore.cnt is always the number of counted files: those of the LRU and
\* those between incr_count and FileStore::remove in some task.
THEOREM FileCountCorrect == Spec => []FileCountExact
<1>1. CountInv => FileCountExact
  BY DEF CountInv
<1> QED
  BY <1>1, CountInit, CountStep, SafeInit, SafeStep, PTL DEF Spec

\* The saturating subtraction of FileStore::remove never saturates.
THEOREM NeverSaturates == Spec => []RemoveNeverSaturates
<1>1. SafeInv /\ CountInv => RemoveNeverSaturates
  <2> SUFFICES ASSUME SafeInv, CountInv, NEW t \in Tasks, pc[t] = "decr"
               PROVE  fileCnt > 0
    BY Zenon DEF RemoveNeverSaturates
  <2>1. obj[t].path \in CountedFiles
    BY InCounted, Zenon DEF Counts, SafeInv, TypeInv, FileLabels
  <2>2. Cardinality(CountedFiles) # 0 /\ Cardinality(CountedFiles) \in Nat
    BY <2>1, FS_EmptySet, FS_CardinalityType, Zenon DEF CountInv
  <2> QED
    BY <2>2 DEF CountInv, FileCountExact
<1> QED
  BY <1>1, CountInit, CountStep, SafeInit, SafeStep, PTL DEF Spec

-----------------------------------------------------------------------------
(***************************************************************************)
(* The cache directory.  The file of an entry, or of a task about to       *)
(* publish one, is there unless something else deleted it; and nothing     *)
(* else is there.                                                          *)
(***************************************************************************)
Publishes(t) == pc[t] \in {"new", "incr", "push"} /\ IsFile(obj[t])

LiveInv ==
  /\ \A o \in lru : IsFile(o) => o.path \in disk \cup lost
  /\ \A t \in Tasks : Publishes(t) => obj[t].path \in disk \cup lost

\* The file of a counted removal is nobody else's.
LEMMA LiveUnlink ==
  ASSUME SafeInv, LiveInv, NEW x \in Tasks, RemoveUnlink(x)
  PROVE  LiveInv'
<1>1. TypeInv /\ OwnInv /\ Finish(x) /\ pc[x] = "unlink"
  BY Zenon DEF SafeInv, RemoveUnlink
<1>2. Only(x) /\ pc'[x] \in {"done", "idle"}
  BY <1>1, Finishes, Zenon
<1>3. Owns(x)
  BY <1>1, Zenon DEF TypeInv, FileLabels, Owns
<1>4. \A o \in lru : IsFile(o) => o.path # obj[x].path
  BY <1>1, <1>3, Zenon DEF OwnInv
<1>5. \A t \in Tasks \ {x} : Publishes(t) => obj[t].path # obj[x].path
  <2>1. \A t \in Tasks : Publishes(t) => Owns(t)
    BY Zenon DEF Publishes, Owns
  <2> QED
    BY <1>1, <1>3, <2>1, Zenon DEF OwnInv
<1>6. disk \ {obj[x].path} \subseteq disk' /\ lost' = lost /\ lru' = lru
  BY Zenon DEF RemoveUnlink, lruVars
<1>7. \A t \in Tasks : Publishes(t)' => t # x /\ Publishes(t) /\ obj'[t] = obj[t]
  BY <1>2, Zenon DEF Publishes, Only
<1>8. \A o \in lru' : IsFile(o) => o.path \in disk' \cup lost'
  BY <1>4, <1>6, Zenon DEF LiveInv
<1>9. \A t \in Tasks : Publishes(t)' => obj'[t].path \in disk' \cup lost'
  BY <1>5, <1>6, <1>7, Zenon DEF LiveInv
<1> QED
  BY <1>8, <1>9, Zenon DEF LiveInv

\* Only the counted removal of an owned file unlinks without a trace in `lost`.
LEMMA LiveStep == SafeInv /\ LiveInv /\ [Next]_vars => LiveInv'
<1> SUFFICES ASSUME SafeInv, LiveInv, [Next]_vars PROVE LiveInv'
  OBVIOUS
<1> USE BlankType DEF SafeInv, TypeInv, TypeOK, Object, LiveInv, Publishes, IsFile,
    Obj, FileLabels, Goto, Finish, lruVars, dirVars
<1>1. ASSUME NEW s \in Stores, NEW k \in Keys, Put(s, k) PROVE LiveInv'
  BY <1>1 DEF Put, Tasks
<1>2. ASSUME NEW s \in Stores, StoreStep(s) PROVE LiveInv'
  <2> s \in Tasks
    BY Zenon DEF Tasks
  <2>1. CASE SpoolGiveUp(s)
    BY <2>1, Zenon DEF SpoolGiveUp
  <2>2. CASE SpoolOnMemory(s)
    BY <2>2, Zenon DEF SpoolOnMemory, OwnInv
  <2>3. CASE SpillCreate(s)
    BY <2>3, Zenon DEF SpillCreate
  <2>4. CASE SpillCreateFails(s)
    BY <2>4, Zenon DEF SpillCreateFails
  <2>5. CASE SpillAbort(s)
    BY <2>5, Zenon DEF SpillAbort
  <2>6. CASE SpillCommit(s)
    BY <2>6, Zenon DEF SpillCommit
  <2>7. CASE NewObject(s)
    BY <2>7, Zenon DEF NewObject
  <2>8. CASE IncrCount(s)
    BY <2>8, Zenon DEF IncrCount
  <2>9. CASE PushFails(s)
    BY <2>9, Zenon DEF PushFails
  <2>10. CASE Push(s)
    <3>1. lru' \subseteq lru \cup {obj[s]} /\ pc[s] = "push"
      BY <2>10, Zenon DEF Push
    <3>2. pc'[s] \in {"decr", "done", "idle"} /\ UNCHANGED <<disk, lost>>
      BY <2>10, Zenon DEF Push
    <3>3. \A t \in Tasks \ {s} : pc'[t] = pc[t] /\ obj'[t] = obj[t]
      BY <2>10, Zenon DEF Push
    <3> QED
      BY <3>1, <3>2, <3>3, Zenon
  <2>11. CASE RemoveDecr(s)
    BY <2>11, Zenon DEF RemoveDecr
  <2>12. CASE RemoveUnlink(s)
    BY <2>12, LiveUnlink, Zenon
  <2> QED
    BY <1>2, <2>1, <2>2, <2>3, <2>4, <2>5, <2>6, <2>7,
       <2>8, <2>9, <2>10, <2>11, <2>12 DEF StoreStep, Remove
<1>3. ASSUME NEW g \in Gets, GetStep(g) \/ GetLookup(g) PROVE LiveInv'
  <2> g \in Tasks
    BY Zenon DEF Tasks
  <2>1. CASE GetLookup(g)
    BY <2>1, Zenon DEF GetLookup
  <2>2. CASE GetFresh(g)
    <3>1. pc'[g] \in {"open", "done", "idle"} /\ UNCHANGED <<lru, disk, lost>>
      BY <2>2, Zenon DEF GetFresh
    <3>2. \A t \in Tasks \ {g} : pc'[t] = pc[t] /\ obj'[t] = obj[t]
      BY <2>2, Zenon DEF GetFresh
    <3> QED
      BY <3>1, <3>2, Zenon
  <2>3. CASE GetStale(g)
    BY <2>3, Zenon DEF GetStale
  <2>4. CASE GetOpen(g)
    BY <2>4, Zenon DEF GetOpen
  <2>5. CASE GetOpenFails(g)
    BY <2>5, Zenon DEF GetOpenFails
  <2>6. CASE GetDropped(g)
    BY <2>6, Zenon DEF GetDropped
  <2>7. CASE GetEvict(g)
    <3>1. lru' \subseteq lru /\ UNCHANGED <<disk, lost>>
      BY <2>7, Zenon DEF GetEvict
    <3>2. /\ \A t \in Tasks \ {g} : pc'[t] = pc[t] /\ obj'[t] = obj[t]
          /\ pc'[g] \in {"decr", "done", "idle"}
      BY <2>7, Zenon DEF GetEvict
    <3> QED
      BY <3>1, <3>2, Zenon
  <2>8. CASE GetEvictSkips(g)
    BY <2>8, Zenon DEF GetEvictSkips
  <2>9. CASE ReadEnds(g)
    BY <2>9, Zenon DEF ReadEnds
  <2>10. CASE ReadMismatch(g)
    BY <2>10, Zenon DEF ReadMismatch
  <2>11. CASE RemoveDecr(g)
    BY <2>11 DEF RemoveDecr
  <2>12. CASE RemoveUnlink(g)
    BY <2>12, LiveUnlink
  <2> QED
    BY <1>3, <2>1, <2>2, <2>3, <2>4, <2>5, <2>6, <2>7,
       <2>8, <2>9, <2>10, <2>11, <2>12, Zenon DEF GetStep, Remove
<1>4. ASSUME NEW p \in disk, ExternalRemove(p) PROVE LiveInv'
  BY <1>4, Zenon DEF ExternalRemove
<1>5. CASE Poison
  BY <1>5, Zenon DEF Poison
<1>6. CASE UNCHANGED vars
  BY <1>6 DEF vars
<1> QED
  BY <1>1, <1>2, <1>3, <1>4, <1>5, <1>6, Zenon DEF Next

\* Evictions, replacements and roll-backs never unlink the file of a live entry.
THEOREM LiveEntryCorrect == Spec => []LiveEntryHasFile
<1>1. Init => LiveInv
  BY Zenon DEF Init, LiveInv, Publishes
<1>2. LiveInv => LiveEntryHasFile
  BY Zenon DEF LiveInv, LiveEntryHasFile, FilesOf
<1> QED
  BY <1>1, <1>2, LiveStep, SafeInit, SafeStep, PTL DEF Spec

Holds(t) ==
  pc[t] \in {"new", "incr", "push", "decr", "unlink"} /\ IsFile(obj[t])

StrandInv ==
  /\ \A p \in disk : \/ p \in leaked
                     \/ \E o \in lru : IsFile(o) /\ o.path = p
                     \/ \E t \in Tasks : Holds(t) /\ obj[t].path = p
  /\ \A p \in tmp : \/ p \in leaked
                    \/ \E t \in Tasks : pc[t] = "spill" /\ obj[t].path = p

\* A task hands on the files it and the LRU own, and creates none.
LEMMA StrandFrame ==
  ASSUME StrandInv, NEW x \in Tasks,
         \A t \in Tasks \ {x} : pc'[t] = pc[t] /\ obj'[t] = obj[t],
         UNCHANGED <<disk, tmp, leaked>>, pc[x] # "spill",
         \A o \in lru : IsFile(o) =>
            o \in lru' \/ (Holds(x)' /\ obj'[x].path = o.path),
         Holds(x) => obj[x] \in lru' /\ IsFile(obj[x])
  PROVE  StrandInv'
<1>1. ASSUME NEW p \in disk', p \notin leaked'
      PROVE  \/ \E o \in lru' : IsFile(o) /\ o.path = p
             \/ \E t \in Tasks : Holds(t)' /\ obj'[t].path = p
  <2> SUFFICES ASSUME \A t \in Tasks : ~(Holds(t)' /\ obj'[t].path = p)
               PROVE  \E o \in lru' : IsFile(o) /\ o.path = p
    BY Zenon
  <2>1. CASE \E o \in lru : IsFile(o) /\ o.path = p
    BY <2>1, Zenon
  <2>2. ASSUME NEW t \in Tasks, Holds(t), obj[t].path = p
        PROVE  \E o \in lru' : IsFile(o) /\ o.path = p
    <3>1. CASE t = x
      BY <2>2, <3>1, Zenon
    <3>2. CASE t # x
      BY <2>2, <3>2, Zenon DEF Holds, IsFile
    <3> QED
      BY <3>1, <3>2, Zenon
  <2> QED
    BY <1>1, <2>1, <2>2, Zenon DEF StrandInv
<1>2. ASSUME NEW p \in tmp', p \notin leaked'
      PROVE  \E t \in Tasks : pc'[t] = "spill" /\ obj'[t].path = p
  <2>1. PICK t \in Tasks : pc[t] = "spill" /\ obj[t].path = p
    BY <1>2, Zenon DEF StrandInv
  <2> QED
    BY <2>1, Zenon
<1> QED
  BY <1>1, <1>2, Zenon DEF StrandInv, Holds, IsFile

LEMMA StrandPush ==
  ASSUME SafeInv, StrandInv, NEW s \in Stores, Push(s)
  PROVE  StrandInv'
<1>1. /\ s \in Tasks /\ pc[s] = "push" /\ UNCHANGED <<disk, tmp, leaked>>
      /\ \A t \in Tasks \ {s} : pc'[t] = pc[t] /\ obj'[t] = obj[t]
  BY PushEffect, Zenon DEF Tasks, dirVars
<1>2. /\ obj[s] \in lru'
      /\ \A o \in lru : IsFile(o) =>
            o \in lru' \/ (pc'[s] = "decr" /\ obj'[s] = o)
  <2>1. CASE \E o \in lru : /\ IsFile(o)
                            /\ lru' = (lru \ {o}) \cup {obj[s]}
                            /\ pc'[s] = "decr" /\ obj'[s] = o
    BY <2>1, Zenon
  <2>2. CASE \E M \in SUBSET lru : /\ \A o \in M : ~IsFile(o)
                                   /\ lru' = (lru \ M) \cup {obj[s]}
    BY <2>2, Zenon
  <2> QED
    BY <2>1, <2>2, PushEffect, Zenon
<1>3. \A o \in lru : IsFile(o) =>
         o \in lru' \/ (Holds(s)' /\ obj'[s].path = o.path)
  BY <1>2, Zenon DEF Holds, IsFile
<1>4. Holds(s) => obj[s] \in lru' /\ IsFile(obj[s])
  BY <1>2, Zenon DEF Holds
<1> QED
  BY <1>1, <1>3, <1>4, StrandFrame, Zenon

LEMMA StrandFresh ==
  ASSUME TypeInv, StrandInv, NEW g \in Gets, GetFresh(g)
  PROVE  StrandInv'
<1>1. g \in Tasks /\ pc \in [Tasks -> PCs] /\ obj \in [Tasks -> Object]
  BY Zenon DEF TypeInv, TypeOK, Tasks
<1>2. pc[g] = "fresh" /\ UNCHANGED <<lru, disk, tmp, leaked>>
  BY Zenon DEF GetFresh, lruVars, dirVars
<1>3. \A t \in Tasks \ {g} : pc'[t] = pc[t] /\ obj'[t] = obj[t]
  BY <1>1, Zenon DEF GetFresh, Goto, Finish
<1>4. ~Holds(g)
  BY <1>2, Zenon DEF Holds
<1> QED
  BY <1>1, <1>2, <1>3, <1>4, StrandFrame, Zenon

LEMMA StrandEvict ==
  ASSUME SafeInv, StrandInv, NEW g \in Gets, GetEvict(g)
  PROVE  StrandInv'
<1>1. g \in Tasks /\ pc \in [Tasks -> PCs] /\ obj \in [Tasks -> Object]
  BY Zenon DEF SafeInv, TypeInv, TypeOK, Tasks
<1>2. lru' = lru \ {obj[g]}
  BY EvictExact, Zenon DEF GetEvict, SafeInv
<1>3. pc[g] = "evict" /\ UNCHANGED <<disk, tmp, leaked>>
  BY Zenon DEF GetEvict, dirVars
<1>4. /\ \A t \in Tasks \ {g} : pc'[t] = pc[t] /\ obj'[t] = obj[t]
      /\ IsFile(obj[g]) => pc'[g] = "decr" /\ obj'[g] = obj[g]
  BY <1>1, Zenon DEF GetEvict, Goto, Finish
<1>5. ~Holds(g)
  BY <1>3, Zenon DEF Holds
<1>6. \A o \in lru : IsFile(o) =>
         o \in lru' \/ (Holds(g)' /\ obj'[g].path = o.path)
  BY <1>2, <1>4, Zenon DEF Holds, IsFile
<1> QED
  BY <1>1, <1>3, <1>4, <1>5, <1>6, StrandFrame, Zenon

\* A task goes on with its file, or what becomes of the file is known.
LEMMA StrandKeep ==
  ASSUME StrandInv, NEW x \in Tasks, Only(x), lru' = lru,
         disk' \subseteq disk, tmp' \subseteq tmp, leaked \subseteq leaked',
         Holds(x) => \/ Holds(x)' /\ obj'[x].path = obj[x].path
                     \/ obj[x].path \notin disk' \/ obj[x].path \in leaked',
         pc[x] = "spill" => obj[x].path \notin tmp' \/ obj[x].path \in leaked'
  PROVE  StrandInv'
<1>1. \A t \in Tasks \ {x} : /\ Holds(t) => Holds(t)' /\ obj'[t].path = obj[t].path
                             /\ pc[t] = "spill" => pc'[t] = "spill" /\ obj'[t].path = obj[t].path
  BY Zenon DEF Only, Holds
<1>2. ASSUME NEW p \in disk', p \notin leaked'
      PROVE  \/ \E o \in lru' : IsFile(o) /\ o.path = p
             \/ \E t \in Tasks : Holds(t)' /\ obj'[t].path = p
  <2>1. CASE \E o \in lru : IsFile(o) /\ o.path = p
    BY <2>1, Zenon
  <2>2. ASSUME NEW t \in Tasks, Holds(t), obj[t].path = p
        PROVE  Holds(t)' /\ obj'[t].path = p
    BY <1>1, <1>2, <2>2, Zenon
  <2> QED
    BY <1>2, <2>1, <2>2, Zenon DEF StrandInv
<1>3. ASSUME NEW p \in tmp', p \notin leaked'
      PROVE  \E t \in Tasks : pc'[t] = "spill" /\ obj'[t].path = p
  <2>1. PICK t \in Tasks : pc[t] = "spill" /\ obj[t].path = p
    BY <1>3, Zenon DEF StrandInv
  <2> QED
    BY <1>1, <1>3, <2>1, Zenon
<1> QED
  BY <1>2, <1>3, Zenon DEF StrandInv

\* The file a task creates or commits is its own.
LEMMA StrandSpill ==
  ASSUME TypeInv, StrandInv, NEW s \in Tasks, SpillCreate(s) \/ SpillCommit(s)
  PROVE  StrandInv'
<1>1. /\ Only(s) /\ lru' = lru /\ leaked' = leaked /\ ~Holds(s)
      /\ \/ /\ pc'[s] = "spill" /\ tmp' = tmp \cup {obj'[s].path} /\ disk' = disk
            /\ pc[s] = "spool"
         \/ /\ Holds(s)' /\ obj'[s] = obj[s] /\ disk' = disk \cup {obj[s].path}
            /\ tmp' = tmp \ {obj[s].path}
  <2>1. CASE SpillCreate(s)
    BY <2>1, Zenon DEF SpillCreate, TypeInv, TypeOK, Goto, Only, Obj, Holds, lruVars
  <2>2. CASE SpillCommit(s)
    <3>1. Only(s) /\ pc'[s] = "new" /\ obj'[s] = obj[s] /\ pc[s] = "spill"
      BY <2>2, Goes, Zenon DEF SpillCommit
    <3>2. IsFile(obj[s])
      BY <3>1, Zenon DEF TypeInv, FileLabels
    <3> QED
      BY <2>2, <3>1, <3>2, Zenon DEF SpillCommit, Holds, lruVars
  <2> QED
    BY <2>1, <2>2, Zenon
<1>2. \A t \in Tasks \ {s} : /\ Holds(t) => Holds(t)' /\ obj'[t].path = obj[t].path
                             /\ pc[t] = "spill" => pc'[t] = "spill" /\ obj'[t].path = obj[t].path
  BY <1>1, Zenon DEF Only, Holds
<1>3. ASSUME NEW p \in disk', p \notin leaked'
      PROVE  \/ \E o \in lru' : IsFile(o) /\ o.path = p
             \/ \E t \in Tasks : Holds(t)' /\ obj'[t].path = p
  <2>1. CASE p \in disk
    <3>1. CASE \E o \in lru : IsFile(o) /\ o.path = p
      BY <1>1, <3>1, Zenon
    <3>2. ASSUME NEW t \in Tasks, Holds(t), obj[t].path = p
          PROVE  Holds(t)' /\ obj'[t].path = p
      BY <1>1, <1>2, <3>2, Zenon
    <3>3. p \notin leaked
      BY <1>1, <1>3, Zenon
    <3> QED
      BY <1>3, <2>1, <3>1, <3>2, <3>3, Zenon DEF StrandInv
  <2>2. CASE p \notin disk
    BY <1>1, <1>3, <2>2, Zenon
  <2> QED
    BY <2>1, <2>2, Zenon
<1>4. ASSUME NEW p \in tmp', p \notin leaked'
      PROVE  \E t \in Tasks : pc'[t] = "spill" /\ obj'[t].path = p
  <2>1. CASE p \in tmp
    <3>1. PICK t \in Tasks : pc[t] = "spill" /\ obj[t].path = p
      BY <1>1, <1>4, <2>1, Zenon DEF StrandInv
    <3> QED
      BY <1>1, <1>2, <1>4, <3>1, Zenon
  <2>2. CASE p \notin tmp
    BY <1>1, <1>4, <2>2, Zenon
  <2> QED
    BY <2>1, <2>2, Zenon
<1> QED
  BY <1>3, <1>4, Zenon DEF StrandInv

\* A file leaves its owner for another owner, or for good.
LEMMA StrandStep == SafeInv /\ StrandInv /\ [Next]_vars => StrandInv'
<1> SUFFICES ASSUME SafeInv, StrandInv, [Next]_vars PROVE StrandInv'
  OBVIOUS
<1>0. TypeInv /\ Stores \subseteq Tasks /\ Gets \subseteq Tasks
  BY Zenon DEF SafeInv, Tasks
<1>1. ASSUME NEW x \in Tasks, Finish(x), lru' = lru, disk' \subseteq disk,
             UNCHANGED <<tmp, leaked>>, ~Holds(x), pc[x] # "spill"
      PROVE  StrandInv'
  <2>1. Only(x)
    BY <1>0, <1>1, Finishes, Zenon
  <2> QED
    BY <1>1, <2>1, StrandKeep, Zenon
<1>2. ASSUME NEW x \in Tasks, NEW label, Goto(x, label), obj' = obj, lru' = lru,
             UNCHANGED <<disk, tmp, leaked>>, pc[x] # "spill",
             ~Holds(x) \/ label \in {"incr", "push", "decr", "unlink"}
      PROVE  StrandInv'
  <2>1. Only(x) /\ pc'[x] = label /\ obj'[x] = obj[x]
    BY <1>0, <1>2, Goes, Zenon
  <2>2. Holds(x) => Holds(x)'
    BY <1>2, <2>1, Zenon DEF Holds
  <2> QED
    BY <1>2, <2>1, <2>2, StrandKeep, Zenon
<1>3. ASSUME NEW s \in Stores, NEW k \in Keys, Put(s, k) PROVE StrandInv'
  <2>1. Only(s) /\ pc[s] = "idle" /\ lru' = lru /\ UNCHANGED <<disk, tmp, leaked>>
    BY <1>0, <1>3, Zenon DEF Put, Goto, Only, TypeInv, TypeOK, lruVars, dirVars
  <2>2. ~Holds(s)
    BY <2>1, Zenon DEF Holds
  <2> QED
    BY <1>0, <2>1, <2>2, StrandKeep, Zenon
<1>4. ASSUME NEW x \in Tasks, RemoveUnlink(x) \/ SpillAbort(x) PROVE StrandInv'
  <2>1. /\ Finish(x) /\ lru' = lru /\ disk' \subseteq disk /\ tmp' \subseteq tmp
        /\ leaked \subseteq leaked'
    BY <1>4, Zenon DEF RemoveUnlink, SpillAbort, lruVars
  <2>2. Only(x)
    BY <1>0, <2>1, Finishes, Zenon
  <2>3. Holds(x) => obj[x].path \notin disk' \/ obj[x].path \in leaked'
    BY <1>4, Zenon DEF RemoveUnlink, SpillAbort, Holds
  <2>4. pc[x] = "spill" => obj[x].path \notin tmp' \/ obj[x].path \in leaked'
    BY <1>4, Zenon DEF RemoveUnlink, SpillAbort
  <2> QED
    BY <2>1, <2>2, <2>3, <2>4, StrandKeep, Zenon
<1>5. ASSUME NEW s \in Stores, StoreStep(s) PROVE StrandInv'
  <2>1. CASE SpoolGiveUp(s) \/ SpillCreateFails(s)
    BY <1>0, <1>1, <2>1, Zenon DEF SpoolGiveUp, SpillCreateFails, lruVars, dirVars, Holds
  <2>2. CASE SpoolOnMemory(s) \/ IncrCount(s) \/ RemoveDecr(s)
    BY <1>0, <1>2, <2>2, Zenon DEF SpoolOnMemory, IncrCount, RemoveDecr, lruVars, dirVars, Holds
  <2>3. CASE NewObject(s)
    <3>1. /\ Only(s) /\ pc[s] = "new" /\ pc'[s] \in {"incr", "push"}
          /\ obj'[s].path = obj[s].path /\ lru' = lru /\ UNCHANGED <<disk, tmp, leaked>>
      BY <1>0, <2>3, Zenon DEF NewObject, Goto, Only, TypeInv, TypeOK, lruVars, dirVars, Obj
    <3>2. Holds(s) => Holds(s)'
      BY <3>1 DEF Holds, IsFile
    <3> QED
      BY <1>0, <3>1, <3>2, StrandKeep, Zenon
  <2>4. CASE PushFails(s)
    BY <1>0, <1>1, <1>2, <2>4, Zenon DEF PushFails, lruVars, dirVars, Holds
  <2>5. CASE SpillCreate(s) \/ SpillCommit(s)
    BY <1>0, <2>5, StrandSpill, Zenon
  <2>6. CASE Push(s)
    BY <2>6, StrandPush, Zenon
  <2> QED
    BY <1>0, <1>4, <1>5, <2>1, <2>2, <2>3, <2>4, <2>5, <2>6 DEF StoreStep, Remove
<1>6. ASSUME NEW g \in Gets, GetStep(g) \/ GetLookup(g) PROVE StrandInv'
  <2>1. CASE GetLookup(g)
    <3>1. Only(g) /\ pc[g] = "idle" /\ lru' = lru /\ UNCHANGED <<disk, tmp, leaked>>
      BY <1>0, <2>1, Zenon DEF GetLookup, Goto, Only, TypeInv, TypeOK, dirVars
    <3>2. ~Holds(g)
      BY <3>1 DEF Holds
    <3> QED
      BY <1>0, <3>1, <3>2, StrandKeep, Zenon
  <2>2. CASE GetDropped(g) \/ GetEvictSkips(g) \/ ReadEnds(g) \/ ReadMismatch(g)
    BY <1>0, <1>1, <2>2, Zenon DEF GetDropped, GetEvictSkips, ReadEnds, ReadMismatch, lruVars,
       dirVars, Holds
  <2>3. CASE GetStale(g) \/ GetOpen(g) \/ GetOpenFails(g) \/ RemoveDecr(g)
    BY <1>0, <1>2, <2>3 DEF GetStale, GetOpen, GetOpenFails, RemoveDecr, lruVars, dirVars, Holds
  <2>4. CASE GetFresh(g)
    BY <1>0, <2>4, StrandFresh, Zenon
  <2>5. CASE GetEvict(g)
    BY <2>5, StrandEvict
  <2> QED
    BY <1>0, <1>4, <1>6, <2>1, <2>2, <2>3, <2>4, <2>5, Zenon DEF GetStep, Remove
<1>7. ASSUME UNCHANGED <<lru, tmp, leaked, pc, obj>>, disk' \subseteq disk PROVE StrandInv'
  BY <1>7 DEF StrandInv, Holds
<1> QED
  BY <1>3, <1>5, <1>6, <1>7, Zenon DEF Next, ExternalRemove, Poison, vars, lruVars, dirVars

\* Nothing stays in the cache directory that no entry and no task knows of,
\* unless unlinking it failed.
THEOREM NoStrandCorrect == Spec => []NoStrandedFile
<1>1. Init => StrandInv
  BY Zenon DEF Init, StrandInv
<1>2. SafeInv /\ StrandInv => NoStrandedFile
  BY DEF SafeInv, TypeInv, FileLabels, StrandInv, NoStrandedFile, FilesOf, HeldAt, Holds
<1> QED
  BY <1>1, <1>2, StrandStep, SafeInit, SafeStep, PTL DEF Spec
=============================================================================
