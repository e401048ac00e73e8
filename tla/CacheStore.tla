------------------------------ MODULE CacheStore ------------------------------
(***************************************************************************)
(* The response cache of rpxy-lib (forwarder/cache/cache_main.rs): the LRU  *)
(* of cache objects behind a mutex (LruCacheManager), the files it refers  *)
(* to and their atomic count (FileStore), and the tasks that work on both  *)
(* without a common lock: `put` tasks that publish a stored response and   *)
(* `get` calls that serve, and sometimes evict, one.                       *)
(*                                                                         *)
(* A step of this module is one access to shared state: a critical section *)
(* of the LRU mutex, an atomic operation on a counter, or a file-system    *)
(* call.  How a put task turns the upstream body into a file is module     *)
(* Spool; here only its effect on the cache directory is kept.             *)
(***************************************************************************)
EXTENDS Naturals, FiniteSets

CONSTANTS
  Keys,       \* effective request URIs
  Stores,     \* put tasks; each stores one response
  Gets,       \* get calls; an identifier is reused when its call is over
  MaxEntry,   \* cache_max_entry, the capacity of the LRU
  OnMemory    \* the target of an object that has no file

ASSUME KeysAssumption == Keys # {}
ASSUME TasksAssumption == Stores \cap Gets = {}
ASSUME MaxEntryAssumption == MaxEntry \in Nat \ {0}
ASSUME OnMemoryAssumption == OnMemory \notin Nat

VARIABLES
  lru,        \* LruCacheManager.inner: the set of cached objects
  older,      \* its recency order: <<a, b>> when key a was used before key b
  lruCnt,     \* LruCacheManager.cnt
  poisoned,   \* a panic happened while the LRU mutex was held
  fileCnt,    \* FileStore.cnt
  fileSeq,    \* CACHE_FILE_SEQ: the next file name
  objGen,     \* CACHE_OBJECT_GEN: the next generation
  tmp,        \* names with a temporary file in cache_dir
  disk,       \* names with a final file in cache_dir
  pc,         \* what each task does next
  obj,        \* store: the object it builds; get: the snapshot it cloned
  lost,       \* history: files unlinked other than by a counted removal
  leaked      \* history: files whose unlink failed with an I/O error

dirVars == <<tmp, disk, lost, leaked>>
lruVars == <<lru, older, lruCnt, poisoned>>
vars == <<lru, older, lruCnt, poisoned, fileCnt, fileSeq, objGen,
          tmp, disk, pc, obj, lost, leaked>>

Tasks == Stores \cup Gets

Object == [key : Keys, gen : Nat, path : Nat \cup {OnMemory}]

Obj(k, g, p) == [key |-> k, gen |-> g, path |-> p]

Blank == Obj(CHOOSE k \in Keys : TRUE, 0, OnMemory)

IsFile(o) == o.path # OnMemory

\* The keys present in a set of objects.
KeysOf(objs) == {o.key : o \in objs}

(***************************************************************************)
(* The recency order.  Touch makes k the most recent of the keys ks.       *)
(***************************************************************************)
Forget(order, k) == {p \in order : p[1] # k /\ p[2] # k}

Touch(order, k, ks) == Forget(order, k) \cup ((ks \ {k}) \X {k})

LeastRecent(o) == \A q \in lru \ {o} : <<o.key, q.key>> \in older

-----------------------------------------------------------------------------
Init ==
  /\ lru = {} /\ older = {} /\ lruCnt = 0 /\ poisoned = FALSE
  /\ fileCnt = 0 /\ fileSeq = 0 /\ objGen = 0
  /\ tmp = {} /\ disk = {} /\ lost = {} /\ leaked = {}
  /\ pc = [t \in Tasks |-> "idle"]
  /\ obj = [t \in Tasks |-> Blank]

Goto(t, label) == pc' = [pc EXCEPT ![t] = label]

\* The task ends.  A put task is never restarted; a get identifier is reused.
Finish(t) ==
  /\ pc' = [pc EXCEPT ![t] = IF t \in Stores THEN "done" ELSE "idle"]
  /\ obj' = [obj EXCEPT ![t] = Blank]

(***************************************************************************)
(* put: spool_and_store as seen from the cache directory                   *)
(***************************************************************************)
Put(s, k) ==
  /\ pc[s] = "idle"
  /\ Goto(s, "spool")
  /\ obj' = [obj EXCEPT ![s] = Obj(k, 0, OnMemory)]
  /\ UNCHANGED <<lruVars, dirVars, fileCnt, fileSeq, objGen>>

\* Nothing stored: over-limit, upstream error, or the client went away.
SpoolGiveUp(s) ==
  /\ pc[s] = "spool"
  /\ Finish(s)
  /\ UNCHANGED <<lruVars, dirVars, fileCnt, fileSeq, objGen>>

SpoolOnMemory(s) ==
  /\ pc[s] = "spool"
  /\ Goto(s, "new")
  /\ UNCHANGED <<lruVars, dirVars, fileCnt, fileSeq, objGen, obj>>

\* Mutant: the file is named after the URI and the process alone.
SpillCreateReusesName(s) ==
  /\ pc[s] = "spool"
  /\ Goto(s, "spill")
  /\ obj' = [obj EXCEPT ![s] = Obj(obj[s].key, 0, fileSeq)]
  /\ tmp' = tmp \cup {fileSeq}
  /\ UNCHANGED <<lruVars, fileCnt, fileSeq, objGen, disk, lost, leaked>>

\* SpillFile::create takes a fresh name; create_new fails or makes the file.
SpillCreate(s) ==
  /\ pc[s] = "spool"
  /\ fileSeq' = fileSeq + 1
  /\ Goto(s, "spill")
  /\ obj' = [obj EXCEPT ![s] = Obj(obj[s].key, 0, fileSeq)]
  /\ tmp' = tmp \cup {fileSeq}
  /\ UNCHANGED <<lruVars, fileCnt, objGen, disk, lost, leaked>>

SpillCreateFails(s) ==
  /\ pc[s] = "spool"
  /\ fileSeq' = fileSeq + 1
  /\ Finish(s)
  /\ UNCHANGED <<lruVars, dirVars, fileCnt, objGen>>

\* Mutant: the temporary file is closed and not unlinked.
SpillAbortKeepsTemp(s) ==
  /\ pc[s] = "spill"
  /\ Finish(s)
  /\ UNCHANGED <<lruVars, dirVars, fileCnt, fileSeq, objGen>>

\* SpillFile::abort, and SpillFile::commit when the flush or rename fails:
\* remove_uncounted_file on the temporary file, which may itself fail.
SpillAbort(s) ==
  /\ pc[s] = "spill"
  /\ \/ tmp' = tmp \ {obj[s].path} /\ UNCHANGED leaked
     \/ leaked' = leaked \cup {obj[s].path} /\ UNCHANGED tmp
  /\ Finish(s)
  /\ UNCHANGED <<lruVars, fileCnt, fileSeq, objGen, disk, lost>>

SpillCommit(s) ==
  /\ pc[s] = "spill"
  /\ tmp' = tmp \ {obj[s].path}
  /\ disk' = disk \cup {obj[s].path}
  /\ Goto(s, "new")
  /\ UNCHANGED <<lruVars, fileCnt, fileSeq, objGen, obj, lost, leaked>>

(***************************************************************************)
(* put: CacheObject::new and publish_cache_object                          *)
(***************************************************************************)
NewObject(s) ==
  /\ pc[s] = "new"
  /\ obj' = [obj EXCEPT ![s] = Obj(obj[s].key, objGen, obj[s].path)]
  /\ objGen' = objGen + 1
  /\ Goto(s, IF IsFile(obj[s]) THEN "incr" ELSE "push")
  /\ UNCHANGED <<lruVars, dirVars, fileCnt, fileSeq>>

IncrCount(s) ==
  /\ pc[s] = "incr"
  /\ fileCnt' = fileCnt + 1
  /\ Goto(s, "push")
  /\ UNCHANGED <<lruVars, dirVars, fileSeq, objGen, obj>>

\* The mutex is poisoned: roll the counted file back, if there is one.
PushFails(s) ==
  /\ pc[s] = "push"
  /\ poisoned
  /\ IF IsFile(obj[s]) THEN Goto(s, "decr") /\ UNCHANGED obj ELSE Finish(s)
  /\ UNCHANGED <<lruVars, dirVars, fileCnt, fileSeq, objGen>>

\* Mutant: the capacity is off by one.
DisplacedLate(k) ==
  IF k \in KeysOf(lru) THEN {o \in lru : o.key = k}
  ELSE IF Cardinality(lru) > MaxEntry THEN {o \in lru : LeastRecent(o)}
  ELSE {}

\* The entries LruCache::push returns: the one under the same key, or the
\* least recently used one when a new key meets a full cache, or none.
Displaced(k) ==
  IF k \in KeysOf(lru) THEN {o \in lru : o.key = k}
  ELSE IF Cardinality(lru) >= MaxEntry THEN {o \in lru : LeastRecent(o)}
  ELSE {}

Push(s) ==
  /\ pc[s] = "push"
  /\ ~poisoned
  /\ LET old == Displaced(obj[s].key)
         kept == lru \ old
     IN /\ lru' = kept \cup {obj[s]}
        /\ lruCnt' = Cardinality(kept \cup {obj[s]})
        /\ older' = Touch({p \in older : {p[1], p[2]} \subseteq KeysOf(kept)},
                          obj[s].key, KeysOf(kept))
        /\ \/ \E o \in old : /\ IsFile(o)
                             /\ o.path # obj[s].path
                             /\ Goto(s, "decr")
                             /\ obj' = [obj EXCEPT ![s] = o]
           \/ /\ \A o \in old : ~IsFile(o) \/ o.path = obj[s].path
              /\ Finish(s)
  /\ UNCHANGED <<dirVars, poisoned, fileCnt, fileSeq, objGen>>

(***************************************************************************)
(* FileStore::remove, run by a put or a get task that holds obj[t].path    *)
(***************************************************************************)
RemoveDecr(t) ==
  /\ pc[t] = "decr"
  /\ fileCnt' = IF fileCnt = 0 THEN 0 ELSE fileCnt - 1
  /\ Goto(t, "unlink")
  /\ UNCHANGED <<lruVars, dirVars, fileSeq, objGen, obj>>

RemoveUnlink(t) ==
  /\ pc[t] = "unlink"
  /\ \/ disk' = disk \ {obj[t].path} /\ UNCHANGED leaked
     \/ leaked' = leaked \cup {obj[t].path} /\ UNCHANGED disk
  /\ Finish(t)
  /\ UNCHANGED <<lruVars, fileCnt, fileSeq, objGen, tmp, lost>>

(***************************************************************************)
(* get.  A miss, and a get on a poisoned mutex, return None and change     *)
(* nothing.                                                                *)
(***************************************************************************)
GetLookup(g) ==
  /\ pc[g] = "idle"
  /\ ~poisoned
  /\ \E o \in lru : /\ obj' = [obj EXCEPT ![g] = o]
                    /\ older' = Touch(older, o.key, KeysOf(lru))
  /\ Goto(g, "fresh")
  /\ UNCHANGED <<lru, lruCnt, poisoned, dirVars, fileCnt, fileSeq, objGen>>

\* before_request says Fresh: an on-memory object is served, a file opened.
GetFresh(g) ==
  /\ pc[g] = "fresh"
  /\ IF IsFile(obj[g]) THEN Goto(g, "open") /\ UNCHANGED obj ELSE Finish(g)
  /\ UNCHANGED <<lruVars, dirVars, fileCnt, fileSeq, objGen>>

GetStale(g) ==
  /\ pc[g] = "fresh"
  /\ Goto(g, "evict")
  /\ UNCHANGED <<lruVars, dirVars, fileCnt, fileSeq, objGen, obj>>

GetOpen(g) ==
  /\ pc[g] = "open"
  /\ obj[g].path \in disk
  /\ Goto(g, "read")
  /\ UNCHANGED <<lruVars, dirVars, fileCnt, fileSeq, objGen, obj>>

\* File::open fails, because the file is gone or for any other I/O error.
GetOpenFails(g) ==
  /\ pc[g] = "open"
  /\ Goto(g, "evict")
  /\ UNCHANGED <<lruVars, dirVars, fileCnt, fileSeq, objGen, obj>>

\* The request is abandoned while the file is being opened: hyper or the
\* connection timeout drops the get future at its await.
GetDropped(g) ==
  /\ pc[g] = "open"
  /\ Finish(g)
  /\ UNCHANGED <<lruVars, dirVars, fileCnt, fileSeq, objGen>>

\* Mutant: pop the key whatever its generation.
MatchingAnyGeneration(o) == {q \in lru : q.key = o.key}

\* evict_if_generation pops the entry of the snapshot's key if it still has
\* the snapshot's generation.
Matching(o) == {q \in lru : q.key = o.key /\ q.gen = o.gen}

GetEvict(g) ==
  /\ pc[g] = "evict"
  /\ ~poisoned
  /\ Matching(obj[g]) # {}
  /\ lru' = lru \ Matching(obj[g])
  /\ older' = Forget(older, obj[g].key)
  /\ lruCnt' = Cardinality(lru \ Matching(obj[g]))
  /\ IF IsFile(obj[g]) THEN Goto(g, "decr") /\ UNCHANGED obj ELSE Finish(g)
  /\ UNCHANGED <<dirVars, poisoned, fileCnt, fileSeq, objGen>>

GetEvictSkips(g) ==
  /\ pc[g] = "evict"
  /\ poisoned \/ Matching(obj[g]) = {}
  /\ Finish(g)
  /\ UNCHANGED <<lruVars, dirVars, fileCnt, fileSeq, objGen>>

\* The producer task of FileStore::read ends: the hash matched at EOF, or the
\* client dropped the body first and the hash is not compared.
ReadEnds(g) ==
  /\ pc[g] = "read"
  /\ Finish(g)
  /\ UNCHANGED <<lruVars, dirVars, fileCnt, fileSeq, objGen>>

\* Mutant: the corrupted file is removed as a counted file.
ReadMismatchCounted(g) ==
  /\ pc[g] = "read"
  /\ Goto(g, "decr")
  /\ UNCHANGED <<lruVars, dirVars, fileCnt, fileSeq, objGen, obj>>

\* The hash differs at EOF, or after a read error cut the body short: the file
\* is unlinked and not counted down; its entry stays in the LRU.
ReadMismatch(g) ==
  /\ pc[g] = "read"
  /\ \/ /\ disk' = disk \ {obj[g].path}
        /\ lost' = lost \cup {obj[g].path}
     \/ UNCHANGED <<disk, lost>>
  /\ Finish(g)
  /\ UNCHANGED <<lruVars, fileCnt, fileSeq, objGen, tmp, leaked>>

(***************************************************************************)
(* The environment                                                         *)
(***************************************************************************)
\* Someone else deletes a cache file.
ExternalRemove(p) ==
  /\ disk' = disk \ {p}
  /\ lost' = lost \cup {p}
  /\ UNCHANGED <<lruVars, fileCnt, fileSeq, objGen, tmp, leaked, pc, obj>>

\* A thread panics inside a critical section of the LRU mutex, in a build that
\* unwinds (the release profile aborts the process instead).
Poison ==
  /\ ~poisoned
  /\ poisoned' = TRUE
  /\ UNCHANGED <<lru, older, lruCnt, fileCnt, fileSeq, objGen, dirVars, pc, obj>>

-----------------------------------------------------------------------------
Remove(t) == RemoveDecr(t) \/ RemoveUnlink(t)

StoreStep(s) ==
  \/ SpoolGiveUp(s) \/ SpoolOnMemory(s) \/ SpillCreate(s) \/ SpillCreateFails(s)
  \/ SpillAbort(s) \/ SpillCommit(s)
  \/ NewObject(s) \/ IncrCount(s) \/ PushFails(s) \/ Push(s)
  \/ Remove(s)

GetStep(g) ==
  \/ GetFresh(g) \/ GetStale(g) \/ GetOpen(g) \/ GetOpenFails(g) \/ GetDropped(g)
  \/ GetEvict(g) \/ GetEvictSkips(g) \/ ReadEnds(g) \/ ReadMismatch(g)
  \/ Remove(g)

Next ==
  \/ \E s \in Stores : StoreStep(s) \/ \E k \in Keys : Put(s, k)
  \/ \E g \in Gets : GetStep(g) \/ GetLookup(g)
  \/ \E p \in disk : ExternalRemove(p)
  \/ Poison

Spec == Init /\ [][Next]_vars

-----------------------------------------------------------------------------
(***************************************************************************)
(* Properties                                                              *)
(***************************************************************************)
PCs == {"idle", "done", "spool", "spill", "new", "incr", "push", "decr",
        "unlink", "fresh", "open", "evict", "read"}

\* Every variable has its type.
TypeOK ==
  /\ lru \subseteq Object /\ IsFiniteSet(lru)
  /\ older \subseteq Keys \X Keys
  /\ lruCnt \in Nat /\ fileCnt \in Nat /\ fileSeq \in Nat /\ objGen \in Nat
  /\ poisoned \in BOOLEAN
  /\ tmp \subseteq Nat /\ disk \subseteq Nat /\ lost \subseteq Nat
  /\ leaked \subseteq Nat
  /\ pc \in [Tasks -> PCs]
  /\ obj \in [Tasks -> Object]

FilesOf(objs) == {o.path : o \in {q \in objs : IsFile(q)}}

\* The files held by the tasks that are at one of the given labels.
HeldAt(labels) == FilesOf({obj[t] : t \in {u \in Tasks : pc[u] \in labels}})

\* The files that have been counted up and not down again.
CountedFiles == FilesOf(lru) \cup HeldAt({"push", "decr"})

\* FileStore.cnt is the number of files counted before their metadata is
\* published, visible in the LRU, or waiting in FileStore::remove: no
\* interleaving of publications, evictions and integrity-check removals drops
\* or repeats a count, so with no task running it is the number of File entries.
FileCountExact == fileCnt = Cardinality(CountedFiles)

\* FileStore::remove never finds the count at zero: the saturation its comment
\* calls unreachable is unreachable, because a file is counted before the entry
\* an eviction could pop becomes visible.
RemoveNeverSaturates == \A t \in Tasks : pc[t] = "decr" => fileCnt > 0

\* A File entry in the LRU still has its file, unless something other than the
\* cache's own evictions deleted it: evicting from an old snapshot, replacing an
\* entry or rolling back a publication never unlinks the file of a live entry.
LiveEntryHasFile == FilesOf(lru) \subseteq disk \cup lost

\* A file in the cache directory belongs to an entry of the LRU or to a task
\* that has yet to publish or unlink it, unless its unlink failed: no
\* interleaving of put, get, rollback and displacement strands a file.
NoStrandedFile ==
  /\ disk \subseteq FilesOf(lru) \cup leaked
                   \cup HeldAt({"new", "incr", "push", "decr", "unlink"})
  /\ tmp \subseteq HeldAt({"spill"}) \cup leaked

\* The LRU holds one object per key and at most cache_max_entry of them, its
\* recency order ranks exactly its keys, and the advertised count is its length.
LruWellFormed ==
  /\ \A o, q \in lru : o.key = q.key => o = q
  /\ Cardinality(lru) <= MaxEntry
  /\ older \subseteq KeysOf(lru) \X KeysOf(lru)
  /\ \A a, b \in KeysOf(lru) :
       a # b => (<<a, b>> \in older <=> <<b, a>> \notin older)
  /\ lruCnt = Cardinality(lru)

\* A get that acts on a stale snapshot (evict_if_generation) removes the object
\* it saw and no other, however often the key was stored again meanwhile.
EvictsOnlyTheObjectSeen ==
  [][\A g \in Gets : GetEvict(g) => lru \ lru' = {obj[g]}]_vars
=============================================================================
