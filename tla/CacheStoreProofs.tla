--------------------------- MODULE CacheStoreProofs ---------------------------
(***************************************************************************)
(* Proofs about the response cache, for every set of keys, put tasks and   *)
(* get calls and every capacity: types, generations, the LRU and the       *)
(* owners of the files, which together are the inductive invariant         *)
(* SafeInv.                                                                *)
(***************************************************************************)
EXTENDS CacheStore, FiniteSetTheorems, WellFoundedInduction, TLAPS

-----------------------------------------------------------------------------
LEMMA BlankType == Blank \in Object /\ ~IsFile(Blank)
BY KeysAssumption, Zenon DEF Blank, Obj, Object, IsFile

\* A task that creates, counts, removes, opens or reads a file has one.
FileLabels ==
  \A t \in Tasks :
    pc[t] \in {"spill", "incr", "decr", "unlink", "open", "read"} => IsFile(obj[t])

TypeInv == TypeOK /\ FileLabels

\* Every step keeps the types and gives a file to the steps that need one.
LEMMA TypeStep == TypeInv /\ [Next]_vars => TypeInv'
<1> SUFFICES ASSUME TypeInv, [Next]_vars PROVE TypeInv'
  BY Zenon
<1> USE BlankType DEF TypeInv, FileLabels, TypeOK, lruVars, dirVars, Goto,
                      Finish, IsFile, Obj, Object, PCs
<1>1. ASSUME NEW s \in Stores, NEW k \in Keys, Put(s, k) PROVE TypeInv'
  BY <1>1, Zenon DEF Put, Tasks
<1>2. ASSUME NEW s \in Stores, StoreStep(s) PROVE TypeInv'
  <2> s \in Tasks
    BY DEF Tasks
  <2>a. IsFile(obj[s]) => obj[s].path \in Nat
    BY Zenon
  <2>1. CASE SpoolGiveUp(s)
    BY <2>1, Zenon DEF SpoolGiveUp
  <2>2. CASE SpoolOnMemory(s)
    BY <2>2, Zenon DEF SpoolOnMemory
  <2>3. CASE SpillCreateFails(s)
    BY <2>3 DEF SpillCreateFails
  <2>4. CASE SpillCreate(s)
    BY <2>4, OnMemoryAssumption DEF SpillCreate
  <2>5. CASE SpillAbort(s)
    <3>1. pc' \in [Tasks -> PCs] /\ obj' \in [Tasks -> Object] /\ FileLabels'
      BY <2>5 DEF SpillAbort
    <3>2. tmp' \subseteq Nat /\ leaked' \subseteq Nat
      BY <2>5, <2>a, Zenon DEF SpillAbort
    <3> QED
      BY <2>5, <3>1, <3>2, Zenon DEF SpillAbort
  <2>6. CASE SpillCommit(s)
    <3>1. obj[s].path \in Nat
      BY <2>6, <2>a, Zenon DEF SpillCommit
    <3> QED
      BY <2>6, <3>1, Zenon DEF SpillCommit
  <2>7. CASE NewObject(s)
    BY <2>7 DEF NewObject
  <2>8. CASE IncrCount(s)
    BY <2>8 DEF IncrCount
  <2>9. CASE PushFails(s)
    BY <2>9 DEF PushFails
  <2>10. CASE Push(s)
    <3> DEFINE old == Displaced(obj[s].key)
               kept == lru \ old
    <3>1. IsFiniteSet(kept \cup {obj[s]})
      <4>1. kept \in SUBSET lru /\ IsFiniteSet(lru)
        OBVIOUS
      <4>2. IsFiniteSet(kept)
        BY <4>1, FS_Subset, Zenon
      <4> HIDE DEF kept
      <4> QED
        BY <4>2, FS_AddElement
    <3>2. Cardinality(kept \cup {obj[s]}) \in Nat
      BY <3>1, FS_CardinalityType, Zenon
    <3>3. old \subseteq lru
      BY Zenon DEF Displaced
    <3>4. older' \subseteq Keys \X Keys
      BY <2>10 DEF Push, Touch, Forget, KeysOf
    <3>5. pc' \in [Tasks -> PCs] /\ obj' \in [Tasks -> Object] /\ FileLabels'
      BY <2>10, <3>3 DEF Push
    <3>6. lru' = kept \cup {obj[s]} /\ lruCnt' = Cardinality(kept \cup {obj[s]})
      BY <2>10, Zenon DEF Push
    <3>7. lru' \subseteq Object /\ IsFiniteSet(lru') /\ lruCnt' \in Nat
      BY <3>1, <3>2, <3>6
    <3>8. UNCHANGED <<dirVars, poisoned, fileCnt, fileSeq, objGen>>
      BY <2>10, Zenon DEF Push
    <3> QED
      BY <3>4, <3>5, <3>7, <3>8, Zenon
  <2>11. CASE Remove(s)
    <3>1. CASE RemoveDecr(s)
      BY <3>1 DEF RemoveDecr
    <3>2. CASE RemoveUnlink(s)
      <4>1. obj[s].path \in Nat
        BY <3>2, <2>a, Zenon DEF RemoveUnlink
      <4> QED
        BY <3>2, <4>1, Zenon DEF RemoveUnlink
    <3> QED
      BY <2>11, <3>1, <3>2, Zenon DEF Remove
  <2> QED
    BY <1>2, <2>1, <2>2, <2>3, <2>4, <2>5, <2>6, <2>7, <2>8, <2>9, <2>10,
       <2>11 DEF StoreStep
<1>3. ASSUME NEW g \in Gets, GetStep(g) \/ GetLookup(g) PROVE TypeInv'
  <2> g \in Tasks
    BY Zenon DEF Tasks
  <2>a. IsFile(obj[g]) => obj[g].path \in Nat
    OBVIOUS
  <2>1. CASE GetLookup(g)
    <3>1. older' \subseteq Keys \X Keys
      BY <2>1 DEF GetLookup, Touch, Forget, KeysOf
    <3> QED
      BY <2>1, <3>1, Zenon DEF GetLookup
  <2>2. CASE GetFresh(g)
    BY <2>2 DEF GetFresh
  <2>3. CASE GetStale(g)
    BY <2>3, Zenon DEF GetStale
  <2>4. CASE GetOpen(g)
    BY <2>4, Zenon DEF GetOpen
  <2>5. CASE GetOpenFails(g)
    BY <2>5, Zenon DEF GetOpenFails
  <2>6. CASE GetDropped(g)
    BY <2>6, Zenon DEF GetDropped
  <2>7. CASE GetEvict(g)
    <3>1. IsFiniteSet(lru \ Matching(obj[g]))
      BY FS_Subset
    <3>2. Cardinality(lru \ Matching(obj[g])) \in Nat
      BY <3>1, FS_CardinalityType, Zenon
    <3>3. older' \subseteq Keys \X Keys
      BY <2>7, Zenon DEF GetEvict, Forget
    <3> QED
      BY <2>7, <3>1, <3>2, <3>3 DEF GetEvict
  <2>8. CASE GetEvictSkips(g)
    BY <2>8, Zenon DEF GetEvictSkips
  <2>9. CASE ReadEnds(g)
    BY <2>9 DEF ReadEnds
  <2>10. CASE ReadMismatch(g)
    <3>1. obj[g].path \in Nat
      BY <2>10, <2>a, Zenon DEF ReadMismatch
    <3> QED
      BY <2>10, <3>1, Zenon DEF ReadMismatch
  <2>11. CASE RemoveDecr(g)
    BY <2>11 DEF RemoveDecr
  <2>12. CASE RemoveUnlink(g)
    <3>1. obj[g].path \in Nat
      BY <2>12, <2>a, Zenon DEF RemoveUnlink
    <3> QED
      BY <2>12, <3>1, Zenon DEF RemoveUnlink
  <2> QED
    BY <1>3, <2>1, <2>2, <2>3, <2>4, <2>5, <2>6, <2>7, <2>8, <2>9, <2>10,
       <2>11, <2>12 DEF GetStep, Remove
<1>4. ASSUME NEW p \in disk, ExternalRemove(p) PROVE TypeInv'
  BY <1>4 DEF ExternalRemove
<1>5. CASE Poison
  BY <1>5, Zenon DEF Poison
<1>6. CASE UNCHANGED vars
  BY <1>6 DEF vars
<1> QED
  BY <1>1, <1>2, <1>3, <1>4, <1>5, <1>6 DEF Next

LEMMA TypeInit == Init => TypeInv
<1> SUFFICES ASSUME Init PROVE TypeInv
  OBVIOUS
<1>1. lru \subseteq Object /\ IsFiniteSet(lru)
  BY FS_EmptySet DEF Init
<1>2. pc \in [Tasks -> PCs] /\ FileLabels
  BY DEF Init, PCs, FileLabels
<1>3. obj \in [Tasks -> Object]
  BY BlankType DEF Init
<1> QED
  BY <1>1, <1>2, <1>3, Zenon DEF Init, TypeInv, TypeOK

\* Every step of a put task, a get call or the environment keeps every variable
\* in its type (cache_main.rs).
THEOREM TypeCorrect == Spec => []TypeOK
<1>1. TypeInv => TypeOK
  BY DEF TypeInv
<1> QED
  BY <1>1, TypeInit, TypeStep, PTL DEF Spec

-----------------------------------------------------------------------------
(***************************************************************************)
(* What a step does to the tasks: all but one keep their state.            *)
(***************************************************************************)
Only(x) == \A t \in Tasks \ {x} : pc'[t] = pc[t] /\ obj'[t] = obj[t]

\* A task that ends holds nothing.
LEMMA Finishes ==
  ASSUME TypeInv, NEW x \in Tasks, Finish(x)
  PROVE  Only(x) /\ pc'[x] \in {"done", "idle"} /\ obj'[x] = Blank
BY Zenon DEF Finish, Only, TypeInv, TypeOK

\* A task that goes on keeps its object.
LEMMA Goes ==
  ASSUME TypeInv, NEW x \in Tasks, NEW label, Goto(x, label), obj' = obj
  PROVE  Only(x) /\ pc'[x] = label /\ obj'[x] = obj[x]
BY Zenon DEF Goto, Only, TypeInv, TypeOK

-----------------------------------------------------------------------------
(***************************************************************************)
(* Generations.  A generation names one object for ever, so the snapshot a *)
(* get holds and the LRU entry of its generation are the same object.      *)
(***************************************************************************)
Snapshot(t) == pc[t] \in {"fresh", "open", "evict", "read"}

Building(t) == pc[t] \in {"incr", "push"}

GenInv ==
  /\ \A o \in lru : o.gen < objGen
  /\ \A t \in Tasks : Snapshot(t) \/ Building(t) => obj[t].gen < objGen
  /\ \A o, q \in lru : o.gen = q.gen => o = q
  /\ \A t \in Tasks, o \in lru : Snapshot(t) /\ o.gen = obj[t].gen => o = obj[t]
  /\ \A t \in Tasks, o \in lru : Building(t) => o.gen # obj[t].gen
  /\ \A t, u \in Tasks : Snapshot(t) /\ Building(u) => obj[t].gen # obj[u].gen
  /\ \A t, u \in Tasks :
       t # u /\ Building(t) /\ Building(u) => obj[t].gen # obj[u].gen

\* A step that adds nothing to the LRU and gives no task a new object.
LEMMA GenFrame ==
  ASSUME GenInv, NEW x \in Tasks, lru' \subseteq lru, objGen' = objGen, Only(x),
         \/ pc'[x] \notin {"fresh", "open", "evict", "read", "incr", "push"}
         \/ /\ obj'[x] = obj[x]
            /\ Snapshot(x)' => Snapshot(x)
            /\ Building(x)' => Building(x)
  PROVE  GenInv'
<1> USE DEF GenInv, Snapshot, Building, Only
<1>1. \A t \in Tasks : Snapshot(t)' => obj'[t] = obj[t] /\ Snapshot(t)
  BY Zenon
<1>2. \A t \in Tasks : Building(t)' => obj'[t] = obj[t] /\ Building(t)
  BY Zenon
<1> HIDE DEF Snapshot, Building
<1> QED
  BY <1>1, <1>2

\* CacheObject::new hands out each generation once.
LEMMA GenNew ==
  ASSUME TypeInv, GenInv, NEW s \in Tasks, NewObject(s)
  PROVE  GenInv'
<1>1. /\ \A t \in Tasks \ {s} : pc'[t] = pc[t] /\ obj'[t] = obj[t]
      /\ Building(s)' /\ ~Snapshot(s)' /\ obj'[s].gen = objGen
  BY Zenon DEF NewObject, TypeInv, TypeOK, Goto, Obj, Building, Snapshot
<1>2. lru' = lru /\ objGen' = objGen + 1 /\ objGen \in Nat
  BY Zenon DEF NewObject, lruVars, TypeInv, TypeOK
<1>3. /\ \A o \in lru : o.gen \in Nat
      /\ \A t \in Tasks : obj[t].gen \in Nat
  BY Zenon DEF TypeInv, TypeOK, Object
<1>4. \A t \in Tasks \ {s} : (Snapshot(t)' <=> Snapshot(t)) /\ (Building(t)' <=> Building(t))
  BY <1>1, Zenon DEF Snapshot, Building
<1>5. \A o \in lru : o.gen < objGen /\ o.gen # objGen
  BY <1>2, <1>3 DEF GenInv
<1>6. \A t \in Tasks : Snapshot(t) \/ Building(t) => obj[t].gen < objGen /\ obj[t].gen # objGen
  BY <1>2, <1>3 DEF GenInv
<1>7. /\ \A o \in lru' : o.gen < objGen'
      /\ \A t \in Tasks : (Snapshot(t) \/ Building(t))' => obj'[t].gen < objGen'
  BY <1>1, <1>2, <1>3, <1>4, <1>5, <1>6
<1>8. /\ \A t \in Tasks, o \in lru' : Snapshot(t)' /\ o.gen = obj'[t].gen => o = obj'[t]
      /\ \A t \in Tasks, o \in lru' : Building(t)' => o.gen # obj'[t].gen
  BY <1>1, <1>2, <1>4, <1>5 DEF GenInv
<1>9. /\ \A t, u \in Tasks : Snapshot(t)' /\ Building(u)' => obj'[t].gen # obj'[u].gen
      /\ \A t, u \in Tasks :
           t # u /\ Building(t)' /\ Building(u)' => obj'[t].gen # obj'[u].gen
  <2>1. /\ \A t, u \in Tasks : Snapshot(t) /\ Building(u) => obj[t].gen # obj[u].gen
        /\ \A t, u \in Tasks :
             t # u /\ Building(t) /\ Building(u) => obj[t].gen # obj[u].gen
    BY Zenon DEF GenInv
  <2> QED
    BY <1>1, <1>4, <1>6, <2>1
<1> QED
  BY <1>2, <1>7, <1>8, <1>9, Zenon DEF GenInv

\* push moves the object of its task to the LRU.
LEMMA GenPush ==
  ASSUME TypeInv, GenInv, NEW s \in Tasks, Push(s)
  PROVE  GenInv'
<1>1. /\ \A t \in Tasks \ {s} : pc'[t] = pc[t] /\ obj'[t] = obj[t]
      /\ ~Building(s)' /\ ~Snapshot(s)' /\ Building(s)
  BY Zenon DEF Push, TypeInv, TypeOK, Goto, Finish, Building, Snapshot
<1>2. lru' \subseteq lru \cup {obj[s]} /\ objGen' = objGen
  BY Zenon DEF Push
<1>3. /\ \A t \in Tasks : Snapshot(t)' => t # s /\ Snapshot(t) /\ obj'[t] = obj[t]
      /\ \A t \in Tasks : Building(t)' => t # s /\ Building(t) /\ obj'[t] = obj[t]
  BY <1>1 DEF Snapshot, Building
<1>4. \A o \in lru' : o \in lru \/ o = obj[s]
  BY <1>2, Zenon
<1>5. /\ \A o \in lru' : o.gen < objGen'
      /\ \A t \in Tasks : (Snapshot(t) \/ Building(t))' => obj'[t].gen < objGen'
  BY <1>1, <1>2, <1>3, <1>4 DEF GenInv
<1>6. \A o, q \in lru' : o.gen = q.gen => o = q
  <2>1. \A o \in lru : o.gen # obj[s].gen
    BY <1>1, Zenon DEF GenInv
  <2>2. \A o, q \in lru : o.gen = q.gen => o = q
    BY Zenon DEF GenInv
  <2> QED
    BY <1>4, <2>1, <2>2, Zenon
<1>7. \A t \in Tasks, o \in lru' : Snapshot(t)' /\ o.gen = obj'[t].gen => o = obj'[t]
  BY <1>1, <1>3, <1>4 DEF GenInv
<1>8. \A t \in Tasks, o \in lru' : Building(t)' => o.gen # obj'[t].gen
  BY <1>1, <1>3, <1>4 DEF GenInv
<1>9. /\ \A t, u \in Tasks : Snapshot(t)' /\ Building(u)' => obj'[t].gen # obj'[u].gen
      /\ \A t, u \in Tasks :
           t # u /\ Building(t)' /\ Building(u)' => obj'[t].gen # obj'[u].gen
  BY <1>3, ZenonT(40) DEF GenInv
<1> QED
  BY <1>5, <1>6, <1>7, <1>8, <1>9, Zenon DEF GenInv

\* The snapshot of a lookup is the entry of its generation.
LEMMA GenLookup ==
  ASSUME TypeInv, GenInv, NEW g \in Tasks, GetLookup(g)
  PROVE  GenInv'
<1>1. /\ \A t \in Tasks \ {g} : pc'[t] = pc[t] /\ obj'[t] = obj[t]
      /\ ~Building(g)' /\ obj'[g] \in lru
  BY DEF GetLookup, TypeInv, TypeOK, Goto, Building
<1>2. lru' = lru /\ objGen' = objGen
  BY Zenon DEF GetLookup
<1>3. /\ \A t \in Tasks : Snapshot(t)' => t = g \/ (Snapshot(t) /\ obj'[t] = obj[t])
      /\ \A t \in Tasks : Building(t)' => Building(t) /\ obj'[t] = obj[t]
  BY <1>1, Zenon DEF Snapshot, Building
<1>4. \A t \in Tasks : (Snapshot(t) \/ Building(t))' => obj'[t].gen < objGen'
  BY <1>1, <1>2, <1>3, Zenon DEF GenInv
<1>5. \A t \in Tasks, o \in lru' : Snapshot(t)' /\ o.gen = obj'[t].gen => o = obj'[t]
  BY <1>1, <1>2, <1>3 DEF GenInv
<1>6. \A t, u \in Tasks : Snapshot(t)' /\ Building(u)' => obj'[t].gen # obj'[u].gen
  <2>1. \A u \in Tasks : Building(u) => obj'[g].gen # obj[u].gen
    BY <1>1, Zenon DEF GenInv
  <2>2. \A t, u \in Tasks : Snapshot(t) /\ Building(u) => obj[t].gen # obj[u].gen
    BY DEF GenInv
  <2> QED
    BY <1>3, <2>1, <2>2, Zenon
<1>7. /\ \A t \in Tasks, o \in lru' : Building(t)' => o.gen # obj'[t].gen
      /\ \A t, u \in Tasks :
           t # u /\ Building(t)' /\ Building(u)' => obj'[t].gen # obj'[u].gen
  <2>1. /\ \A t \in Tasks, o \in lru : Building(t) => o.gen # obj[t].gen
        /\ \A t, u \in Tasks :
             t # u /\ Building(t) /\ Building(u) => obj[t].gen # obj[u].gen
    BY Zenon DEF GenInv
  <2> QED
    BY <1>2, <1>3, <2>1
<1> QED
  BY <1>2, <1>4, <1>5, <1>6, <1>7, Zenon DEF GenInv

\* Only push puts a generation in the LRU, and only a lookup takes it out.
LEMMA GenStep == TypeInv /\ GenInv /\ [Next]_vars => GenInv'
<1> SUFFICES ASSUME TypeInv, GenInv, [Next]_vars PROVE GenInv'
  OBVIOUS
<1>0. Stores \subseteq Tasks /\ Gets \subseteq Tasks
  BY Zenon DEF Tasks
<1>1. ASSUME NEW x \in Tasks, Finish(x), lru' \subseteq lru, objGen' = objGen
      PROVE  GenInv'
  <2>1. Only(x) /\ pc'[x] \in {"done", "idle"}
    BY <1>1, Finishes, Zenon
  <2> QED
    BY <1>1, <2>1, GenFrame
<1>2. ASSUME NEW x \in Tasks, NEW label, Goto(x, label), obj' = obj,
             lru' \subseteq lru, objGen' = objGen,
             \/ label \in {"new", "decr", "unlink"}
             \/ label = "push" /\ pc[x] = "incr"
             \/ label \in {"open", "evict", "read"} /\ pc[x] \in {"fresh", "open"}
      PROVE  GenInv'
  <2>1. Only(x) /\ pc'[x] = label /\ obj'[x] = obj[x]
    BY <1>2, Goes, Zenon
  <2>2. (Snapshot(x)' => Snapshot(x)) /\ (Building(x)' => Building(x))
    BY <1>2, <2>1, Zenon DEF Snapshot, Building
  <2> QED
    BY <1>2, <2>1, <2>2, GenFrame, Zenon
<1>3. ASSUME NEW s \in Stores, NEW k \in Keys, Put(s, k) PROVE GenInv'
  <2>1. Only(s) /\ pc'[s] = "spool" /\ lru' = lru /\ objGen' = objGen
    BY <1>0, <1>3 DEF Put, Goto, Only, TypeInv, TypeOK, lruVars
  <2> QED
    BY <1>0, <2>1, GenFrame, Zenon
<1>4. ASSUME NEW s \in Stores, StoreStep(s) PROVE GenInv'
  <2>1. CASE SpoolGiveUp(s) \/ SpillCreateFails(s) \/ SpillAbort(s) \/ RemoveUnlink(s)
    BY <1>0, <1>1, <2>1, Zenon DEF SpoolGiveUp, SpillCreateFails, SpillAbort, RemoveUnlink, lruVars
  <2>2. CASE SpoolOnMemory(s) \/ SpillCommit(s) \/ IncrCount(s) \/ RemoveDecr(s)
    BY <1>0, <1>2, <2>2, Zenon DEF SpoolOnMemory, SpillCommit, IncrCount, RemoveDecr, lruVars
  <2>3. CASE SpillCreate(s)
    <3>1. Only(s) /\ pc'[s] = "spill" /\ lru' = lru /\ objGen' = objGen
      BY <1>0, <2>3, Zenon DEF SpillCreate, Goto, Only, TypeInv, TypeOK, lruVars
    <3> QED
      BY <1>0, <3>1, GenFrame, Zenon
  <2>4. CASE PushFails(s)
    BY <1>0, <1>1, <1>2, <2>4 DEF PushFails, lruVars
  <2>5. CASE NewObject(s) \/ Push(s)
    BY <1>0, <2>5, GenNew, GenPush
  <2> QED
    BY <1>4, <2>1, <2>2, <2>3, <2>4, <2>5, Zenon DEF StoreStep, Remove
<1>5. ASSUME NEW g \in Gets, GetStep(g) \/ GetLookup(g) PROVE GenInv'
  <2>1. CASE GetLookup(g)
    BY <1>0, <2>1, GenLookup, Zenon
  <2>2. CASE GetDropped(g) \/ GetEvictSkips(g) \/ ReadEnds(g) \/ ReadMismatch(g) \/ RemoveUnlink(g)
    BY <1>0, <1>1, <2>2, Zenon
    DEF GetDropped, GetEvictSkips, ReadEnds, ReadMismatch, RemoveUnlink, lruVars
  <2>3. CASE GetStale(g) \/ GetOpen(g) \/ GetOpenFails(g) \/ RemoveDecr(g)
    BY <1>0, <1>2, <2>3, Zenon DEF GetStale, GetOpen, GetOpenFails, RemoveDecr, lruVars
  <2>4. CASE GetFresh(g)
    BY <1>0, <1>1, <1>2, <2>4, Zenon DEF GetFresh, lruVars
  <2>5. CASE GetEvict(g)
    BY <1>0, <1>1, <1>2, <2>5, Zenon DEF GetEvict
  <2> QED
    BY <1>5, <2>1, <2>2, <2>3, <2>4, <2>5, Zenon DEF GetStep, Remove
<1>6. ASSUME UNCHANGED <<lru, objGen, pc, obj>> PROVE GenInv'
  BY <1>6, Zenon DEF GenInv, Snapshot, Building
<1> QED
  BY <1>3, <1>4, <1>5, <1>6 DEF Next, ExternalRemove, Poison, vars, lruVars

-----------------------------------------------------------------------------
(***************************************************************************)
(* The recency order is a strict total order on the keys of the LRU, so a  *)
(* full LRU has exactly one least recent entry to displace.                *)
(***************************************************************************)
IsOrder(r, K) ==
  /\ r \subseteq K \X K
  /\ \A a \in K : <<a, a>> \notin r
  /\ \A a, b \in K : a # b => (<<a, b>> \in r <=> <<b, a>> \notin r)
  /\ \A a, b, c \in K : <<a, b>> \in r /\ <<b, c>> \in r => <<a, c>> \in r

LEMMA ForgetIsOrder ==
  ASSUME NEW r, NEW K, NEW k, IsOrder(r, K)
  PROVE  IsOrder(Forget(r, k), K \ {k})
BY Zenon DEF IsOrder, Forget

LEMMA RestrictIsOrder ==
  ASSUME NEW r, NEW K, NEW J, J \subseteq K, IsOrder(r, K)
  PROVE  IsOrder({p \in r : {p[1], p[2]} \subseteq J}, J)
BY Zenon DEF IsOrder

LEMMA TouchIsOrder ==
  ASSUME NEW r, NEW K, NEW k, IsOrder(r, K)
  PROVE  IsOrder(Touch(r, k, K), K \cup {k})
<1> DEFINE F == Forget(r, k)
           T == Touch(r, k, K)
<1>1. IsOrder(F, K \ {k})
  BY ForgetIsOrder, Zenon
<1>2. \A a, b : <<a, b>> \in T <=> <<a, b>> \in F \/ (a \in K \ {k} /\ b = k)
  BY Zenon DEF Touch
<1>3. T \subseteq (K \cup {k}) \X (K \cup {k})
  BY <1>1 DEF Touch, IsOrder
<1> HIDE DEF T, F
<1> QED
  BY <1>1, <1>2, <1>3 DEF IsOrder, T

LEMMA LeastRecentExists ==
  ASSUME NEW r, NEW K, IsOrder(r, K), IsFiniteSet(K), K # {}
  PROVE  \E a \in K : \A b \in K \ {a} : <<a, b>> \in r
<1> DEFINE Before(a) == {b \in K : <<b, a>> \in r}
           T == {Before(a) : a \in K}
<1>1. T \subseteq FiniteSubsetsOf(K) /\ T # {}
  <2>1. \A a \in K : Before(a) \in SUBSET K
    OBVIOUS
  <2>2. \A a \in K : IsFiniteSet(Before(a))
    BY FS_Subset, Zenon
  <2> QED
    BY <2>1, <2>2, ZenonT(40) DEF FiniteSubsetsOf
<1>2. IsWellFoundedOn(StrictSubsetOrdering(K), FiniteSubsetsOf(K))
  BY FS_StrictSubsetOrderingWellFounded
<1>3. \E x \in T : \A y \in T : <<y, x>> \notin StrictSubsetOrdering(K)
  <2> HIDE DEF T
  <2> QED
    BY <1>1, <1>2, WFMin, Zenon
<1>4. PICK a \in K : \A c \in K : <<Before(c), Before(a)>> \notin StrictSubsetOrdering(K)
  BY <1>3, Zenon
<1>5. ASSUME NEW b \in K \ {a}, <<a, b>> \notin r PROVE FALSE
  <2>1. <<b, a>> \in r
    BY <1>5, Zenon DEF IsOrder
  <2>2. Before(b) \subseteq Before(a)
    BY <2>1, Zenon DEF IsOrder
  <2>3. b \in Before(a) /\ b \notin Before(b)
    BY <2>1 DEF IsOrder
  <2>4. <<Before(b), Before(a)>> \in StrictSubsetOrdering(K)
    BY <2>2, <2>3, Zenon DEF StrictSubsetOrdering
  <2> QED
    BY <1>4, <2>4, Zenon
<1> QED
  BY <1>5

LruInv ==
  /\ \A o, q \in lru : o.key = q.key => o = q
  /\ Cardinality(lru) <= MaxEntry
  /\ IsOrder(older, KeysOf(lru))
  /\ lruCnt = Cardinality(lru)

LEMMA KeysOfFinite ==
  ASSUME NEW S, IsFiniteSet(S) PROVE IsFiniteSet(KeysOf(S))
<1> DEFINE f == [o \in S |-> o.key]
<1>1. f \in Surjection(S, KeysOf(S))
  BY Zenon DEF Surjection, KeysOf
<1> QED
  BY <1>1, FS_Surjection, Zenon

\* LruCache::push displaces at most one entry, never leaves an entry under the
\* pushed key, and makes room when the LRU is full.
LEMMA DisplacedIsOne ==
  ASSUME TypeInv, LruInv, NEW k \in Keys
  PROVE  /\ Displaced(k) \subseteq lru
         /\ \A o, q \in Displaced(k) : o = q
         /\ k \notin KeysOf(lru \ Displaced(k))
         /\ IsFiniteSet(lru \ Displaced(k))
         /\ Cardinality(lru \ Displaced(k)) < MaxEntry
<1> DEFINE old == Displaced(k)
           kept == lru \ old
<1> USE MaxEntryAssumption DEF LruInv
<1>1. IsFiniteSet(lru) /\ Cardinality(lru) \in Nat
  BY FS_CardinalityType, Zenon DEF TypeInv, TypeOK
<1>2. old \subseteq lru
  BY Zenon DEF Displaced
<1>3. ASSUME NEW o \in old
      PROVE  Cardinality(kept) < MaxEntry /\ IsFiniteSet(kept)
  <2>1. IsFiniteSet(lru \ {o}) /\ Cardinality(lru \ {o}) = Cardinality(lru) - 1
    BY <1>1, <1>2, FS_RemoveElement, Zenon
  <2>2. kept \in SUBSET (lru \ {o})
    BY Zenon
  <2>3. IsFiniteSet(kept) /\ Cardinality(kept) <= Cardinality(lru \ {o})
    BY <2>1, <2>2, FS_Subset, Zenon
  <2>4. Cardinality(kept) \in Nat
    BY <2>3, FS_CardinalityType, Zenon
  <2> QED
    BY <1>1, <2>1, <2>3, <2>4
<1>4. CASE k \in KeysOf(lru)
  <2>1. old = {o \in lru : o.key = k}
    BY <1>4, Zenon DEF Displaced
  <2>2. PICK o \in old : TRUE
    BY <1>4, <2>1, Zenon DEF KeysOf
  <2>3. k \notin KeysOf(kept) /\ \A p, q \in old : p = q
    BY <2>1 DEF KeysOf
  <2> QED
    BY <1>2, <1>3, <2>2, <2>3, Zenon
<1>5. CASE k \notin KeysOf(lru) /\ Cardinality(lru) >= MaxEntry
  <2>1. old = {o \in lru : LeastRecent(o)}
    BY <1>5, Zenon DEF Displaced
  <2>2. KeysOf(lru) # {}
    BY <1>1, <1>5, FS_EmptySet DEF KeysOf
  <2>3. PICK a \in KeysOf(lru) : \A b \in KeysOf(lru) \ {a} : <<a, b>> \in older
    BY <1>1, <2>2, KeysOfFinite, LeastRecentExists, Zenon
  <2>4. PICK o \in lru : o.key = a
    BY Zenon DEF KeysOf
  <2>5. o \in old
    BY <2>1, <2>3, <2>4, Zenon DEF LeastRecent, KeysOf
  <2>6. \A p, q \in old : p = q
    <3> SUFFICES ASSUME NEW p \in old, NEW q \in old, p # q PROVE FALSE
      BY Zenon
    <3>1. p.key # q.key /\ p.key \in KeysOf(lru) /\ q.key \in KeysOf(lru)
      BY <2>1, Zenon DEF KeysOf
    <3>2. <<p.key, q.key>> \in older /\ <<q.key, p.key>> \in older
      BY <2>1, Zenon DEF LeastRecent
    <3> QED
      BY <3>1, <3>2, Zenon DEF IsOrder
  <2> QED
    BY <1>2, <1>3, <1>5, <2>5, <2>6, Zenon DEF KeysOf
<1>6. CASE k \notin KeysOf(lru) /\ ~(Cardinality(lru) >= MaxEntry)
  <2>1. old = {} /\ kept = lru
    BY <1>6, Zenon DEF Displaced
  <2> QED
    BY <1>1, <1>6, <2>1
<1> QED
  BY <1>4, <1>5, <1>6, Zenon

\* Only push, a lookup and a conditional eviction touch the LRU.
LEMMA LruFrame ==
  [Next]_vars => \/ UNCHANGED <<lru, older, lruCnt>>
                 \/ \E s \in Stores : Push(s)
                 \/ \E g \in Gets : GetLookup(g) \/ GetEvict(g)
<1> USE DEF lruVars
<1>1. ASSUME NEW s \in Stores, StoreStep(s), ~Push(s)
      PROVE  UNCHANGED <<lru, older, lruCnt>>
  BY <1>1 DEF StoreStep, SpoolGiveUp, SpoolOnMemory, SpillCreate,
     SpillCreateFails, SpillAbort, SpillCommit, NewObject, IncrCount, PushFails,
     Remove, RemoveDecr, RemoveUnlink
<1>2. ASSUME NEW g \in Gets, GetStep(g), ~GetEvict(g)
      PROVE  UNCHANGED <<lru, older, lruCnt>>
  BY <1>2, Zenon DEF GetStep, GetFresh, GetStale, GetOpen, GetOpenFails, GetDropped,
     GetEvictSkips, ReadEnds, ReadMismatch, Remove, RemoveDecr, RemoveUnlink
<1> QED
  BY <1>1, <1>2, Zenon DEF Next, Put, ExternalRemove, Poison, vars

LEMMA LruStep == TypeInv /\ LruInv /\ [Next]_vars => LruInv'
<1> SUFFICES ASSUME TypeInv, LruInv, [Next]_vars PROVE LruInv'
  OBVIOUS
<1>1. CASE UNCHANGED <<lru, older, lruCnt>>
  BY <1>1 DEF LruInv, KeysOf
<1>2. ASSUME NEW s \in Stores, Push(s) PROVE LruInv'
  <2> DEFINE k == obj[s].key
             kept == lru \ Displaced(k)
             rest == {p \in older : {p[1], p[2]} \subseteq KeysOf(kept)}
  <2>1. k \in Keys
    BY DEF TypeInv, TypeOK, Object, Tasks
  <2>2. /\ k \notin KeysOf(kept)
        /\ IsFiniteSet(kept)
        /\ Cardinality(kept) < MaxEntry
    BY <2>1, DisplacedIsOne, Zenon
  <2>3. /\ lru' = kept \cup {obj[s]}
        /\ lruCnt' = Cardinality(lru')
        /\ older' = Touch(rest, k, KeysOf(kept))
    BY <1>2 DEF Push
  <2> HIDE DEF kept
  <2>4. Cardinality(lru') <= MaxEntry
    <3>1. Cardinality(kept) \in Nat
      BY <2>2, FS_CardinalityType
    <3>2. Cardinality(kept \cup {obj[s]}) \in {Cardinality(kept), Cardinality(kept) + 1}
      BY <2>2, FS_AddElement, Zenon
    <3> QED
      BY <2>2, <2>3, <3>1, <3>2, MaxEntryAssumption
  <2>5. \A o, q \in lru' : o.key = q.key => o = q
    <3>1. \A o \in kept : o.key # k
      BY <2>2, Zenon DEF KeysOf
    <3>2. \A o, q \in kept : o.key = q.key => o = q
      BY Zenon DEF LruInv, kept
    <3> QED
      BY <2>3, <3>1, <3>2, Zenon
  <2>6. IsOrder(rest, KeysOf(kept))
    <3>1. KeysOf(kept) \subseteq KeysOf(lru)
      BY DEF KeysOf, kept
    <3> QED
      BY <3>1, RestrictIsOrder, Zenon DEF LruInv
  <2>7. KeysOf(lru') = KeysOf(kept) \cup {k}
    BY <2>3 DEF KeysOf
  <2>8. IsOrder(older', KeysOf(lru'))
    <3> HIDE DEF k, rest
    <3>1. IsOrder(Touch(rest, k, KeysOf(kept)), KeysOf(kept) \cup {k})
      BY <2>6, TouchIsOrder, Zenon
    <3> QED
      BY <2>3, <2>7, <3>1, Zenon
  <2> QED
    BY <2>3, <2>4, <2>5, <2>8, Zenon DEF LruInv, IsOrder, KeysOf
<1>3. ASSUME NEW g \in Gets, GetLookup(g) PROVE LruInv'
  <2>1. PICK o \in lru : older' = Touch(older, o.key, KeysOf(lru))
    BY <1>3, Zenon DEF GetLookup
  <2>2. KeysOf(lru) \cup {o.key} = KeysOf(lru)
    BY Zenon DEF KeysOf
  <2>3. IsOrder(older', KeysOf(lru))
    BY <2>1, <2>2, TouchIsOrder DEF LruInv
  <2>4. lru' = lru /\ lruCnt' = lruCnt
    BY <1>3, Zenon DEF GetLookup
  <2>5. IsOrder(older', KeysOf(lru'))
    BY <2>3, <2>4, Zenon
  <2> QED
    BY <2>4, <2>5, Zenon DEF LruInv, IsOrder, KeysOf
<1>4. ASSUME NEW g \in Gets, GetEvict(g) PROVE LruInv'
  <2> DEFINE gone == Matching(obj[g])
  <2>1. /\ lru' = lru \ gone /\ gone # {}
        /\ older' = Forget(older, obj[g].key)
        /\ lruCnt' = Cardinality(lru')
    BY <1>4, Zenon DEF GetEvict
  <2>2. KeysOf(lru') = KeysOf(lru) \ {obj[g].key}
    BY <2>1, Zenon DEF Matching, KeysOf, LruInv
  <2>3. IsOrder(older', KeysOf(lru'))
    <3>1. IsOrder(older, KeysOf(lru))
      BY Zenon DEF LruInv
    <3>2. IsOrder(Forget(older, obj[g].key), KeysOf(lru) \ {obj[g].key})
      BY <3>1, ForgetIsOrder, Zenon
    <3> QED
      BY <2>1, <2>2, <3>2, Zenon
  <2>4. IsFiniteSet(lru) /\ lru' \in SUBSET lru
    BY <2>1, Zenon DEF TypeInv, TypeOK
  <2>5. Cardinality(lru') <= MaxEntry
    BY <2>4, FS_Subset, FS_CardinalityType, MaxEntryAssumption DEF LruInv
  <2> QED
    BY <2>1, <2>3, <2>5, Zenon DEF LruInv, IsOrder, KeysOf
<1> QED
  BY <1>1, <1>2, <1>3, <1>4, LruFrame, Zenon

-----------------------------------------------------------------------------
(***************************************************************************)
(* Ownership.  A file belongs to one task that writes, publishes or        *)
(* removes it, or to one LRU entry.                                        *)
(***************************************************************************)
Owns(t) ==
  pc[t] \in {"spill", "new", "incr", "push", "decr", "unlink"} /\ IsFile(obj[t])

OwnInv ==
  /\ \A t \in Tasks : pc[t] = "spool" => ~IsFile(obj[t])
  /\ \A t \in Tasks : Owns(t) => obj[t].path < fileSeq
  /\ \A o \in lru : IsFile(o) => o.path < fileSeq
  /\ \A t, u \in Tasks : t # u /\ Owns(t) /\ Owns(u) => obj[t].path # obj[u].path
  /\ \A t \in Tasks, o \in lru : Owns(t) /\ IsFile(o) => o.path # obj[t].path
  /\ \A o, q \in lru : IsFile(o) /\ o.path = q.path => o = q

SafeInv == TypeInv /\ GenInv /\ LruInv /\ OwnInv

\* evict_if_generation pops the very object of the snapshot.
LEMMA EvictExact ==
  ASSUME TypeInv, GenInv, NEW g \in Gets, GetEvict(g)
  PROVE  Matching(obj[g]) = {obj[g]} /\ obj[g] \in lru
<1>1. g \in Tasks /\ Snapshot(g) /\ Matching(obj[g]) # {}
  BY Zenon DEF GetEvict, Snapshot, Tasks
<1>2. \A q \in lru : q.gen = obj[g].gen => q = obj[g]
  BY <1>1, Zenon DEF GenInv
<1> QED
  BY <1>1, <1>2, Zenon DEF Matching

\* What push and the eviction of the displaced entry do: the pusher takes over
\* the displaced file, or only on-memory objects are displaced.
LEMMA PushEffect ==
  ASSUME SafeInv, NEW s \in Stores, Push(s)
  PROVE  /\ \/ \E o \in lru : /\ IsFile(o)
                             /\ lru' = (lru \ {o}) \cup {obj[s]}
                             /\ pc'[s] = "decr" /\ obj'[s] = o
            \/ \E M \in SUBSET lru : /\ \A o \in M : ~IsFile(o)
                                    /\ lru' = (lru \ M) \cup {obj[s]}
                                    /\ pc'[s] \in {"done", "idle"}
                                    /\ obj'[s] = Blank
         /\ \A t \in Tasks \ {s} : pc'[t] = pc[t] /\ obj'[t] = obj[t]
         /\ pc[s] = "push"
         /\ UNCHANGED <<dirVars, fileCnt, fileSeq, objGen>>
<1> DEFINE old == Displaced(obj[s].key)
<1>1. s \in Tasks /\ obj[s].key \in Keys
  BY DEF SafeInv, TypeInv, TypeOK, Object, Tasks
<1>2. old \subseteq lru /\ \A o, q \in old : o = q
  BY <1>1, DisplacedIsOne, Zenon DEF SafeInv
<1>3. lru' = (lru \ old) \cup {obj[s]}
  BY Zenon DEF Push
<1>4. pc \in [Tasks -> PCs] /\ obj \in [Tasks -> Object]
  BY Zenon DEF SafeInv, TypeInv, TypeOK
<1>5. /\ \A t \in Tasks \ {s} : pc'[t] = pc[t] /\ obj'[t] = obj[t]
      /\ pc[s] = "push"
      /\ UNCHANGED <<dirVars, fileCnt, fileSeq, objGen>>
  BY <1>4 DEF Push, Goto, Finish
<1>6. ASSUME NEW o \in old, IsFile(o) PROVE o.path # obj[s].path
  BY <1>1, <1>2, <1>5, <1>6, Zenon DEF SafeInv, OwnInv, Owns, IsFile
<1>7. \/ \E o \in old : IsFile(o) /\ pc'[s] = "decr" /\ obj'[s] = o
      \/ /\ \A o \in old : ~IsFile(o)
         /\ pc'[s] \in {"done", "idle"} /\ obj'[s] = Blank
  BY <1>1, <1>4, <1>6, Zenon DEF Push, Goto, Finish
<1>8. ASSUME NEW o \in old PROVE old = {o}
  BY <1>2
<1> HIDE DEF old
<1> QED
  BY <1>2, <1>3, <1>5, <1>7, <1>8, Zenon

\* A task that ends, or only reads, may hand its own file to the LRU.
LEMMA OwnFrame ==
  ASSUME OwnInv, NEW x \in Tasks, fileSeq' = fileSeq,
         \/ lru' \subseteq lru
         \/ pc[x] = "push" /\ lru' \subseteq lru \cup {obj[x]},
         \A t \in Tasks \ {x} : pc'[t] = pc[t] /\ obj'[t] = obj[t],
         pc'[x] \in {"done", "idle", "fresh", "open", "evict", "read"}
  PROVE  OwnInv'
<1>1. \A t \in Tasks : Owns(t)' => t # x /\ Owns(t) /\ obj'[t] = obj[t]
  BY Zenon DEF Owns, IsFile
<1>2. \A t \in Tasks : pc'[t] = "spool" => pc[t] = "spool" /\ obj'[t] = obj[t]
  BY Zenon
<1>3. \A o \in lru' \ lru : IsFile(o) => Owns(x) /\ o = obj[x]
  BY Zenon DEF Owns
<1> USE DEF OwnInv
<1> HIDE DEF Owns
<1>4. \A o \in lru' : IsFile(o) => o.path < fileSeq'
  BY <1>3, Zenon
<1>5. \A t \in Tasks, o \in lru' : Owns(t)' /\ IsFile(o) => o.path # obj'[t].path
  BY <1>1, <1>3
<1>6. \A o, q \in lru' : IsFile(o) /\ o.path = q.path => o = q
  BY <1>3 DEF IsFile
<1>7. \A t \in Tasks : pc'[t] = "spool" => ~IsFile(obj'[t])
  BY <1>2, Zenon
<1>8. \A t \in Tasks : Owns(t)' => obj'[t].path < fileSeq'
  BY <1>1, Zenon
<1>9. \A t, u \in Tasks : t # u /\ Owns(t)' /\ Owns(u)' => obj'[t].path # obj'[u].path
  BY <1>1, ZenonT(40)
<1> QED
  BY <1>4, <1>5, <1>6, <1>7, <1>8, <1>9, Zenon DEF IsFile

\* The pusher hands its object to the LRU and takes over the displaced file.
LEMMA OwnSwap ==
  ASSUME OwnInv, NEW x \in Tasks, NEW o \in lru, IsFile(o), fileSeq' = fileSeq,
         pc[x] = "push", lru' = (lru \ {o}) \cup {obj[x]},
         \A t \in Tasks \ {x} : pc'[t] = pc[t] /\ obj'[t] = obj[t],
         pc'[x] = "decr", obj'[x] = o
  PROVE  OwnInv'
<1>1. \A t \in Tasks \ {x} : Owns(t)' => Owns(t) /\ obj'[t] = obj[t]
  BY Zenon DEF Owns, IsFile
<1>2. \A t \in Tasks : pc'[t] = "spool" => pc[t] = "spool" /\ obj'[t] = obj[t]
  BY Zenon
<1>3. IsFile(obj[x]) => Owns(x)
  BY Zenon DEF Owns
<1> USE DEF OwnInv
<1> HIDE DEF Owns
<1>4. \A q \in lru' : IsFile(q) => q.path < fileSeq'
  BY <1>3, Zenon
<1>5. \A q \in lru' : IsFile(q) => q.path # o.path
  BY <1>3, ZenonT(40)
<1>6. \A t \in Tasks \ {x}, q \in lru' : Owns(t)' /\ IsFile(q) => q.path # obj'[t].path
  BY <1>1, <1>3, SMTT(20)
<1>7. \A p, q \in lru' : IsFile(p) /\ p.path = q.path => p = q
  BY <1>3, SMTT(20) DEF IsFile
<1> QED
  BY <1>1, <1>2, <1>4, <1>5, <1>6, <1>7, SMTT(20) DEF IsFile

LEMMA OwnPush ==
  ASSUME SafeInv, NEW s \in Stores, Push(s)
  PROVE  OwnInv'
<1>1. /\ OwnInv /\ s \in Tasks /\ pc[s] = "push" /\ fileSeq' = fileSeq
      /\ \A t \in Tasks \ {s} : pc'[t] = pc[t] /\ obj'[t] = obj[t]
  BY PushEffect, Zenon DEF SafeInv, Tasks
<1>2. ASSUME NEW o \in lru, IsFile(o), lru' = (lru \ {o}) \cup {obj[s]},
             pc'[s] = "decr", obj'[s] = o
      PROVE  OwnInv'
  BY <1>1, <1>2, OwnSwap, Zenon
<1>3. ASSUME NEW M \in SUBSET lru, lru' = (lru \ M) \cup {obj[s]},
             pc'[s] \in {"done", "idle"}
      PROVE  OwnInv'
  BY <1>1, <1>3, OwnFrame, Zenon
<1> QED
  BY <1>2, <1>3, PushEffect, Zenon

LEMMA OwnFresh ==
  ASSUME SafeInv, NEW g \in Gets, GetFresh(g)
  PROVE  OwnInv'
<1>1. g \in Tasks /\ pc \in [Tasks -> PCs] /\ obj \in [Tasks -> Object]
  BY Zenon DEF SafeInv, TypeInv, TypeOK, Tasks
<1>2. pc'[g] \in {"open", "done", "idle"}
  BY <1>1, Zenon DEF GetFresh, Goto, Finish
<1>3. /\ \A t \in Tasks \ {g} : pc'[t] = pc[t] /\ obj'[t] = obj[t]
      /\ lru' = lru /\ fileSeq' = fileSeq
  BY <1>1, Zenon DEF GetFresh, Goto, Finish, lruVars, dirVars
<1> QED
  BY <1>1, <1>2, <1>3, OwnFrame, Zenon DEF SafeInv

\* The evicted entry's file passes to the get that evicts it.
LEMMA OwnEvict ==
  ASSUME SafeInv, NEW g \in Gets, GetEvict(g)
  PROVE  OwnInv'
<1>1. g \in Tasks /\ pc \in [Tasks -> PCs] /\ obj \in [Tasks -> Object]
  BY DEF SafeInv, TypeInv, TypeOK, Tasks
<1>2. lru' = lru \ {obj[g]} /\ obj[g] \in lru
  BY EvictExact, Zenon DEF GetEvict, SafeInv
<1>3. \/ pc'[g] = "decr" /\ obj'[g] = obj[g]
      \/ pc'[g] \in {"done", "idle"}
  BY <1>1, Zenon DEF GetEvict, Goto, Finish
<1>4. /\ \A t \in Tasks \ {g} : pc'[t] = pc[t] /\ obj'[t] = obj[t]
      /\ fileSeq' = fileSeq
  BY <1>1, Zenon DEF GetEvict, Goto, Finish
<1>5. CASE pc'[g] = "decr" /\ obj'[g] = obj[g]
  <2>1. \A t \in Tasks \ {g} : Owns(t)' => Owns(t) /\ obj'[t] = obj[t]
    BY <1>4, Zenon DEF Owns, IsFile
  <2>2. \A t \in Tasks : pc'[t] = "spool" => pc[t] = "spool" /\ obj'[t] = obj[t]
    BY <1>4, <1>5, Zenon
  <2>3. Owns(g)' => obj'[g] \in lru \ lru' /\ IsFile(obj'[g])
    BY <1>2, <1>5, Zenon DEF Owns, IsFile
  <2> QED
    BY <1>1, <1>2, <1>4, <2>1, <2>2, <2>3 DEF SafeInv, OwnInv, IsFile
<1>6. CASE pc'[g] \in {"done", "idle"}
  BY <1>1, <1>2, <1>4, <1>6, OwnFrame DEF SafeInv
<1> QED
  BY <1>3, <1>5, <1>6, Zenon

\* A task that goes on owns what it owned before.
LEMMA OwnKeep ==
  ASSUME OwnInv, NEW x \in Tasks, fileSeq' = fileSeq, lru' = lru, Only(x),
         Owns(x)' => Owns(x) /\ obj'[x].path = obj[x].path,
         pc'[x] = "spool" => ~IsFile(obj'[x])
  PROVE  OwnInv'
<1>1. \A t \in Tasks : Owns(t)' => Owns(t) /\ obj'[t].path = obj[t].path
  BY Zenon DEF Owns, Only
<1>2. \A t \in Tasks : pc'[t] = "spool" => ~IsFile(obj'[t])
  BY Zenon DEF OwnInv, Only
<1> QED
  BY <1>1, <1>2, Zenon DEF OwnInv

\* A new file has a name that nobody owns, whether or not it can be created.
LEMMA OwnCreate ==
  ASSUME SafeInv, NEW s \in Tasks, SpillCreate(s) \/ SpillCreateFails(s)
  PROVE  OwnInv'
<1>1. /\ Only(s) /\ pc'[s] # "spool" /\ lru' = lru /\ fileSeq' = fileSeq + 1
      /\ Owns(s)' => obj'[s].path = fileSeq
  <2>1. CASE SpillCreate(s)
    BY <2>1, Zenon DEF SpillCreate, SafeInv, TypeInv, TypeOK, Goto, Only, Obj, lruVars
  <2>2. CASE SpillCreateFails(s)
    <3>1. Only(s) /\ pc'[s] \in {"done", "idle"}
      BY <2>2, Finishes, Zenon DEF SpillCreateFails, SafeInv
    <3> QED
      BY <2>2, <3>1, Zenon DEF SpillCreateFails, lruVars, Owns
  <2> QED
    BY <2>1, <2>2, Zenon
<1>2. /\ fileSeq \in Nat
      /\ \A o \in lru : IsFile(o) => o.path \in Nat
      /\ \A t \in Tasks : IsFile(obj[t]) => obj[t].path \in Nat
  BY Zenon DEF SafeInv, TypeInv, TypeOK, Object, IsFile
<1>3. \A t \in Tasks \ {s} : Owns(t)' => Owns(t) /\ obj'[t] = obj[t]
  BY <1>1, Zenon DEF Owns, Only
<1>4. \A t \in Tasks : Owns(t) => obj[t].path < fileSeq /\ obj[t].path # fileSeq
  BY <1>2, SMTT(20) DEF SafeInv, OwnInv, Owns
<1>5. \A o \in lru : IsFile(o) => o.path < fileSeq /\ o.path # fileSeq
  BY <1>2, SMTT(20) DEF SafeInv, OwnInv
<1>6. /\ \A t \in Tasks : Owns(t)' => obj'[t].path < fileSeq'
      /\ \A o \in lru' : IsFile(o) => o.path < fileSeq'
  BY <1>1, <1>2, <1>3, <1>4, <1>5, SMTT(20) DEF Owns
<1>7. \A t, u \in Tasks : t # u /\ Owns(t)' /\ Owns(u)' => obj'[t].path # obj'[u].path
  BY <1>1, <1>3, <1>4, Zenon DEF SafeInv, OwnInv
<1>8. \A t \in Tasks, o \in lru' : Owns(t)' /\ IsFile(o) => o.path # obj'[t].path
  BY <1>1, <1>3, <1>5, Zenon DEF SafeInv, OwnInv
<1>9. \A t \in Tasks : pc'[t] = "spool" => ~IsFile(obj'[t])
  BY <1>1, Zenon DEF SafeInv, OwnInv, Only
<1> QED
  BY <1>1, <1>6, <1>7, <1>8, <1>9, Zenon DEF SafeInv, OwnInv

\* No step gives a file to a second owner.
LEMMA OwnStep == SafeInv /\ [Next]_vars => OwnInv'
<1> SUFFICES ASSUME SafeInv, [Next]_vars PROVE OwnInv'
  BY Zenon
<1>0. TypeInv /\ OwnInv /\ Stores \subseteq Tasks /\ Gets \subseteq Tasks
  BY Zenon DEF SafeInv, Tasks
<1>1. ASSUME NEW x \in Tasks, Finish(x), lru' = lru, fileSeq' = fileSeq
      PROVE  OwnInv'
  <2>1. Only(x) /\ pc'[x] \in {"done", "idle"}
    BY <1>0, <1>1, Finishes
  <2> QED
    BY <1>0, <1>1, <2>1, OwnFrame, Zenon DEF Only
<1>2. ASSUME NEW x \in Tasks, NEW label, Goto(x, label), obj' = obj, lru' = lru,
             fileSeq' = fileSeq, label # "spool",
             \/ pc[x] \in {"spool", "spill", "new", "incr", "push", "decr", "unlink"}
             \/ label \in {"open", "evict", "read"}
      PROVE  OwnInv'
  <2>1. Only(x) /\ pc'[x] = label /\ obj'[x] = obj[x]
    BY <1>0, <1>2, Goes, Zenon
  <2>2. Owns(x)' => Owns(x)
    BY <1>0, <1>2, <2>1, Zenon DEF Owns, OwnInv
  <2> QED
    BY <1>0, <1>2, <2>1, <2>2, OwnKeep, Zenon
<1>3. ASSUME NEW s \in Stores, NEW k \in Keys, Put(s, k) PROVE OwnInv'
  <2>1. /\ Only(s) /\ pc'[s] = "spool" /\ obj'[s] = Obj(k, 0, OnMemory)
        /\ lru' = lru /\ fileSeq' = fileSeq
    BY <1>0, <1>3, Zenon DEF Put, Goto, Only, TypeInv, TypeOK, lruVars
  <2>2. ~IsFile(obj'[s]) /\ ~Owns(s)'
    BY <2>1 DEF IsFile, Obj, Owns
  <2> QED
    BY <1>0, <2>1, <2>2, OwnKeep, Zenon
<1>4. ASSUME NEW s \in Stores, StoreStep(s) PROVE OwnInv'
  <2>1. CASE SpoolGiveUp(s) \/ SpillAbort(s) \/ RemoveUnlink(s)
    BY <1>0, <1>1, <2>1, Zenon DEF SpoolGiveUp, SpillAbort, RemoveUnlink, lruVars
  <2>2. CASE SpoolOnMemory(s) \/ SpillCommit(s) \/ IncrCount(s) \/ RemoveDecr(s)
    BY <1>0, <1>2, <2>2, Zenon DEF SpoolOnMemory, SpillCommit, IncrCount, RemoveDecr, lruVars
  <2>3. CASE SpillCreate(s) \/ SpillCreateFails(s)
    BY <1>0, <2>3, OwnCreate, Zenon
  <2>4. CASE NewObject(s)
    <3>1. /\ Only(s) /\ pc[s] = "new" /\ pc'[s] \in {"incr", "push"}
          /\ obj'[s].path = obj[s].path /\ lru' = lru /\ fileSeq' = fileSeq
      BY <1>0, <2>4, Zenon DEF NewObject, Goto, Only, TypeInv, TypeOK, lruVars, Obj
    <3>2. Owns(s)' => Owns(s)
      BY <3>1, Zenon DEF Owns, IsFile
    <3> QED
      BY <1>0, <3>1, <3>2, OwnKeep, Zenon
  <2>5. CASE PushFails(s)
    BY <1>0, <1>1, <1>2, <2>5, Zenon DEF PushFails, lruVars
  <2>6. CASE Push(s)
    BY <2>6, OwnPush
  <2> QED
    BY <1>4, <2>1, <2>2, <2>3, <2>4, <2>5, <2>6, Zenon DEF StoreStep, Remove
<1>5. ASSUME NEW g \in Gets, GetStep(g) \/ GetLookup(g) PROVE OwnInv'
  <2>1. CASE GetLookup(g)
    <3>1. Only(g) /\ pc'[g] = "fresh" /\ lru' = lru /\ fileSeq' = fileSeq
      BY <1>0, <2>1 DEF GetLookup, Goto, Only, TypeInv, TypeOK
    <3> QED
      BY <1>0, <3>1, OwnFrame, Zenon DEF Only
  <2>2. CASE GetDropped(g) \/ GetEvictSkips(g) \/ ReadEnds(g) \/ ReadMismatch(g) \/ RemoveUnlink(g)
    BY <1>0, <1>1, <2>2, Zenon
    DEF GetDropped, GetEvictSkips, ReadEnds, ReadMismatch, RemoveUnlink, lruVars
  <2>3. CASE GetStale(g) \/ GetOpen(g) \/ GetOpenFails(g) \/ RemoveDecr(g)
    BY <1>0, <1>2, <2>3, Zenon DEF GetStale, GetOpen, GetOpenFails, RemoveDecr, lruVars
  <2>4. CASE GetFresh(g) \/ GetEvict(g)
    BY <2>4, OwnFresh, OwnEvict
  <2> QED
    BY <1>5, <2>1, <2>2, <2>3, <2>4, Zenon DEF GetStep, Remove
<1>6. ASSUME UNCHANGED <<lru, fileSeq, pc, obj>> PROVE OwnInv'
  BY <1>0, <1>6 DEF OwnInv, Owns
<1> QED
  BY <1>3, <1>4, <1>5, <1>6 DEF Next, ExternalRemove, Poison, vars, lruVars

LEMMA SafeStep == SafeInv /\ [Next]_vars => SafeInv'
BY TypeStep, GenStep, LruStep, OwnStep DEF SafeInv

LEMMA SafeInit == Init => SafeInv
<1> SUFFICES ASSUME Init PROVE SafeInv
  OBVIOUS
<1>1. TypeInv
  BY TypeInit, Zenon
<1>2. GenInv
  BY Zenon DEF Init, GenInv, Snapshot, Building
<1>3. LruInv
  BY FS_EmptySet, MaxEntryAssumption DEF Init, LruInv, IsOrder, KeysOf
<1>4. OwnInv
  BY Zenon DEF Init, OwnInv, Owns
<1> QED
  BY <1>1, <1>2, <1>3, <1>4 DEF SafeInv

\* The LRU holds one object per key and at most cache_max_entry of them, ranks
\* exactly its keys, and LruCacheManager.cnt is its length.
THEOREM LruCorrect == Spec => []LruWellFormed
<1>1. SafeInv => LruWellFormed
  BY DEF SafeInv, LruInv, LruWellFormed, IsOrder
<1> QED
  BY <1>1, SafeInit, SafeStep, PTL DEF Spec

\* evict_if_generation, called with a snapshot however old, removes the object
\* of that snapshot and nothing else.
THEOREM EvictionCorrect == Spec => EvictsOnlyTheObjectSeen
<1>1. SafeInv /\ [Next]_vars
        => [\A g \in Gets : GetEvict(g) => lru \ lru' = {obj[g]}]_vars
  <2> SUFFICES ASSUME SafeInv, NEW g \in Gets, GetEvict(g)
               PROVE  lru \ lru' = {obj[g]}
    OBVIOUS
  <2> QED
    BY EvictExact, Zenon DEF SafeInv, GetEvict
<1> QED
  BY <1>1, SafeInit, SafeStep, PTL DEF Spec, EvictsOnlyTheObjectSeen
=============================================================================
