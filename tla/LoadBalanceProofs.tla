------------------------- MODULE LoadBalanceProofs -------------------------
(***************************************************************************)
(* Proofs about the choice of an upstream (module LoadBalance), for any    *)
(* number of upstreams, any number of concurrent requests and any size of  *)
(* the round-robin pointer.                                                *)
(***************************************************************************)
EXTENDS LoadBalance, FiniteSetTheorems, TLAPS

Labels == {"idle", "sent", "advance", "reset", "draw", "count", "scan", "picked"}

RequestTypeOK ==
    /\ pc \in [Requests -> Labels]
    /\ nth \in [Requests -> Nat] /\ n \in [Requests -> Nat]
    /\ pos \in [Requests -> Upstreams] /\ idx \in [Requests -> Upstreams]
    /\ served \in [Upstreams -> Nat]

SessionTypeOK ==
    /\ by \in [Requests -> Clients \cup {None}]
    /\ sent \in [Requests -> Upstreams \cup {None, Stale}]
    /\ cookie \in [Clients -> Upstreams \cup {None, Stale}]
    /\ last \in [Clients -> Upstreams \cup {None}]

TypeOK ==
    /\ RequestTypeOK
    /\ tracked \in BOOLEAN /\ up \in [Upstreams -> BOOLEAN] /\ ptr \in Nat
    /\ issue \in [Requests -> BOOLEAN] /\ calm \in [Requests -> BOOLEAN]
    /\ SessionTypeOK /\ window \in BOOLEAN

\* The healthy upstreams a walk that stands at p has passed.
Passed(p) == {i \in Healthy : i < p}

\* The state of a request, as label, turn, position, count and pick: the labels
\* its policy has, ...
LocalOK(l, t, p, k, i) ==
    /\ policy = "first" => l \in {"idle", "sent", "scan", "picked"}
    /\ l = "draw" => policy = "random"
    /\ l = "scan" /\ policy = "first" => k = 0

\* ... and what a walk knows while no flag turns: how many healthy upstreams it
\* has passed, and that the one it looks for is still ahead.
CalmOK(l, t, p, k, i) ==
    /\ l \in {"draw", "count"} => k = Cardinality(Passed(p))
    /\ l = "scan" /\ policy = "first" => Passed(p) = {}
    /\ l = "scan" /\ policy # "first" =>
         /\ Healthy # {}
         /\ k + Cardinality(Passed(p)) = t % Cardinality(Healthy)
    /\ l = "picked" /\ Healthy # {} =>
         /\ i \in Healthy
         /\ policy = "first" => \A j \in Healthy : i <= j

RequestInv ==
    /\ ~tracked => \A i \in Upstreams : up[i]
    /\ \A q \in Requests :
         /\ LocalOK(pc[q], nth[q], pos[q], n[q], idx[q])
         /\ calm[q] => CalmOK(pc[q], nth[q], pos[q], n[q], idx[q])

\* What is known of the cookie of a request: only the sticky policy has one; it is
\* followed, or a new one is issued.
SentOK(q) ==
    /\ pc[q] # "idle" => by[q] \in Clients
    /\ policy # "sticky" => sent[q] = None /\ ~issue[q]
    /\ /\ policy = "sticky" /\ pc[q] \notin {"idle", "sent"}
       /\ ~issue[q] \/ (calm[q] /\ sent[q] \in Healthy)
       => pc[q] = "picked" /\ idx[q] = sent[q]

\* What is known of the cookie of a client: it names the last server.
HeldOK(c) ==
    /\ policy # "sticky" => cookie[c] = None
    /\ policy = "sticky" /\ last[c] # None => cookie[c] = last[c]

StickyInv == (\A q \in Requests : SentOK(q)) /\ (\A c \in Clients : HeldOK(c))

\* The place of an upstream among the available ones, and how many of the turns
\* 0 .. p - 1 fall to the place r.
M == Cardinality(Available)
Rank(i) == Cardinality({j \in Available : j < i})
LapOf(p, r, m) == p \div m + (IF r < p % m THEN 1 ELSE 0)

\* Requests that have drawn a turn for the place r and have not picked yet.
Pending(r) == {q \in Requests : pc[q] \in {"count", "scan"} /\ nth[q] % M = r}

\* The turns drawn in a window that began at the turn w are those picked and
\* those pending.
TurnsFrom(w) ==
    \A i \in Available :
        served[i] + Cardinality(Pending(Rank(i))) =
            LapOf(ptr, Rank(i), M) - LapOf(w, Rank(i), M)

WindowInv ==
    window =>
        /\ \A q \in Requests : pc[q] # "reset" /\ (pc[q] \notin {"idle", "sent"} => calm[q])
        /\ policy = "round_robin" => \E w \in Nat : TurnsFrom(w)

Inv == TypeOK /\ RequestInv /\ StickyInv /\ WindowInv

(***************************************************************************)
(* Counting                                                                *)
(***************************************************************************)
LEMMA ModFacts ==
    ASSUME NEW t \in Nat, NEW k \in Nat \ {0}
    PROVE  /\ t % k \in Nat /\ t % k < k
           /\ t \div k \in Nat /\ t = k * (t \div k) + (t % k)
<1>1. t % k \in Nat /\ t % k < k
    OBVIOUS
<1>2. t = k * (t \div k) + (t % k)
    OBVIOUS
<1>3. t \div k \in Int
    OBVIOUS
<1>4. t \div k >= 0
    OBVIOUS
<1>. QED
    BY <1>1, <1>2, <1>3, <1>4

LEMMA DivUnique ==
    ASSUME NEW k \in Nat \ {0}, NEW q \in Nat, NEW r \in Nat, NEW q1 \in Nat, NEW r1 \in Nat,
           r < k, r1 < k, k * q + r = k * q1 + r1
    PROVE  q = q1 /\ r = r1
<1>1. ASSUME NEW a \in Nat, NEW b \in Nat, a < b PROVE k * a + k <= k * b
    <2>1. PICK d \in Nat : b = a + 1 + d
        BY <1>1, b - a - 1 \in Nat
    <2>2. k * b = k * a + k + k * d /\ k * d \in Nat
        BY <2>1
    <2>. QED
        BY <2>2
<1>2. ~(q < q1)
    <2>. SUFFICES ASSUME q < q1 PROVE FALSE
        OBVIOUS
    <2>1. k * q + k <= k * q1
        BY <1>1
    <2>. QED
        BY <2>1
<1>3. ~(q1 < q)
    <2>. SUFFICES ASSUME q1 < q PROVE FALSE
        OBVIOUS
    <2>1. k * q1 + k <= k * q
        BY <1>1
    <2>. QED
        BY <2>1
<1>4. q = q1
    BY <1>2, <1>3
<1>. QED
    BY <1>4

LEMMA ModSmall ==
    ASSUME NEW t \in Nat, NEW k \in Nat \ {0}, t < k
    PROVE  t % k = t
<1>1. /\ t % k \in Nat /\ t % k < k
      /\ t \div k \in Nat /\ t = k * (t \div k) + (t % k)
    BY ModFacts
<1>2. k * (t \div k) + (t % k) = k * 0 + t
    BY <1>1
<1>. QED
    BY <1>1, <1>2, DivUnique

\* The next turn falls to the place p % m, and to no other.
LEMMA LapNext ==
    ASSUME NEW p \in Nat, NEW m \in Nat \ {0}, NEW r \in Nat, r < m
    PROVE  LapOf(p + 1, r, m) = LapOf(p, r, m) + (IF p % m = r THEN 1 ELSE 0)
<1>. DEFINE q == p \div m
            s == p % m
            q1 == (p + 1) \div m
            s1 == (p + 1) % m
<1>1. /\ q \in Nat /\ s \in Nat /\ s < m /\ p = m * q + s
      /\ q1 \in Nat /\ s1 \in Nat /\ s1 < m /\ p + 1 = m * q1 + s1
    BY ModFacts
<1>2. LapOf(p, r, m) = q + (IF r < s THEN 1 ELSE 0)
    BY DEF LapOf
<1>3. LapOf(p + 1, r, m) = q1 + (IF r < s1 THEN 1 ELSE 0)
    BY DEF LapOf
<1>. HIDE DEF q, s, q1, s1
<1>4. CASE s + 1 < m
    <2>1. q1 = q /\ s1 = s + 1
        BY <1>1, <1>4, m * q + (s + 1) = m * q1 + s1, DivUnique
    <2>. QED
        BY <2>1, <1>1, <1>2, <1>3 DEF s
<1>5. CASE s + 1 = m
    <2>1. m * (q + 1) = m * q + m
        BY <1>1
    <2>2. m * (q + 1) + 0 = m * q1 + s1
        BY <1>1, <1>5, <2>1
    <2>3. q1 = q + 1 /\ s1 = 0
        BY <2>2, <1>1, DivUnique
    <2>. QED
        BY <2>3, <1>1, <1>2, <1>3, <1>5 DEF s
<1>. QED
    BY <1>1, <1>4, <1>5

LEMMA LapType ==
    ASSUME NEW p \in Nat, NEW m \in Nat \ {0}, NEW r \in Nat
    PROVE  LapOf(p, r, m) \in Nat
<1>1. p \div m \in Nat
    BY ModFacts
<1>. QED
    BY <1>1 DEF LapOf

\* In any stretch of turns two places differ by one at most.
LEMMA LapsEven ==
    ASSUME NEW p \in Nat, NEW w \in Nat, NEW m \in Nat \ {0}, NEW r \in Nat, NEW s \in Nat
    PROVE  LapOf(p, r, m) - LapOf(w, r, m) <= LapOf(p, s, m) - LapOf(w, s, m) + 1
<1>1. /\ p \div m \in Nat /\ p % m \in Nat /\ w \div m \in Nat /\ w % m \in Nat
    BY ModFacts
<1>. QED
    BY <1>1 DEF LapOf

LEMMA UpstreamsFinite ==
    /\ Upstreams \subseteq Nat /\ IsFiniteSet(Upstreams) /\ Cardinality(Upstreams) = Len
    /\ 0 \in Upstreams
<1>1. Len \in Nat \ {0} /\ 0 \in Int /\ Len - 1 \in Int /\ ~(0 > Len - 1)
    BY LoadBalanceAssumption
<1>2. IsFiniteSet(0 .. (Len - 1)) /\ Cardinality(0 .. (Len - 1)) = Len - 1 - 0 + 1
    BY <1>1, FS_Interval, Zenon
<1>. QED
    BY <1>1, <1>2 DEF Upstreams

LEMMA HealthyFinite ==
    /\ Healthy \subseteq Upstreams /\ IsFiniteSet(Healthy) /\ Cardinality(Healthy) \in Nat
    /\ Cardinality(Healthy) = 0 <=> Healthy = {}
    /\ Cardinality(Healthy) = Len <=> Healthy = Upstreams
<1>1. Healthy \in SUBSET Upstreams
    BY DEF Healthy
<1>2. IsFiniteSet(Healthy) /\ (Cardinality(Upstreams) = Cardinality(Healthy) => Upstreams = Healthy)
    BY <1>1, UpstreamsFinite, FS_Subset, Zenon
<1>3. Cardinality(Healthy) \in Nat
    BY <1>2, FS_CardinalityType
<1>4. Cardinality(Healthy) = 0 <=> Healthy = {}
    BY <1>2, FS_EmptySet
<1>. QED
    BY <1>1, <1>2, <1>3, <1>4, UpstreamsFinite

\* A walk passes one upstream at a time, and in the end all that are healthy.
LEMMA PassedFacts ==
    /\ Passed(0) = {} /\ Cardinality(Passed(0)) = 0
    /\ Passed(Len) = Healthy
    /\ \A p \in Upstreams :
         /\ Cardinality(Passed(p)) \in Nat
         /\ Passed(p + 1) = Passed(p) \cup (IF up[p] THEN {p} ELSE {})
         /\ Cardinality(Passed(p + 1)) = Cardinality(Passed(p)) + (IF up[p] THEN 1 ELSE 0)
<1>1. \A i \in Healthy : i \in Upstreams /\ i \in Nat /\ i < Len /\ ~(i < 0)
    BY LoadBalanceAssumption DEF Healthy, Upstreams
<1>2. Passed(0) = {} /\ Cardinality(Passed(0)) = 0
    BY <1>1, FS_EmptySet DEF Passed
<1>3. Passed(Len) = Healthy
    BY <1>1 DEF Passed
<1>4. ASSUME NEW p \in Upstreams
      PROVE  /\ Cardinality(Passed(p)) \in Nat
             /\ Passed(p + 1) = Passed(p) \cup (IF up[p] THEN {p} ELSE {})
             /\ Cardinality(Passed(p + 1)) = Cardinality(Passed(p)) + (IF up[p] THEN 1 ELSE 0)
    <2>1. Passed(p) \in SUBSET Healthy /\ p \notin Passed(p) /\ p \in Nat
        BY UpstreamsFinite DEF Passed
    <2>2. IsFiniteSet(Passed(p)) /\ Cardinality(Passed(p)) \in Nat
        BY <2>1, HealthyFinite, FS_Subset, FS_CardinalityType
    <2>3. Passed(p + 1) = Passed(p) \cup (IF up[p] THEN {p} ELSE {})
        <3>1. ASSUME NEW i \in Healthy PROVE i < p + 1 <=> (i < p \/ i = p)
            BY <1>1, <2>1
        <3>2. up[p] <=> p \in Healthy
            BY DEF Healthy
        <3>. QED
            BY <3>1, <3>2, <2>1 DEF Passed
    <2>4. Cardinality(Passed(p) \cup {p}) = Cardinality(Passed(p)) + 1
        BY <2>1, <2>2, FS_AddElement, Zenon
    <2>5. CASE up[p]
        BY <2>2, <2>3, <2>4, <2>5, Zenon
    <2>6. CASE ~up[p]
        <3>1. Passed(p + 1) = Passed(p)
            BY <2>3, <2>6, Zenon
        <3>. QED
            BY <3>1, <2>2, <2>3, <2>6
    <2>. QED
        BY <2>5, <2>6, Zenon
<1>. QED
    BY <1>2, <1>3, <1>4

LEMMA AvailableFinite ==
    /\ Available \subseteq Upstreams /\ IsFiniteSet(Available) /\ M \in Nat \ {0}
    /\ Healthy # {} => M = Cardinality(Healthy)
    /\ Healthy \in {{}, Upstreams} => M = Len /\ Available = Upstreams
<1>1. Upstreams # {}
    BY UpstreamsFinite
<1>. QED
    BY <1>1, HealthyFinite, UpstreamsFinite, LoadBalanceAssumption, Zenon DEF Available, M

\* Places are numbered from 0, and no two upstreams have the same.
LEMMA RankFacts ==
    /\ \A i \in Available : Rank(i) \in Nat /\ Rank(i) < M
    /\ \A i, j \in Available : Rank(i) = Rank(j) => i = j
    /\ Healthy # {} => \A i \in Available : Rank(i) = Cardinality(Passed(i))
    /\ Healthy \in {{}, Upstreams} => \A i \in Available : Rank(i) = i
<1>. DEFINE B(i) == {j \in Available : j < i}
<1>1. \A i : B(i) \in SUBSET Available /\ IsFiniteSet(B(i)) /\ Cardinality(B(i)) \in Nat
    <2>1. \A i : B(i) \in SUBSET Available
        OBVIOUS
    <2>. QED
        BY <2>1, AvailableFinite, FS_Subset, FS_CardinalityType
<1>2. \A i : Rank(i) = Cardinality(B(i))
    BY DEF Rank
<1>3. ASSUME NEW i \in Available PROVE Cardinality(B(i)) < M
    <2>1. i \notin B(i) /\ B(i) # Available
        BY AvailableFinite, UpstreamsFinite
    <2>. HIDE DEF B
    <2>2. Cardinality(B(i)) <= M /\ (M = Cardinality(B(i)) => Available = B(i))
        BY <1>1, AvailableFinite, FS_Subset DEF M
    <2>. QED
        BY <2>1, <2>2, <1>1, AvailableFinite
<1>4. ASSUME NEW i \in Available, NEW j \in Available, i < j
      PROVE  Cardinality(B(i)) # Cardinality(B(j))
    <2>1. i \in Nat /\ j \in Nat /\ \A k \in Available : k \in Nat
        BY AvailableFinite, UpstreamsFinite
    <2>0. \A k \in Available : k < i => k < j
        BY <2>1, <1>4
    <2>2. B(i) \in SUBSET B(j) /\ i \in B(j) /\ i \notin B(i)
        <3>1. B(i) \subseteq B(j)
            BY <2>0
        <3>2. i \in B(j)
            BY <1>4
        <3>3. i \notin B(i)
            BY <2>1
        <3>. QED
            BY <3>1, <3>2, <3>3
    <2>3. B(i) # B(j)
        BY <2>2
    <2>. QED
        BY <2>2, <2>3, <1>1, FS_Subset
<1>5. \A i, j \in Available : Rank(i) = Rank(j) => i = j
    <2>1. \A i \in Available : i \in Nat
        BY AvailableFinite, UpstreamsFinite
    <2>2. \A i, j \in Available : i < j \/ j < i \/ i = j
        BY <2>1
    <2>. HIDE DEF B
    <2>. QED
        BY <2>2, <1>2, <1>4
<1>6. Healthy # {} => \A i \in Available : Rank(i) = Cardinality(Passed(i))
    BY DEF Rank, Passed, Available
<1>7. Healthy \in {{}, Upstreams} => \A i \in Available : Rank(i) = i
    <2>. SUFFICES ASSUME Available = Upstreams, NEW i \in Upstreams PROVE Cardinality(B(i)) = i
        BY <1>2, AvailableFinite, Zenon
    <2>1. B(i) = 0 .. (i - 1) /\ i \in Nat
        BY LoadBalanceAssumption DEF Upstreams
    <2>2. Cardinality(0 .. (i - 1)) = (IF 0 > i - 1 THEN 0 ELSE i - 1 - 0 + 1)
        BY <2>1, FS_Interval
    <2>. HIDE DEF B
    <2>. QED
        BY <2>1, <2>2
<1>. QED
    BY <1>1, <1>2, <1>3, <1>5, <1>6, <1>7, Zenon

(***************************************************************************)
(* Steps of a request                                                      *)
(***************************************************************************)
\* Only the request of q moves.
Others(q) ==
    \A d \in Requests \ {q} :
        /\ pc'[d] = pc[d] /\ nth'[d] = nth[d] /\ pos'[d] = pos[d]
        /\ n'[d] = n[d] /\ idx'[d] = idx[d]

\* The request of q gets to a state of the invariant.
Settles(q) ==
    /\ RequestTypeOK' /\ Others(q)
    /\ LocalOK(pc'[q], nth'[q], pos'[q], n'[q], idx'[q])
    /\ calm'[q] => CalmOK(pc'[q], nth'[q], pos'[q], n'[q], idx'[q])

LEMMA PickValues ==
    ASSUME TypeOK, NEW q \in Requests, NEW i \in Upstreams, Pick(q, i)
    PROVE  /\ RequestTypeOK' /\ Others(q) /\ pc'[q] = "picked" /\ idx'[q] = i
           /\ nth'[q] = 0 /\ pos'[q] = 0 /\ n'[q] = 0
<1>1. 0 \in Upstreams
    BY UpstreamsFinite
<1>2. served' \in [Upstreams -> Nat]
    BY DEF Pick, TypeOK, RequestTypeOK
<1>3. RequestTypeOK'
    BY <1>1, <1>2, Zenon DEF Pick, Goto, TypeOK, RequestTypeOK, Labels
<1>. QED
    BY <1>3 DEF Pick, Goto, TypeOK, RequestTypeOK, Others

LEMMA WalkValues ==
    ASSUME TypeOK, NEW q \in Requests, NEW l \in Labels, NEW t \in Nat, NEW k \in Nat,
           Walk(q, l, t, k)
    PROVE  /\ RequestTypeOK' /\ Others(q) /\ pc'[q] = l /\ idx'[q] = idx[q]
           /\ nth'[q] = t /\ pos'[q] = 0 /\ n'[q] = k /\ UNCHANGED served
<1>1. 0 \in Upstreams
    BY UpstreamsFinite
<1>2. RequestTypeOK'
    BY <1>1, Zenon DEF Walk, Goto, TypeOK, RequestTypeOK
<1>. QED
    BY <1>2 DEF Walk, Goto, TypeOK, RequestTypeOK, Others

\* A walk looks at the next flag.
Moves(q, k) ==
    /\ n' = [n EXCEPT ![q] = k]
    /\ pos' = [pos EXCEPT ![q] = @ + 1]
    /\ UNCHANGED <<pc, nth, idx, served>>

LEMMA MoveValues ==
    ASSUME TypeOK, NEW q \in Requests, NEW k \in Nat, pos[q] + 1 < Len, Moves(q, k)
    PROVE  /\ RequestTypeOK' /\ Others(q) /\ pc'[q] = pc[q] /\ idx'[q] = idx[q]
           /\ nth'[q] = nth[q] /\ pos'[q] = pos[q] + 1 /\ n'[q] = k /\ UNCHANGED served
<1>1. pos[q] + 1 \in Upstreams
    <2>1. pos[q] \in Upstreams
        BY Zenon DEF TypeOK, RequestTypeOK
    <2>. QED
        BY <2>1, LoadBalanceAssumption DEF Upstreams
<1>2. RequestTypeOK'
    BY <1>1, Zenon DEF Moves, TypeOK, RequestTypeOK
<1>. QED
    BY <1>2 DEF Moves, TypeOK, RequestTypeOK, Others

LEMMA PickSettles ==
    ASSUME TypeOK, NEW q \in Requests, NEW i \in Upstreams, Pick(q, i),
           calm'[q] /\ Healthy # {} =>
               i \in Healthy /\ (policy = "first" => \A j \in Healthy : i <= j)
    PROVE  Settles(q)
  BY PickValues, Zenon DEF Settles, LocalOK, CalmOK

LEMMA WalkSettles ==
    ASSUME TypeOK, NEW q \in Requests, NEW l \in Labels, Walk(q, l, 0, 0),
           \A i : LocalOK(l, 0, 0, 0, i) /\ CalmOK(l, 0, 0, 0, i)
    PROVE  Settles(q)
<1>1. /\ RequestTypeOK' /\ Others(q) /\ pc'[q] = l
      /\ nth'[q] = 0 /\ pos'[q] = 0 /\ n'[q] = 0
    BY WalkValues, Zenon
<1>. QED
    BY <1>1, Zenon DEF Settles

\* pick_nth_available_index is called by the policies that draw a turn.
LEMMA PickNthSettles ==
    ASSUME TypeOK, RequestInv, NEW q \in Requests, NEW t \in Nat, PickNth(q, t),
           policy # "first"
    PROVE  Settles(q)
<1>1. CASE tracked
    <2>1. Walk(q, "count", t, 0)
        BY <1>1 DEF PickNth
    <2>2. /\ RequestTypeOK' /\ Others(q) /\ pc'[q] = "count" /\ idx'[q] = idx[q]
          /\ nth'[q] = t /\ pos'[q] = 0 /\ n'[q] = 0
        BY <2>1, WalkValues, Zenon DEF Labels
    <2>. QED
        BY <2>2, PassedFacts, Zenon DEF Settles, LocalOK, CalmOK
<1>2. CASE ~tracked
    <2>1. Pick(q, t % Len) /\ t % Len \in Upstreams
        BY <1>2, ModFacts, LoadBalanceAssumption DEF PickNth, Upstreams
    <2>2. Healthy = Upstreams
        BY <1>2, Zenon DEF RequestInv, Healthy
    <2>. QED
        BY <2>1, <2>2, PickSettles
<1>. QED
    BY <1>1, <1>2

LEMMA BeginSettles ==
    ASSUME TypeOK, RequestInv, NEW q \in Requests, Begin(q)
    PROVE  Settles(q)
<1>0. ~tracked => Healthy = Upstreams
    BY Zenon DEF RequestInv, Healthy
<1>1. CASE BeginFirst(q)
    <2>1. CASE tracked
        <3>1. policy = "first" /\ Walk(q, "scan", 0, 0)
            BY <1>1, <2>1 DEF BeginFirst
        <3>. QED
            BY <3>1, WalkSettles, PassedFacts, Zenon DEF LocalOK, CalmOK, Labels
    <2>2. CASE ~tracked
        <3>1. Pick(q, 0)
            BY <1>1, <2>2 DEF BeginFirst
        <3>2. 0 \in Upstreams /\ \A j \in Upstreams : 0 <= j
            BY UpstreamsFinite DEF Upstreams
        <3>. QED
            BY <3>1, <3>2, <2>2, <1>0, PickSettles
    <2>. QED
        BY <2>1, <2>2
<1>2. CASE BeginRandom(q)
    <2>1. CASE tracked
        <3>1. policy = "random" /\ Walk(q, "draw", 0, 0)
            BY <1>2, <2>1 DEF BeginRandom
        <3>. QED
            BY <3>1, WalkSettles, PassedFacts, Zenon DEF LocalOK, CalmOK, Labels
    <2>2. CASE ~tracked
        <3>1. policy = "random" /\ \E i \in Upstreams : Pick(q, i)
            BY <1>2, <2>2 DEF BeginRandom
        <3>. QED
            BY <3>1, <2>2, <1>0, PickSettles
    <2>. QED
        BY <2>1, <2>2
<1>3. CASE BeginTurn(q)
    <2>1. policy # "first" /\ Walk(q, "advance", 0, 0)
        BY <1>3, Zenon DEF BeginTurn
    <2>. QED
        BY <2>1, WalkValues, Zenon DEF Settles, LocalOK, CalmOK, Labels
<1>4. CASE BeginSticky(q)
    <2>1. policy # "first" /\ Pick(q, sent[q]) /\ sent[q] \in Healthy
        BY <1>4 DEF BeginSticky
    <2>2. sent[q] \in Upstreams
        BY <2>1, HealthyFinite, Zenon
    <2>. QED
        BY <2>1, <2>2, PickSettles, Zenon
<1>. QED
    BY <1>1, <1>2, <1>3, <1>4, Zenon DEF Begin

LEMMA AdvanceSettles ==
    ASSUME TypeOK, RequestInv, NEW q \in Requests, FetchAdd(q) \/ StoreZero(q)
    PROVE  Settles(q)
<1>1. policy # "first"
    BY Zenon DEF FetchAdd, StoreZero, RequestInv, LocalOK
<1>2. CASE FetchAdd(q)
    <2>1. CASE ptr >= MaxUsize - 1
        <3>1. Walk(q, "reset", ptr, 0) /\ ptr \in Nat
            BY <1>2, <2>1, Zenon DEF FetchAdd, TypeOK
        <3>. QED
            BY <3>1, <1>1, WalkValues, Zenon DEF Settles, LocalOK, CalmOK, Labels
    <2>2. CASE ~(ptr >= MaxUsize - 1)
        <3>1. PickNth(q, ptr) /\ ptr \in Nat
            BY <1>2, <2>2, Zenon DEF FetchAdd, TypeOK
        <3>. QED
            BY <3>1, <1>1, PickNthSettles
    <2>. QED
        BY <2>1, <2>2
<1>3. CASE StoreZero(q)
    <2>1. PickNth(q, nth[q]) /\ nth[q] \in Nat
        BY <1>3, Zenon DEF StoreZero, TypeOK, RequestTypeOK
    <2>. QED
        BY <2>1, <1>1, PickNthSettles, Zenon
<1>. QED
    BY <1>2, <1>3

\* A walk that counts: the flag it looks at is counted, and the last one ends it
\* with the number of healthy upstreams.
Counted(q) == n[q] + (IF up[pos[q]] THEN 1 ELSE 0)

LEMMA CountFacts ==
    ASSUME TypeOK, RequestInv, NEW q \in Requests, pc[q] \in {"draw", "count"}
    PROVE  /\ policy # "first" /\ Counted(q) \in Nat /\ pos[q] \in Upstreams /\ nth[q] \in Nat
           /\ calm[q] => Counted(q) = Cardinality(Passed(pos[q] + 1))
           /\ calm[q] /\ ~(pos[q] + 1 < Len) => Counted(q) = Cardinality(Healthy)
           /\ calm[q] /\ ~(pos[q] + 1 < Len) /\ Counted(q) \in {0, Len} =>
                  Healthy \in {{}, Upstreams}
<1>1. policy # "first" /\ pos[q] \in Upstreams /\ n[q] \in Nat /\ nth[q] \in Nat
    BY Zenon DEF RequestInv, LocalOK, TypeOK, RequestTypeOK
<1>2. Counted(q) \in Nat
    BY <1>1 DEF Counted
<1>3. ASSUME calm[q] PROVE Counted(q) = Cardinality(Passed(pos[q] + 1))
    <2>1. n[q] = Cardinality(Passed(pos[q]))
        BY <1>3, Zenon DEF RequestInv, CalmOK
    <2>. QED
        BY <2>1, <1>1, PassedFacts, Zenon DEF Counted
<1>4. ~(pos[q] + 1 < Len) => pos[q] + 1 = Len
    BY <1>1, LoadBalanceAssumption DEF Upstreams
<1>5. calm[q] /\ ~(pos[q] + 1 < Len) => Counted(q) = Cardinality(Healthy)
    BY <1>3, <1>4, PassedFacts, Zenon
<1>. QED
    BY <1>1, <1>2, <1>3, <1>5, HealthyFinite, Zenon

LEMMA CountMoves ==
    ASSUME TypeOK, RequestInv, NEW q \in Requests, pc[q] \in {"draw", "count"},
           pos[q] + 1 < Len, Moves(q, Counted(q)), calm' = calm
    PROVE  Settles(q)
<1>1. /\ Counted(q) \in Nat /\ policy # "first"
      /\ calm[q] => Counted(q) = Cardinality(Passed(pos[q] + 1))
    BY CountFacts, Zenon
<1>2. /\ RequestTypeOK' /\ Others(q) /\ pc'[q] = pc[q] /\ idx'[q] = idx[q]
      /\ nth'[q] = nth[q] /\ pos'[q] = pos[q] + 1 /\ n'[q] = Counted(q)
    BY <1>1, MoveValues, Zenon
<1>3. LocalOK(pc[q], nth[q], pos[q], n[q], idx[q])
    BY Zenon DEF RequestInv
<1>. QED
    BY <1>1, <1>2, <1>3, Zenon DEF Settles, LocalOK, CalmOK

LEMMA DrawSettles ==
    ASSUME TypeOK, RequestInv, NEW q \in Requests, Draw(q)
    PROVE  Settles(q)
<1>0. pc[q] = "draw" /\ calm' = calm
    BY Zenon DEF Draw
<1>1. CASE pos[q] + 1 < Len
    BY <1>0, <1>1, CountMoves, Zenon DEF Draw, Moves, Counted
<1>2. CASE ~(pos[q] + 1 < Len)
    <2>1. CASE Counted(q) \in {0, Len} /\ \E i \in Upstreams : Pick(q, i)
        <3>1. calm[q] => Healthy \in {{}, Upstreams}
            BY <1>0, <1>2, <2>1, CountFacts, Zenon
        <3>2. policy # "first"
            BY <1>0, CountFacts, Zenon
        <3>. QED
            BY <1>0, <2>1, <3>1, <3>2, PickSettles, Zenon
    <2>2. CASE \E t \in 0 .. (Counted(q) - 1) : PickNth(q, t)
        <3>1. Counted(q) \in Nat /\ policy # "first"
            BY <1>0, CountFacts, Zenon
        <3>2. PICK t \in 0 .. (Counted(q) - 1) : PickNth(q, t)
            BY <2>2
        <3>3. t \in Nat
            BY <3>1
        <3>. QED
            BY <3>1, <3>2, <3>3, PickNthSettles, Zenon
    <2>. QED
        BY <1>2, <2>1, <2>2, Zenon DEF Draw, Counted
<1>. QED
    BY <1>1, <1>2, Zenon
\* The request of q picks the upstream whose turn it has drawn.
PicksTurn(q) ==
    \E i \in Upstreams :
        /\ Pick(q, i)
        /\ calm[q] => i \in Available /\ Rank(i) = nth[q] % M

\* A step of a walk that looks for the upstream of a turn keeps the turn or picks.
KeepsOrPicks(q) ==
    \/ pc'[q] \in {"count", "scan"} /\ nth'[q] = nth[q] /\ UNCHANGED served
    \/ PicksTurn(q)

LEMMA CountSettles ==
    ASSUME TypeOK, RequestInv, NEW q \in Requests, Count(q)
    PROVE  Settles(q) /\ KeepsOrPicks(q)
<1>0. pc[q] = "count" /\ calm' = calm
    BY Zenon DEF Count
<1>. DEFINE k == Counted(q)
            T == Target(nth[q], k)
<1>1. /\ policy # "first" /\ k \in Nat /\ nth[q] \in Nat
      /\ calm[q] /\ ~(pos[q] + 1 < Len) => k = Cardinality(Healthy)
      /\ calm[q] /\ ~(pos[q] + 1 < Len) /\ k \in {0, Len} => Healthy \in {{}, Upstreams}
    BY <1>0, CountFacts, Zenon
<1>2. CASE pos[q] + 1 < Len
    <2>1. Moves(q, k)
        BY <1>2, Zenon DEF Count, Moves, Counted
    <2>2. Settles(q)
        BY <1>0, <1>2, <2>1, CountMoves, Zenon
    <2>3. pc'[q] = "count" /\ nth'[q] = nth[q] /\ UNCHANGED served
        BY <1>0, <2>1, Zenon DEF Moves
    <2>. QED
        BY <2>2, <2>3, Zenon DEF KeepsOrPicks
<1>3. CASE ~(pos[q] + 1 < Len) /\ k \in {0, Len}
    <2>1. Pick(q, nth[q] % Len)
        BY <1>3, Zenon DEF Count, Counted
    <2>2. nth[q] % Len \in Upstreams
        BY <1>1, ModFacts, LoadBalanceAssumption, SMTT(30) DEF Upstreams
    <2>3. calm[q] => Healthy \in {{}, Upstreams}
        BY <1>1, <1>3, Zenon
    <2>4. calm[q] => nth[q] % Len \in Available /\ Rank(nth[q] % Len) = nth[q] % M
        BY <2>2, <2>3, AvailableFinite, RankFacts, Zenon
    <2>5. Settles(q)
        BY <1>0, <1>1, <2>1, <2>2, <2>3, PickSettles, Zenon
    <2>. QED
        BY <2>1, <2>2, <2>4, <2>5, Zenon DEF KeepsOrPicks, PicksTurn
<1>4. CASE ~(pos[q] + 1 < Len) /\ k \notin {0, Len}
    <2>1. Walk(q, "scan", nth[q], T)
        BY <1>4, Zenon DEF Count, Counted
    <2>2. T \in Nat /\ T = nth[q] % k
        BY <1>1, <1>4, ModFacts, Zenon DEF Target
    <2>. HIDE DEF k, T
    <2>. DEFINE t == nth[q]
    <2>0. t \in Nat /\ T \in Nat /\ Walk(q, "scan", t, T) /\ "scan" \in Labels
        BY <1>1, <2>1, <2>2 DEF Labels
    <2>. HIDE DEF t
    <2>3. /\ RequestTypeOK' /\ Others(q) /\ pc'[q] = "scan" /\ idx'[q] = idx[q]
          /\ nth'[q] = t /\ pos'[q] = 0 /\ n'[q] = T /\ UNCHANGED served
        BY <2>0, WalkValues, Zenon
    <2>. USE DEF t
    <2>4. calm[q] => Healthy # {} /\ T + Cardinality(Passed(0)) = nth[q] % Cardinality(Healthy)
        BY <1>1, <1>4, <2>2, PassedFacts, HealthyFinite
    <2>5. Settles(q)
        BY <1>0, <1>1, <2>3, <2>4, Zenon DEF Settles, LocalOK, CalmOK
    <2>. QED
        BY <2>3, <2>5, Zenon DEF KeepsOrPicks
<1>. QED
    BY <1>2, <1>3, <1>4, Zenon

LEMMA ScanSettles ==
    ASSUME TypeOK, RequestInv, NEW q \in Requests, Scan(q)
    PROVE  Settles(q) /\ (policy # "first" => KeepsOrPicks(q))
<1>0. pc[q] = "scan" /\ calm' = calm
    BY Zenon DEF Scan
<1>. DEFINE p == pos[q]
            t == nth[q] % Cardinality(Healthy)
<1>1. p \in Upstreams /\ p \in Nat /\ n[q] \in Nat /\ nth[q] \in Nat
    BY UpstreamsFinite, Zenon DEF TypeOK, RequestTypeOK
<1>2. /\ policy = "first" => n[q] = 0
      /\ calm[q] /\ policy = "first" => Passed(p) = {}
      /\ calm[q] /\ policy # "first" => Healthy # {} /\ n[q] + Cardinality(Passed(p)) = t
    BY <1>0, Zenon DEF RequestInv, LocalOK, CalmOK
<1>3. calm[q] /\ policy # "first" => t \in Nat /\ t < Cardinality(Healthy)
    BY <1>1, <1>2, HealthyFinite, ModFacts, Zenon
<1>4. /\ Cardinality(Passed(p)) \in Nat
      /\ Passed(p + 1) = Passed(p) \cup (IF up[p] THEN {p} ELSE {})
      /\ Cardinality(Passed(p + 1)) = Cardinality(Passed(p)) + (IF up[p] THEN 1 ELSE 0)
    BY <1>1, PassedFacts, Zenon
<1>. HIDE DEF t
<1>5. CASE up[p] /\ n[q] = 0
    <2>1. Pick(q, p) /\ p \in Healthy
        BY <1>1, <1>5, Zenon DEF Scan, Healthy
    <2>2. calm[q] /\ policy = "first" => \A j \in Healthy : p <= j
        <3>1. \A j \in Healthy : j \in Nat
            BY HealthyFinite, UpstreamsFinite, Zenon
        <3>2. Passed(p) = {} => \A j \in Healthy : ~(j < p)
            BY Zenon DEF Passed
        <3>. QED
            BY <1>1, <1>2, <3>1, <3>2
    <2>3. Settles(q)
        BY <1>0, <1>1, <2>1, <2>2, PickSettles, Zenon
    <2>4. calm[q] /\ policy # "first" => p \in Available /\ Rank(p) = nth[q] % M
        <3>. SUFFICES ASSUME calm[q], policy # "first"
                      PROVE  p \in Available /\ Rank(p) = nth[q] % M
            BY Zenon
        <3>1. Healthy # {} /\ p \in Available /\ M = Cardinality(Healthy)
            BY <2>1, AvailableFinite, Zenon DEF Available
        <3>2. Rank(p) = Cardinality(Passed(p))
            BY <3>1, RankFacts, Zenon
        <3>3. Cardinality(Passed(p)) = t
            BY <1>2, <1>4, <1>5
        <3>. QED
            BY <3>1, <3>2, <3>3, Zenon DEF t
    <2>. QED
        BY <1>1, <2>1, <2>3, <2>4, Zenon DEF KeepsOrPicks, PicksTurn
<1>6. CASE ~(up[p] /\ n[q] = 0) /\ p + 1 = Len
    <2>0. nth[q] % Len \in Upstreams
        BY <1>1, ModFacts, LoadBalanceAssumption DEF Upstreams
    <2>1. Pick(q, nth[q] % Len) /\ nth[q] % Len \in Upstreams
        BY <1>6, <2>0, Zenon DEF Scan, Fallback
    <2>2. calm[q] => policy = "first" /\ Healthy = {}
        <3>1. Passed(p + 1) = Healthy
            BY <1>6, PassedFacts, Zenon
        <3>2. calm[q] => policy = "first"
            <4>. SUFFICES ASSUME calm[q], policy # "first" PROVE FALSE
                BY Zenon
            <4>1. n[q] + Cardinality(Passed(p)) < Cardinality(Passed(p)) + (IF up[p] THEN 1 ELSE 0)
                BY <1>2, <1>3, <1>4, <3>1, Zenon
            <4>. QED
                BY <4>1, <1>1, <1>4, <1>6
        <3>. QED
            BY <3>1, <3>2, <1>2, <1>4, <1>6, Zenon
    <2>3. Settles(q)
        BY <1>0, <2>1, <2>2, PickSettles, Zenon
    <2>. QED
        BY <2>1, <2>2, <2>3, Zenon DEF KeepsOrPicks, PicksTurn
<1>7. CASE ~(up[p] /\ n[q] = 0) /\ p + 1 # Len
    <2>. DEFINE k == IF up[p] THEN n[q] - 1 ELSE n[q]
    <2>1. k \in Nat /\ p + 1 < Len
        BY <1>1, <1>7, LoadBalanceAssumption DEF Upstreams
    <2>2. Moves(q, k)
        BY <1>7, Zenon DEF Scan, Moves
    <2>3. k + Cardinality(Passed(p + 1)) = n[q] + Cardinality(Passed(p))
        BY <1>1, <1>4
    <2>4. policy = "first" => k = 0 /\ Passed(p + 1) = Passed(p)
        BY <1>2, <1>4, <1>7, Zenon
    <2>. HIDE DEF k
    <2>5. /\ RequestTypeOK' /\ Others(q) /\ pc'[q] = "scan" /\ idx'[q] = idx[q]
          /\ nth'[q] = nth[q] /\ pos'[q] = p + 1 /\ n'[q] = k /\ UNCHANGED served
        BY <1>0, <2>1, <2>2, MoveValues, Zenon
    <2>6. Settles(q)
        BY <1>0, <1>2, <2>3, <2>4, <2>5, Zenon DEF Settles, LocalOK, CalmOK, t
    <2>. QED
        BY <2>5, <2>6, Zenon DEF KeepsOrPicks
<1>. QED
    BY <1>5, <1>6, <1>7, Zenon

LEMMA DoneSettles ==
    ASSUME TypeOK, RequestInv, NEW q \in Requests, Done(q)
    PROVE  Settles(q)
<1>1. 0 \in Upstreams
    BY UpstreamsFinite
<1>2. served' \in [Upstreams -> Nat]
    BY DEF Done, TypeOK, RequestTypeOK
<1>3. RequestTypeOK'
    BY <1>1, <1>2, Zenon DEF Done, Goto, TypeOK, RequestTypeOK, Labels
<1>4. Others(q) /\ pc'[q] = "idle"
    BY Zenon DEF Done, Goto, TypeOK, RequestTypeOK, Others
<1>. QED
    BY <1>3, <1>4, Zenon DEF Settles, LocalOK, CalmOK
(***************************************************************************)
(* The invariant of a request                                              *)
(***************************************************************************)
\* A step of the proxy for the request q.
Step(q) ==
    \/ Begin(q) \/ FetchAdd(q) \/ StoreZero(q) \/ Draw(q)
    \/ Count(q) \/ Scan(q) \/ Deliver(q) \/ Fail(q)

LEMMA StepSettles ==
    ASSUME TypeOK, RequestInv, NEW q \in Requests, Step(q)
    PROVE  Settles(q)
<1>1. Deliver(q) \/ Fail(q) => Done(q)
    BY Zenon DEF Deliver, Fail
<1>. QED
    BY <1>1, BeginSettles, AdvanceSettles, DrawSettles, CountSettles, ScanSettles, DoneSettles, Zenon
    DEF Step

\* What a step leaves to the others, and to the checker.
LEMMA StepFrame ==
    ASSUME TypeOK, NEW q \in Requests, Step(q)
    PROVE  /\ UNCHANGED <<tracked, policy, up>>
           /\ \A d \in Requests \ {q} :
                  calm'[d] = calm[d] /\ issue'[d] = issue[d] /\ by'[d] = by[d] /\ sent'[d] = sent[d]
<1>1. /\ issue \in [Requests -> BOOLEAN] /\ calm \in [Requests -> BOOLEAN]
      /\ by \in [Requests -> Clients \cup {None}]
      /\ sent \in [Requests -> Upstreams \cup {None, Stale}]
    BY Zenon DEF TypeOK, SessionTypeOK
<1>2. CASE Begin(q)
    BY <1>1, <1>2, Zenon DEF Begin, BeginFirst, BeginRandom, BeginTurn, BeginSticky, session
<1>3. CASE FetchAdd(q) \/ StoreZero(q) \/ Draw(q) \/ Count(q) \/ Scan(q)
    BY <1>3, Zenon DEF FetchAdd, StoreZero, Draw, Count, Scan, session
<1>4. CASE Done(q)
    BY <1>1, <1>4, Zenon DEF Done
<1>. QED
    BY <1>2, <1>3, <1>4, Zenon DEF Step, Deliver, Fail

LEMMA RequestStep ==
    ASSUME TypeOK, RequestInv, NEW q \in Requests, Step(q)
    PROVE  RequestInv'
<1>1. Settles(q) /\ UNCHANGED <<tracked, policy, up>> /\ \A d \in Requests \ {q} : calm'[d] = calm[d]
    BY StepSettles, StepFrame, Zenon
<1>2. Healthy' = Healthy
    BY <1>1, Zenon DEF Healthy
<1>3. ASSUME NEW d \in Requests
      PROVE  /\ LocalOK(pc'[d], nth'[d], pos'[d], n'[d], idx'[d])
             /\ calm'[d] => CalmOK(pc'[d], nth'[d], pos'[d], n'[d], idx'[d])
    <2>1. CASE d = q
        BY <1>1, <2>1, Zenon DEF Settles
    <2>2. CASE d # q
        BY <1>1, <2>2, Zenon DEF Settles, Others, RequestInv
    <2>. QED
        BY <2>1, <2>2, Zenon
<1>. QED
    BY <1>1, <1>2, <1>3, Zenon DEF RequestInv, LocalOK, CalmOK, Passed

\* A flag turns: a request under way is not calm any more.
LEMMA RequestHealth ==
    ASSUME TypeOK, RequestInv, NEW i \in Upstreams, SetHealth(i)
    PROVE  RequestInv'
<1>1. /\ tracked' /\ UNCHANGED <<policy, pc, nth, pos, n, idx>>
      /\ calm' = [q \in Requests |-> pc[q] = "idle"]
    BY Zenon DEF SetHealth, request
<1>2. \A q \in Requests : calm'[q] => pc'[q] = "idle"
    BY <1>1, Zenon
<1>. QED
    BY <1>1, <1>2, Zenon DEF RequestInv, LocalOK, CalmOK

\* A step leaves the cookies alone or ends the request.
LEMMA StepEnds ==
    ASSUME NEW q \in Requests, Step(q)
    PROVE  UNCHANGED session \/ (Done(q) /\ (Deliver(q) \/ Fail(q)))
    BY Zenon DEF Step, Begin, FetchAdd, StoreZero, Draw, Count, Scan, Deliver, Fail

LEMMA StepType ==
    ASSUME TypeOK, RequestInv, NEW q \in Requests, Step(q)
    PROVE  TypeOK'
<1>1. RequestTypeOK' /\ UNCHANGED <<tracked, up>>
    BY StepSettles, StepFrame, Zenon DEF Settles
<1>2. ptr' \in Nat
    <2>1. CASE FetchAdd(q)
        <3>1. ptr' = (ptr + 1) % (MaxUsize + 1) /\ ptr + 1 \in Nat /\ MaxUsize + 1 \in Nat \ {0}
            BY <2>1, LoadBalanceAssumption DEF FetchAdd, TypeOK
        <3>. QED
            BY <3>1, ModFacts, Zenon
    <2>2. CASE ~FetchAdd(q)
        <3>1. ptr' = ptr \/ ptr' = 0
            BY <2>2, Zenon DEF Step, Begin, StoreZero, Draw, Count, Scan, Deliver, Fail, Done
        <3>. QED
            BY <3>1 DEF TypeOK
    <2>. QED
        BY <2>1, <2>2
<1>3. issue' \in [Requests -> BOOLEAN] /\ calm' \in [Requests -> BOOLEAN] /\ window' \in BOOLEAN
    <2>1. CASE Begin(q)
        BY <2>1, Zenon DEF Begin, BeginFirst, BeginRandom, BeginTurn, BeginSticky, TypeOK
    <2>2. CASE FetchAdd(q) \/ StoreZero(q) \/ Draw(q) \/ Count(q) \/ Scan(q)
        BY <2>2, Zenon DEF FetchAdd, StoreZero, Draw, Count, Scan, TypeOK
    <2>3. CASE Done(q)
        BY <2>3, Zenon DEF Done, TypeOK
    <2>. QED
        BY <2>1, <2>2, <2>3, Zenon DEF Step, Deliver, Fail
<1>4. SessionTypeOK'
    <2>1. CASE UNCHANGED session
        BY <2>1, Zenon DEF session, SessionTypeOK, TypeOK
    <2>2. CASE Done(q) /\ (Deliver(q) \/ Fail(q))
        <3>1. by' \in [Requests -> Clients \cup {None}] /\ sent' \in [Requests -> Upstreams \cup {None, Stale}]
            BY <2>2, Zenon DEF Done, TypeOK, SessionTypeOK
        <3>2. idx[q] \in Upstreams
            BY Zenon DEF TypeOK, RequestTypeOK
        <3>3. CASE Fail(q)
            BY <3>1, <3>3, Zenon DEF Fail, TypeOK, SessionTypeOK
        <3>4. CASE Deliver(q)
            BY <3>1, <3>2, <3>4, Zenon DEF Deliver, TypeOK, SessionTypeOK
        <3>. QED
            BY <2>2, <3>3, <3>4, Zenon
    <2>. QED
        BY <2>1, <2>2, StepEnds, Zenon
<1>. QED
    BY <1>1, <1>2, <1>3, <1>4, Zenon DEF TypeOK

LEMMA ExpireKeeps ==
    ASSUME TypeOK, RequestInv, NEW c \in Clients, Expire(c)
    PROVE  TypeOK' /\ RequestInv'
<1>1. UNCHANGED <<tracked, policy, up, ptr, pc, nth, pos, n, idx, issue, by, sent, calm, served, window>>
    BY Zenon DEF Expire, request
<1>2. SessionTypeOK'
    BY <1>1, Zenon DEF Expire, TypeOK, SessionTypeOK
<1>3. RequestInv'
    BY <1>1, ZenonT(60) DEF RequestInv, LocalOK, CalmOK, Passed, Healthy
<1>. QED
    BY <1>1, <1>2, <1>3, Zenon DEF TypeOK, RequestTypeOK

\* A request that is sent is not dispatched yet.
LEMMA SendKeeps ==
    ASSUME TypeOK, RequestInv, NEW q \in Requests, NEW c \in Clients, Send(q, c)
    PROVE  TypeOK' /\ RequestInv'
<1>1. /\ UNCHANGED <<tracked, policy, up, ptr, nth, pos, n, idx, issue, cookie, last, calm, served, window>>
      /\ pc' = [pc EXCEPT ![q] = "sent"] /\ by' = [by EXCEPT ![q] = c]
      /\ sent' = [sent EXCEPT ![q] = cookie[c]]
    BY Zenon DEF Send, Goto
<1>2. SessionTypeOK'
    BY <1>1, Zenon DEF TypeOK, SessionTypeOK
<1>3. pc' \in [Requests -> Labels]
    BY <1>1, Zenon DEF TypeOK, RequestTypeOK, Labels
<1>4. \A d \in Requests : pc'[d] = IF d = q THEN "sent" ELSE pc[d]
    BY <1>1, Zenon DEF TypeOK, RequestTypeOK
<1>5. Healthy' = Healthy
    BY <1>1, Zenon DEF Healthy
<1>6. ASSUME NEW d \in Requests
      PROVE  /\ LocalOK(pc'[d], nth[d], pos[d], n[d], idx[d])
             /\ calm[d] => CalmOK(pc'[d], nth[d], pos[d], n[d], idx[d])
    <2>1. CASE d = q
        BY <1>4, <2>1, Zenon DEF LocalOK, CalmOK
    <2>2. CASE d # q
        BY <1>4, <2>2, Zenon DEF RequestInv
    <2>. QED
        BY <2>1, <2>2, Zenon
<1>7. RequestInv'
    BY <1>1, <1>5, <1>6, ZenonT(60) DEF RequestInv, LocalOK, CalmOK, Passed
<1>. QED
    BY <1>1, <1>2, <1>3, <1>7, Zenon DEF TypeOK, RequestTypeOK

LEMMA HealthType ==
    ASSUME TypeOK, NEW i \in Upstreams, SetHealth(i)
    PROVE  TypeOK'
<1>1. UNCHANGED <<tracked, policy, ptr, pc, nth, pos, n, idx, issue, by, sent, cookie, last>>
    BY Zenon DEF SetHealth, request, session
<1>2. /\ up' \in [Upstreams -> BOOLEAN] /\ calm' \in [Requests -> BOOLEAN]
      /\ window' \in BOOLEAN
    BY Zenon DEF SetHealth, TypeOK
<1>3. served' \in [Upstreams -> Nat]
    BY Zenon DEF SetHealth
<1>. QED
    BY <1>1, <1>2, <1>3, Zenon DEF TypeOK, RequestTypeOK, SessionTypeOK
(***************************************************************************)
(* The sticky cookie                                                       *)
(***************************************************************************)
LEMMA StickyBegin ==
    ASSUME TypeOK, RequestInv, NEW q \in Requests, SentOK(q), Begin(q)
    PROVE  SentOK(q)'
<1>0. pc[q] = "sent" /\ UNCHANGED <<tracked, policy, up, by, sent>> /\ Healthy' = Healthy
    BY Zenon DEF Begin, Healthy, session
<1>1. CASE BeginFirst(q) \/ BeginRandom(q)
    BY <1>0, <1>1, Zenon DEF BeginFirst, BeginRandom, SentOK
<1>2. CASE BeginTurn(q)
    <2>1. issue'[q] = (policy = "sticky")
        BY <1>2, Zenon DEF BeginTurn, TypeOK
    <2>2. policy = "sticky" => sent[q] \notin Healthy
        BY <1>2, Zenon DEF BeginTurn
    <2>. QED
        BY <1>0, <2>1, <2>2, Zenon DEF SentOK
<1>3. CASE BeginSticky(q)
    <2>1. Pick(q, sent[q]) /\ sent[q] \in Upstreams /\ policy = "sticky"
        BY <1>3, HealthyFinite, Zenon DEF BeginSticky
    <2>2. pc'[q] = "picked" /\ idx'[q] = sent[q]
        BY <2>1, PickValues, Zenon
    <2>. QED
        BY <1>0, <2>1, <2>2, Zenon DEF SentOK
<1>. QED
    BY <1>1, <1>2, <1>3, Zenon DEF Begin

LEMMA StickyWalk ==
    ASSUME NEW q \in Requests, SentOK(q),
           FetchAdd(q) \/ StoreZero(q) \/ Draw(q) \/ Count(q) \/ Scan(q)
    PROVE  SentOK(q)'
<1>1. /\ pc[q] \notin {"idle", "sent", "picked"}
      /\ UNCHANGED <<tracked, policy, up, issue, by, sent, calm>>
    BY Zenon DEF FetchAdd, StoreZero, Draw, Count, Scan, session
<1>2. Healthy' = Healthy
    BY <1>1, Zenon DEF Healthy
<1>. QED
    BY <1>1, <1>2, Zenon DEF SentOK

LEMMA StickyDone ==
    ASSUME TypeOK, NEW q \in Requests, Done(q)
    PROVE  SentOK(q)'
<1>1. pc'[q] = "idle" /\ issue'[q] = FALSE /\ sent'[q] = None
    BY Zenon DEF Done, Goto, TypeOK, RequestTypeOK, SessionTypeOK
<1>. QED
    BY <1>1, Zenon DEF SentOK

\* A response: the client's cookie is the new one, or it is the one the request has
\* carried and followed, or the response has crossed a change of it.
LEMMA StickyHeld ==
    ASSUME TypeOK, NEW q \in Requests, SentOK(q), Deliver(q), NEW c \in Clients, HeldOK(c)
    PROVE  HeldOK(c)'
<1>1. /\ UNCHANGED policy /\ pc[q] = "picked"
      /\ last' = [last EXCEPT ![by[q]] = IF Crosses(q) THEN None ELSE idx[q]]
      /\ cookie' = IF issue[q] THEN [cookie EXCEPT ![by[q]] = idx[q]] ELSE cookie
    BY Zenon DEF Deliver, Done
<1>2. /\ by[q] \in Clients
      /\ policy # "sticky" => ~issue[q]
      /\ policy = "sticky" /\ ~issue[q] => idx[q] = sent[q]
    BY <1>1, Zenon DEF SentOK
<1>3. CASE c # by[q]
    <2>1. last'[c] = last[c] /\ cookie'[c] = cookie[c]
        BY <1>1, <1>3, Zenon DEF TypeOK, SessionTypeOK
    <2>. QED
        BY <1>1, <2>1, Zenon DEF HeldOK
<1>4. CASE c = by[q]
    <2>1. last'[c] = IF Crosses(q) THEN None ELSE idx[q]
        BY <1>1, <1>4, Zenon DEF TypeOK, SessionTypeOK
    <2>2. cookie'[c] = IF issue[q] THEN idx[q] ELSE cookie[c]
        BY <1>1, <1>4, Zenon DEF TypeOK, SessionTypeOK
    <2>3. Crosses(q) <=> ~issue[q] /\ sent[q] # cookie[c]
        BY <1>4, Zenon DEF Crosses
    <2>. QED
        BY <1>1, <1>2, <2>1, <2>2, <2>3, Zenon DEF HeldOK
<1>. QED
    BY <1>3, <1>4, Zenon

LEMMA StickyStep ==
    ASSUME TypeOK, RequestInv, StickyInv, NEW q \in Requests, Step(q)
    PROVE  StickyInv'
<1>1. /\ UNCHANGED <<policy, up>> /\ Others(q)
      /\ \A d \in Requests \ {q} :
             calm'[d] = calm[d] /\ issue'[d] = issue[d] /\ by'[d] = by[d] /\ sent'[d] = sent[d]
    BY StepFrame, StepSettles, Zenon DEF Settles
<1>2. Healthy' = Healthy
    BY <1>1, Zenon DEF Healthy
<1>3. ASSUME NEW d \in Requests \ {q} PROVE SentOK(d)'
    <2>1. /\ pc'[d] = pc[d] /\ idx'[d] = idx[d] /\ calm'[d] = calm[d]
          /\ issue'[d] = issue[d] /\ by'[d] = by[d] /\ sent'[d] = sent[d]
        BY <1>1, Zenon DEF Others
    <2>2. SentOK(d)
        BY Zenon DEF StickyInv
    <2>. QED
        BY <1>1, <1>2, <2>1, <2>2, Zenon DEF SentOK
<1>4. SentOK(q)
    BY Zenon DEF StickyInv
<1>5. SentOK(q)'
    <2>1. CASE Begin(q)
        BY <1>4, <2>1, StickyBegin, Zenon
    <2>2. CASE FetchAdd(q) \/ StoreZero(q) \/ Draw(q) \/ Count(q) \/ Scan(q)
        BY <1>4, <2>2, StickyWalk, Zenon
    <2>3. CASE Deliver(q) \/ Fail(q)
        BY <2>3, StickyDone, Zenon DEF Deliver, Fail
    <2>. QED
        BY <2>1, <2>2, <2>3, Zenon DEF Step
<1>6. ASSUME NEW c \in Clients PROVE HeldOK(c)'
    <2>1. HeldOK(c)
        BY Zenon DEF StickyInv
    <2>2. CASE UNCHANGED session \/ Fail(q)
        <3>1. UNCHANGED <<cookie, last>>
            BY <2>2, Zenon DEF session, Fail
        <3>. QED
            BY <1>1, <2>1, <3>1, Zenon DEF HeldOK
    <2>3. CASE Deliver(q)
        BY <1>4, <2>1, <2>3, StickyHeld, Zenon
    <2>. QED
        BY <2>2, <2>3, StepEnds, Zenon
<1>. QED
    BY <1>3, <1>5, <1>6, Zenon DEF StickyInv

LEMMA StickySend ==
    ASSUME TypeOK, StickyInv, NEW q \in Requests, NEW c \in Clients, Send(q, c)
    PROVE  StickyInv'
<1>0. UNCHANGED <<policy, up, idx, issue, cookie, last, calm>>
    BY Zenon DEF Send
<1>1. /\ pc' = [pc EXCEPT ![q] = "sent"] /\ by' = [by EXCEPT ![q] = c]
      /\ sent' = [sent EXCEPT ![q] = cookie[c]]
    BY Zenon DEF Send, Goto
<1>2. Healthy' = Healthy
    BY <1>0, Zenon DEF Healthy
<1>3. /\ pc'[q] = "sent" /\ by'[q] = c /\ sent'[q] = cookie[c]
      /\ \A d \in Requests \ {q} : pc'[d] = pc[d] /\ by'[d] = by[d] /\ sent'[d] = sent[d]
    BY <1>1, Zenon DEF TypeOK, RequestTypeOK, SessionTypeOK
<1>4. HeldOK(c) /\ SentOK(q)
    BY Zenon DEF StickyInv
<1>5. SentOK(q)'
    BY <1>0, <1>3, <1>4, Zenon DEF SentOK, HeldOK
<1>6. ASSUME NEW d \in Requests \ {q} PROVE SentOK(d)'
    <2>1. SentOK(d)
        BY Zenon DEF StickyInv
    <2>2. pc'[d] = pc[d] /\ by'[d] = by[d] /\ sent'[d] = sent[d]
        BY <1>3, Zenon
    <2>. QED
        BY <1>0, <1>2, <2>1, <2>2, Zenon DEF SentOK
<1>7. \A e \in Clients : HeldOK(e)'
    BY <1>0, Zenon DEF StickyInv, HeldOK
<1>. QED
    BY <1>5, <1>6, <1>7, Zenon DEF StickyInv

LEMMA StickyExpire ==
    ASSUME TypeOK, StickyInv, NEW c \in Clients, Expire(c)
    PROVE  StickyInv'
<1>1. /\ UNCHANGED <<policy, up, pc, idx, issue, by, sent, calm>>
      /\ cookie' = [cookie EXCEPT ![c] = None] /\ last' = [last EXCEPT ![c] = None]
    BY Zenon DEF Expire, request
<1>2. Healthy' = Healthy
    BY <1>1, Zenon DEF Healthy
<1>3. cookie'[c] = None /\ last'[c] = None
    BY <1>1, Zenon DEF TypeOK, SessionTypeOK
<1>4. \A d \in Clients \ {c} : cookie'[d] = cookie[d] /\ last'[d] = last[d]
    BY <1>1, Zenon DEF TypeOK, SessionTypeOK
<1>5. \A d \in Clients : HeldOK(d)'
    BY <1>1, <1>3, <1>4, Zenon DEF StickyInv, HeldOK
<1>6. \A q \in Requests : SentOK(q)'
    BY <1>1, <1>2, Zenon DEF StickyInv, SentOK
<1>. QED
    BY <1>5, <1>6, Zenon DEF StickyInv

LEMMA StickyHealth ==
    ASSUME StickyInv, NEW i \in Upstreams, SetHealth(i)
    PROVE  StickyInv'
<1>1. /\ UNCHANGED <<policy, pc, idx, issue, by, sent, cookie, last>>
      /\ \A q \in Requests : calm'[q] => pc[q] = "idle"
    BY Zenon DEF SetHealth, request, session
<1>2. \A q \in Requests : SentOK(q)'
    BY <1>1, Zenon DEF StickyInv, SentOK
<1>3. \A c \in Clients : HeldOK(c)'
    BY <1>1, Zenon DEF StickyInv, HeldOK
<1>. QED
    BY <1>2, <1>3, Zenon DEF StickyInv
(***************************************************************************)
(* The turns of round robin                                                *)
(***************************************************************************)
\* Pending and TurnsFrom after a step that turns no flag.
PendingNext(r) == {q \in Requests : pc'[q] \in {"count", "scan"} /\ nth'[q] % M = r}
TurnsNext(w) ==
    \A i \in Available :
        served'[i] + Cardinality(PendingNext(Rank(i))) =
            LapOf(ptr', Rank(i), M) - LapOf(w, Rank(i), M)

LEMMA NextTurns ==
    ASSUME up' = up, NEW w \in Nat, TurnsNext(w)
    PROVE  TurnsFrom(w)'
<1>1. Available' = Available
    BY Zenon DEF Available, Healthy
<1>2. M' = M
    BY <1>1, Zenon DEF M
<1>3. \A i : Rank(i)' = Rank(i)
    BY <1>1, Zenon DEF Rank
<1>4. \A i : Pending(Rank(i))' = PendingNext(Rank(i))
    BY <1>2, <1>3, Zenon DEF Pending, PendingNext
<1>5. \A i : /\ LapOf(ptr, Rank(i), M)' = LapOf(ptr', Rank(i), M)
             /\ LapOf(w, Rank(i), M)' = LapOf(w, Rank(i), M)
    BY <1>2, <1>3, Zenon DEF LapOf
<1>. QED
    BY <1>1, <1>4, <1>5, Zenon DEF TurnsFrom, TurnsNext

LEMMA PendingFinite ==
    \A r : IsFiniteSet(Pending(r)) /\ Cardinality(Pending(r)) \in Nat
<1>1. \A r : Pending(r) \in SUBSET Requests
    BY Zenon DEF Pending
<1>. QED
    BY <1>1, RequestsAssumption, FS_Subset, FS_CardinalityType, Zenon

\* A step that draws no turn and picks nothing.
LEMMA TurnsKept ==
    ASSUME NEW q \in Requests, Others(q), NEW w \in Nat, TurnsFrom(w), UNCHANGED <<ptr, served>>,
           \/ pc[q] \notin {"count", "scan"} /\ pc'[q] \notin {"count", "scan"}
           \/ /\ pc[q] \in {"count", "scan"} /\ pc'[q] \in {"count", "scan"}
              /\ nth'[q] = nth[q]
    PROVE  TurnsNext(w)
<1>1. \A r : PendingNext(r) = Pending(r)
    <2>1. \A d \in Requests : /\ pc'[d] \in {"count", "scan"} <=> pc[d] \in {"count", "scan"}
                              /\ pc[d] \in {"count", "scan"} => nth'[d] = nth[d]
        BY Zenon DEF Others
    <2>. QED
        BY <2>1, Zenon DEF Pending, PendingNext
<1>. QED
    BY <1>1, Zenon DEF TurnsFrom, TurnsNext

\* A request draws the next turn.
LEMMA TurnsDrawn ==
    ASSUME NEW q \in Requests, Others(q), NEW w \in Nat, TurnsFrom(w), UNCHANGED served,
           ptr \in Nat, ptr' = ptr + 1, served \in [Upstreams -> Nat],
           pc[q] \notin {"count", "scan"}, pc'[q] = "count", nth'[q] = ptr
    PROVE  TurnsNext(w)
<1>1. ASSUME NEW r
      PROVE  Cardinality(PendingNext(r)) = Cardinality(Pending(r)) + (IF ptr % M = r THEN 1 ELSE 0)
    <2>1. q \notin Pending(r)
        BY Zenon DEF Pending
    <2>2. \A d \in Requests \ {q} : d \in PendingNext(r) <=> d \in Pending(r)
        BY Zenon DEF Pending, PendingNext, Others
    <2>3. q \in PendingNext(r) <=> ptr % M = r
        BY Zenon DEF PendingNext
    <2>4. PendingNext(r) \subseteq Requests /\ Pending(r) \subseteq Requests
        BY Zenon DEF Pending, PendingNext
    <2>5. CASE ptr % M = r
        <3>1. PendingNext(r) = Pending(r) \cup {q}
            BY <2>1, <2>2, <2>3, <2>4, <2>5, Zenon
        <3>2. Cardinality(Pending(r) \cup {q}) = Cardinality(Pending(r)) + 1
            BY <2>1, PendingFinite, FS_AddElement, Zenon
        <3>. QED
            BY <3>1, <3>2, <2>5, Zenon
    <2>6. CASE ptr % M # r
        <3>0. \A d : d \in PendingNext(r) <=> d \in Pending(r)
            BY <2>1, <2>2, <2>3, <2>4, <2>6, Zenon
        <3>1. PendingNext(r) = Pending(r)
            BY <3>0, Zenon
        <3>. QED
            BY <3>1, <2>6, PendingFinite
    <2>. QED
        BY <2>5, <2>6, Zenon
<1>2. ASSUME NEW i \in Available
      PROVE  served'[i] + Cardinality(PendingNext(Rank(i))) =
                 LapOf(ptr', Rank(i), M) - LapOf(w, Rank(i), M)
    <2>. DEFINE r == Rank(i)
    <2>1. r \in Nat /\ r < M /\ M \in Nat \ {0}
        BY RankFacts, AvailableFinite, Zenon
    <2>2. LapOf(ptr + 1, r, M) = LapOf(ptr, r, M) + (IF ptr % M = r THEN 1 ELSE 0)
        BY <2>1, LapNext, ZenonT(60)
    <2>3. served[i] + Cardinality(Pending(r)) = LapOf(ptr, r, M) - LapOf(w, r, M)
        BY Zenon DEF TurnsFrom
    <2>4. LapOf(ptr, r, M) \in Nat /\ LapOf(w, r, M) \in Nat
        BY <2>1, LapType, Zenon
    <2>5. served[i] \in Nat /\ Cardinality(Pending(r)) \in Nat
        BY AvailableFinite, PendingFinite, Zenon
    <2>6. Cardinality(PendingNext(r)) = Cardinality(Pending(r)) + (IF ptr % M = r THEN 1 ELSE 0)
        BY <1>1, Zenon
    <2>. HIDE DEF r
    <2>7. served[i] + Cardinality(PendingNext(r)) = LapOf(ptr + 1, r, M) - LapOf(w, r, M)
        BY <2>2, <2>3, <2>4, <2>5, <2>6
    <2>. QED
        BY <2>7, Zenon DEF r
<1>. QED
    BY <1>2, Zenon DEF TurnsNext

\* A request picks the upstream of its turn.
LEMMA TurnsPicked ==
    ASSUME NEW q \in Requests, Others(q), NEW w \in Nat, TurnsFrom(w), UNCHANGED ptr,
           ptr \in Nat, served \in [Upstreams -> Nat],
           pc[q] \in {"count", "scan"}, pc'[q] = "picked",
           NEW j \in Available, Rank(j) = nth[q] % M, served' = [served EXCEPT ![j] = @ + 1]
    PROVE  TurnsNext(w)
<1>1. ASSUME NEW i \in Available
      PROVE  served'[i] + Cardinality(PendingNext(Rank(i))) = served[i] + Cardinality(Pending(Rank(i)))
    <2>. DEFINE r == Rank(i)
    <2>1. q \in Pending(r) <=> i = j
        BY RankFacts, Zenon DEF Pending
    <2>2. PendingNext(r) = Pending(r) \ {q}
        BY Zenon DEF Pending, PendingNext, Others
    <2>3. served[i] \in Nat /\ j \in Upstreams /\ i \in Upstreams
        BY AvailableFinite, Zenon
    <2>4. Cardinality(Pending(r)) \in Nat /\ IsFiniteSet(Pending(r))
        BY PendingFinite, Zenon
    <2>. HIDE DEF r
    <2>5. CASE i = j
        <3>0. Cardinality(Pending(r) \ {q}) =
                  IF q \in Pending(r) THEN Cardinality(Pending(r)) - 1 ELSE Cardinality(Pending(r))
            BY <2>4, FS_RemoveElement, Zenon
        <3>1. Cardinality(PendingNext(r)) = Cardinality(Pending(r)) - 1
            BY <2>1, <2>2, <2>5, <3>0, Zenon
        <3>2. served'[i] = served[i] + 1
            BY <2>3, <2>5, Zenon
        <3>. QED
            BY <3>1, <3>2, <2>3, <2>4 DEF r
    <2>6. CASE i # j
        <3>1. PendingNext(r) = Pending(r) /\ served'[i] = served[i]
            BY <2>1, <2>2, <2>3, <2>6, Zenon
        <3>. QED
            BY <3>1, Zenon DEF r
    <2>. QED
        BY <2>5, <2>6, Zenon
<1>. QED
    BY <1>1, Zenon DEF TurnsFrom, TurnsNext

\* Without health state a request draws and picks in one step.
LEMMA TurnsDirect ==
    ASSUME NEW q \in Requests, Others(q), NEW w \in Nat, TurnsFrom(w), ptr \in Nat, ptr' = ptr + 1,
           served \in [Upstreams -> Nat],
           pc[q] \notin {"count", "scan"}, pc'[q] = "picked",
           NEW j \in Available, Rank(j) = ptr % M, served' = [served EXCEPT ![j] = @ + 1]
    PROVE  TurnsNext(w)
<1>1. \A r : PendingNext(r) = Pending(r)
    <2>1. \A d \in Requests : /\ pc'[d] \in {"count", "scan"} <=> pc[d] \in {"count", "scan"}
                              /\ pc[d] \in {"count", "scan"} => nth'[d] = nth[d]
        BY Zenon DEF Others
    <2>. QED
        BY <2>1, Zenon DEF Pending, PendingNext
<1>2. ASSUME NEW i \in Available
      PROVE  served'[i] + Cardinality(Pending(Rank(i))) =
                 LapOf(ptr', Rank(i), M) - LapOf(w, Rank(i), M)
    <2>. DEFINE r == Rank(i)
    <2>1. r \in Nat /\ r < M /\ M \in Nat \ {0}
        BY RankFacts, AvailableFinite, Zenon
    <2>2. LapOf(ptr + 1, r, M) = LapOf(ptr, r, M) + (IF ptr % M = r THEN 1 ELSE 0)
        BY <2>1, LapNext, Zenon
    <2>3. served[i] + Cardinality(Pending(r)) = LapOf(ptr, r, M) - LapOf(w, r, M)
        BY Zenon DEF TurnsFrom
    <2>4. LapOf(ptr, r, M) \in Nat /\ LapOf(w, r, M) \in Nat
        BY <2>1, LapType, Zenon
    <2>5. served[i] \in Nat /\ Cardinality(Pending(r)) \in Nat
        BY AvailableFinite, PendingFinite, Zenon
    <2>6. ptr % M = r <=> i = j
        BY RankFacts, Zenon
    <2>7. i \in Upstreams /\ j \in Upstreams
        BY AvailableFinite, Zenon
    <2>8. served'[i] = IF i = j THEN served[i] + 1 ELSE served[i]
        BY <2>7, Zenon
    <2>. HIDE DEF r
    <2>9. CASE i = j
        <3>1. served'[i] = served[i] + 1 /\ LapOf(ptr + 1, r, M) = LapOf(ptr, r, M) + 1
            BY <2>2, <2>6, <2>8, <2>9, Zenon
        <3>. QED
            BY <3>1, <2>3, <2>4, <2>5 DEF r
    <2>10. CASE i # j
        <3>1. served'[i] = served[i] /\ LapOf(ptr + 1, r, M) = LapOf(ptr, r, M) + 0
            BY <2>2, <2>6, <2>8, <2>10, Zenon
        <3>. QED
            BY <3>1, <2>3, <2>4, <2>5 DEF r
    <2>. QED
        BY <2>9, <2>10, Zenon
<1>. QED
    BY <1>1, <1>2, Zenon DEF TurnsNext
\* A window that begins: nothing is under way and nothing has been picked.
Quiet ==
    /\ \A q \in Requests : pc[q] = "idle"
    /\ served = [i \in Upstreams |-> 0] /\ ptr \in Nat

LEMMA TurnsBegin == Quiet => \E w \in Nat : TurnsFrom(w)
<1>. SUFFICES ASSUME Quiet, NEW i \in Available
              PROVE  served[i] + Cardinality(Pending(Rank(i))) =
                         LapOf(ptr, Rank(i), M) - LapOf(ptr, Rank(i), M)
    BY Zenon DEF TurnsFrom, Quiet
<1>1. served[i] = 0
    BY AvailableFinite, Zenon DEF Quiet
<1>2. Pending(Rank(i)) = {}
    BY Zenon DEF Quiet, Pending
<1>3. Cardinality(Pending(Rank(i))) = 0
    BY <1>2, FS_EmptySet, Zenon
<1>4. LapOf(ptr, Rank(i), M) \in Nat
    BY RankFacts, AvailableFinite, LapType, Zenon DEF Quiet
<1>. QED
    BY <1>1, <1>3, <1>4

LEMMA QuietNext ==
    ASSUME Quiet'
    PROVE  (\E w \in Nat : TurnsFrom(w))'
<1>1. (Quiet => \E w \in Nat : TurnsFrom(w))'
    BY TurnsBegin, PTL
<1>. QED
    BY <1>1, Zenon

\* fetch_and_advance in a window that stays open.
LEMMA TurnsAdvance ==
    ASSUME TypeOK, RequestInv, WindowInv, NEW q \in Requests, FetchAdd(q), window',
           policy = "round_robin", NEW w \in Nat, TurnsFrom(w)
    PROVE  TurnsNext(w)
<1>1. /\ ptr \in Nat /\ ptr < MaxUsize - 1 /\ window /\ PickNth(q, ptr)
      /\ ptr' = (ptr + 1) % (MaxUsize + 1) /\ pc[q] = "advance"
    <2>1. window /\ ptr < MaxUsize - 1
        BY Zenon DEF FetchAdd
    <2>2. ptr \in Nat /\ ~(ptr >= MaxUsize - 1)
        BY <2>1, LoadBalanceAssumption DEF TypeOK
    <2>. QED
        BY <2>1, <2>2, Zenon DEF FetchAdd
<1>2. ptr' = ptr + 1
    <2>1. ptr + 1 \in Nat /\ MaxUsize + 1 \in Nat \ {0} /\ ptr + 1 < MaxUsize + 1
        BY <1>1, LoadBalanceAssumption
    <2>. QED
        BY <1>1, <2>1, ModSmall, Zenon
<1>3. Others(q) /\ served \in [Upstreams -> Nat]
    BY StepSettles, Zenon DEF Step, Settles, TypeOK, RequestTypeOK
<1>4. CASE tracked
    <2>1. Walk(q, "count", ptr, 0)
        BY <1>1, <1>4, Zenon DEF PickNth
    <2>2. pc'[q] = "count" /\ nth'[q] = ptr /\ UNCHANGED served
        BY <1>1, <2>1, WalkValues, Zenon DEF Labels
    <2>. QED
        BY <1>1, <1>2, <1>3, <2>2, TurnsDrawn, Zenon
<1>5. CASE ~tracked
    <2>. DEFINE j == ptr % Len
    <2>1. Pick(q, j) /\ j \in Upstreams
        BY <1>1, <1>5, ModFacts, LoadBalanceAssumption DEF PickNth, Upstreams
    <2>2. Healthy = Upstreams
        BY <1>5, Zenon DEF RequestInv, Healthy
    <2>3. j \in Available /\ Rank(j) = ptr % M
        BY <2>1, <2>2, AvailableFinite, RankFacts, Zenon
    <2>. HIDE DEF j
    <2>4. pc'[q] = "picked" /\ served' = [served EXCEPT ![j] = @ + 1]
        BY <1>1, <2>1, PickValues, Zenon DEF Pick
    <2>. QED
        BY <1>1, <1>2, <1>3, <2>3, <2>4, TurnsDirect, Zenon
<1>. QED
    BY <1>4, <1>5, Zenon

LEMMA TurnsWalk ==
    ASSUME TypeOK, RequestInv, WindowInv, NEW q \in Requests, Count(q) \/ Scan(q), window,
           policy = "round_robin", NEW w \in Nat, TurnsFrom(w)
    PROVE  TurnsNext(w)
<1>1. pc[q] \in {"count", "scan"} /\ UNCHANGED ptr /\ ptr \in Nat
    BY Zenon DEF Count, Scan, TypeOK
<1>2. calm[q]
    BY <1>1, Zenon DEF WindowInv
<1>3. Others(q) /\ served \in [Upstreams -> Nat]
    BY StepSettles, Zenon DEF Step, Settles, TypeOK, RequestTypeOK
<1>4. KeepsOrPicks(q)
    BY CountSettles, ScanSettles, Zenon
<1>5. CASE PicksTurn(q)
    <2>1. PICK i \in Upstreams : Pick(q, i) /\ i \in Available /\ Rank(i) = nth[q] % M
        BY <1>2, <1>5, Zenon DEF PicksTurn
    <2>2. pc'[q] = "picked" /\ served' = [served EXCEPT ![i] = @ + 1]
        BY <2>1, PickValues, Zenon DEF Pick
    <2>. QED
        BY <1>1, <1>3, <2>1, <2>2, TurnsPicked, Zenon
<1>6. CASE pc'[q] \in {"count", "scan"} /\ nth'[q] = nth[q] /\ UNCHANGED served
    BY <1>1, <1>3, <1>6, TurnsKept, Zenon
<1>. QED
    BY <1>4, <1>5, <1>6, Zenon DEF KeepsOrPicks

\* The window opens again, or the last step of a request leaves it open.
LEMMA TurnsDone ==
    ASSUME TypeOK, RequestInv, WindowInv, NEW q \in Requests, Deliver(q) \/ Fail(q), window',
           policy = "round_robin"
    PROVE  (\E w \in Nat : TurnsFrom(w))'
<1>1. Done(q) /\ UNCHANGED <<up, ptr>> /\ ptr \in Nat
    BY Zenon DEF Deliver, Fail, Done, TypeOK
<1>2. pc[q] = "picked" /\ pc'[q] = "idle"
    BY <1>1, Zenon DEF Done, Goto, TypeOK, RequestTypeOK
<1>3. Others(q)
    BY <1>1, DoneSettles, Zenon DEF Settles
<1>4. CASE window
    <2>1. UNCHANGED served
        BY <1>1, <1>4, Zenon DEF Done
    <2>2. PICK w \in Nat : TurnsFrom(w)
        BY <1>4, Zenon DEF WindowInv
    <2>3. TurnsNext(w)
        BY <1>1, <1>2, <1>3, <2>1, <2>2, TurnsKept, Zenon
    <2>4. TurnsFrom(w)'
        BY <1>1, <2>3, NextTurns, Zenon
    <2>. QED
        BY <2>4, Zenon
<1>5. CASE ~window
    <2>1. served' = [i \in Upstreams |-> 0] /\ \A d \in Requests \ {q} : pc[d] = "idle"
        BY <1>1, <1>5, Zenon DEF Done
    <2>2. Quiet'
        BY <1>1, <1>2, <1>3, <2>1, Zenon DEF Quiet, Others
    <2>. QED
        BY <2>2, QuietNext, Zenon
<1>. QED
    BY <1>4, <1>5, Zenon DEF TypeOK
LEMMA WindowStep ==
    ASSUME TypeOK, RequestInv, WindowInv, NEW q \in Requests, Step(q)
    PROVE  WindowInv'
<1>. SUFFICES ASSUME window' PROVE WindowInv'
    BY Zenon DEF WindowInv
<1>0. /\ Others(q) /\ UNCHANGED <<policy, up>> /\ pc \in [Requests -> Labels]
      /\ \A d \in Requests \ {q} : calm'[d] = calm[d]
    BY StepSettles, StepFrame, Zenon DEF Settles, TypeOK, RequestTypeOK
<1>1. CASE Begin(q)
    <2>1. window /\ calm'[q] /\ UNCHANGED ptr /\ pc[q] = "sent"
        BY <1>1, Zenon DEF Begin, TypeOK
    <2>2. pc'[q] # "reset"
        BY <1>0, <1>1, Zenon
        DEF Begin, BeginFirst, BeginRandom, BeginTurn, BeginSticky, Pick, Walk, Goto
    <2>3. \A d \in Requests : pc'[d] # "reset" /\ (pc'[d] \notin {"idle", "sent"} => calm'[d])
        BY <1>0, <2>1, <2>2, Zenon DEF WindowInv, Others
    <2>4. ASSUME policy = "round_robin" PROVE (\E w \in Nat : TurnsFrom(w))'
        <3>1. Walk(q, "advance", 0, 0)
            BY <1>1, <2>4, Zenon DEF Begin, BeginFirst, BeginRandom, BeginTurn, BeginSticky
        <3>2. pc'[q] = "advance" /\ UNCHANGED served
            BY <3>1, WalkValues, Zenon DEF Labels
        <3>3. PICK w \in Nat : TurnsFrom(w)
            BY <2>1, <2>4, Zenon DEF WindowInv
        <3>4. TurnsNext(w)
            BY <1>0, <2>1, <3>2, <3>3, TurnsKept, Zenon
        <3>5. TurnsFrom(w)'
            BY <1>0, <3>4, NextTurns, Zenon
        <3>. QED
            BY <3>5, Zenon
    <2>. QED
        BY <1>0, <2>3, <2>4, Zenon DEF WindowInv
<1>2. CASE FetchAdd(q)
    <2>1. window /\ ptr < MaxUsize - 1
        BY <1>2, Zenon DEF FetchAdd
    <2>2. PickNth(q, ptr) /\ UNCHANGED calm /\ pc[q] = "advance"
        <3>1. ~(ptr >= MaxUsize - 1)
            BY <2>1, LoadBalanceAssumption DEF TypeOK
        <3>. QED
            BY <1>2, <3>1, Zenon DEF FetchAdd
    <2>3. pc'[q] # "reset"
        BY <1>0, <2>2, Zenon DEF PickNth, Pick, Walk, Goto
    <2>4. \A d \in Requests : pc'[d] # "reset" /\ (pc'[d] \notin {"idle", "sent"} => calm'[d])
        BY <1>0, <2>1, <2>2, <2>3, Zenon DEF WindowInv, Others
    <2>5. ASSUME policy = "round_robin" PROVE (\E w \in Nat : TurnsFrom(w))'
        <3>1. PICK w \in Nat : TurnsFrom(w)
            BY <2>1, <2>5, Zenon DEF WindowInv
        <3>2. TurnsNext(w)
            BY <1>2, <2>5, <3>1, TurnsAdvance, Zenon
        <3>3. TurnsFrom(w)'
            BY <1>0, <3>2, NextTurns, Zenon
        <3>. QED
            BY <3>3, Zenon
    <2>. QED
        BY <1>0, <2>4, <2>5, Zenon DEF WindowInv
<1>3. ASSUME StoreZero(q) PROVE FALSE
    BY <1>3, Zenon DEF StoreZero, WindowInv
<1>4. CASE Draw(q) \/ Count(q) \/ Scan(q)
    <2>1. window /\ UNCHANGED calm /\ pc[q] \in {"draw", "count", "scan"}
        BY <1>4, Zenon DEF Draw, Count, Scan
    <2>2. pc'[q] # "reset"
        BY <1>0, <1>4, Zenon DEF Draw, Count, Scan, PickNth, Pick, Walk, Goto
    <2>3. \A d \in Requests : pc'[d] # "reset" /\ (pc'[d] \notin {"idle", "sent"} => calm'[d])
        BY <1>0, <2>1, <2>2, Zenon DEF WindowInv, Others
    <2>4. ASSUME policy = "round_robin" PROVE (\E w \in Nat : TurnsFrom(w))'
        <3>1. PICK w \in Nat : TurnsFrom(w)
            BY <2>1, <2>4, Zenon DEF WindowInv
        <3>2. ~Draw(q)
            BY <2>4, Zenon DEF Draw, RequestInv, LocalOK
        <3>3. TurnsNext(w)
            BY <1>4, <2>1, <2>4, <3>1, <3>2, TurnsWalk, Zenon
        <3>4. TurnsFrom(w)'
            BY <1>0, <3>3, NextTurns
        <3>. QED
            BY <3>4
    <2>. QED
        BY <1>0, <2>3, <2>4, Zenon DEF WindowInv
<1>5. CASE Deliver(q) \/ Fail(q)
    <2>1. Done(q)
        BY <1>5, Zenon DEF Deliver, Fail
    <2>2. pc'[q] = "idle" /\ (window \/ \A d \in Requests \ {q} : pc[d] = "idle")
        BY <1>0, <2>1, Zenon DEF Done, Goto
    <2>3. \A d \in Requests : pc'[d] # "reset" /\ (pc'[d] \notin {"idle", "sent"} => calm'[d])
        BY <1>0, <2>2, Zenon DEF WindowInv, Others
    <2>4. policy = "round_robin" => (\E w \in Nat : TurnsFrom(w))'
        BY <1>5, TurnsDone, Zenon
    <2>. QED
        BY <1>0, <2>3, <2>4, Zenon DEF WindowInv
<1>. QED
    BY <1>1, <1>2, <1>3, <1>4, <1>5, Zenon DEF Step

LEMMA WindowHealth ==
    ASSUME TypeOK, NEW i \in Upstreams, SetHealth(i)
    PROVE  WindowInv'
<1>. SUFFICES ASSUME window' PROVE WindowInv'
    BY Zenon DEF WindowInv
<1>1. \A q \in Requests : pc'[q] = "idle"
    BY Zenon DEF SetHealth, request
<1>2. served' = [j \in Upstreams |-> 0] /\ ptr' \in Nat
    BY Zenon DEF SetHealth, TypeOK
<1>3. Quiet'
    BY <1>1, <1>2, Zenon DEF Quiet
<1>4. (\E w \in Nat : TurnsFrom(w))'
    BY <1>3, QuietNext, Zenon
<1>. QED
    BY <1>1, <1>4, Zenon DEF WindowInv

LEMMA WindowSend ==
    ASSUME TypeOK, WindowInv, NEW q \in Requests, NEW c \in Clients, Send(q, c)
    PROVE  WindowInv'
<1>1. /\ UNCHANGED <<policy, up, ptr, nth, pos, n, idx, calm, served, window>>
      /\ pc[q] = "idle" /\ pc' = [pc EXCEPT ![q] = "sent"]
    BY Zenon DEF Send, Goto
<1>2. pc'[q] = "sent" /\ \A d \in Requests \ {q} : pc'[d] = pc[d]
    BY <1>1, Zenon DEF TypeOK, RequestTypeOK
<1>3. Others(q)
    BY <1>1, <1>2, Zenon DEF Others
<1>. SUFFICES ASSUME window PROVE WindowInv'
    BY <1>1, Zenon DEF WindowInv
<1>4. \A d \in Requests : pc'[d] # "reset" /\ (pc'[d] \notin {"idle", "sent"} => calm'[d])
    BY <1>1, <1>2, Zenon DEF WindowInv
<1>5. ASSUME policy = "round_robin" PROVE (\E w \in Nat : TurnsFrom(w))'
    <2>1. PICK w \in Nat : TurnsFrom(w)
        BY <1>5, Zenon DEF WindowInv
    <2>2. TurnsNext(w)
        BY <1>1, <1>2, <1>3, <2>1, TurnsKept, Zenon
    <2>3. TurnsFrom(w)'
        BY <1>1, <2>2, NextTurns, Zenon
    <2>. QED
        BY <2>3, Zenon
<1>. QED
    BY <1>1, <1>4, <1>5, Zenon DEF WindowInv

LEMMA WindowFrame ==
    ASSUME WindowInv, UNCHANGED <<policy, up, ptr, request, calm, served, window>>
    PROVE  WindowInv'
<1>1. UNCHANGED <<pc, nth>>
    BY Zenon DEF request
<1>2. ASSUME NEW w \in Nat, TurnsFrom(w) PROVE TurnsFrom(w)'
    <2>1. \A r : PendingNext(r) = Pending(r)
        BY <1>1, Zenon DEF Pending, PendingNext
    <2>2. TurnsNext(w)
        BY <1>2, <2>1, Zenon DEF TurnsFrom, TurnsNext
    <2>. QED
        BY <2>2, NextTurns, Zenon
<1>3. (\E w \in Nat : TurnsFrom(w)) => (\E w \in Nat : TurnsFrom(w))'
    BY <1>2, Zenon
<1>. QED
    BY <1>1, <1>3, Zenon DEF WindowInv
(***************************************************************************)
(* The inductive invariant, and the properties                             *)
(***************************************************************************)
LEMMA InitInv == Init => Inv
<1>. SUFFICES ASSUME Init PROVE Inv
    BY Zenon
<1>1. 0 \in Upstreams
    BY UpstreamsFinite, Zenon
<1>2. TypeOK
    BY <1>1, Zenon DEF Init, TypeOK, RequestTypeOK, SessionTypeOK, Labels
<1>3. RequestInv
    BY Zenon DEF Init, RequestInv, LocalOK, CalmOK
<1>4. StickyInv
    BY Zenon DEF Init, StickyInv, SentOK, HeldOK
<1>5. WindowInv
    <2>1. Quiet
        BY Zenon DEF Init, Quiet
    <2>. QED
        BY <2>1, TurnsBegin, Zenon DEF Init, WindowInv
<1>. QED
    BY <1>2, <1>3, <1>4, <1>5 DEF Inv

LEMMA NextInv == Inv /\ [Next]_vars => Inv'
<1>. SUFFICES ASSUME Inv, [Next]_vars PROVE Inv'
    BY Zenon
<1>0. TypeOK /\ RequestInv /\ StickyInv /\ WindowInv
    BY DEF Inv
<1>1. ASSUME NEW q \in Requests, Step(q) PROVE Inv'
    BY <1>0, <1>1, StepType, RequestStep, StickyStep, WindowStep, Zenon DEF Inv
<1>2. ASSUME NEW c \in Clients, Expire(c) PROVE Inv'
    <2>1. WindowInv'
        BY <1>0, <1>2, WindowFrame, Zenon DEF Expire
    <2>. QED
        BY <1>0, <1>2, <2>1, ExpireKeeps, StickyExpire, Zenon DEF Inv
<1>3. ASSUME NEW i \in Upstreams, SetHealth(i) PROVE Inv'
    BY <1>0, <1>3, HealthType, RequestHealth, StickyHealth, WindowHealth, Zenon DEF Inv
<1>4. ASSUME NEW q \in Requests, NEW c \in Clients, Send(q, c) PROVE Inv'
    BY <1>0, <1>4, SendKeeps, StickySend, WindowSend, Zenon DEF Inv
<1>5. CASE UNCHANGED vars
    <2>1. UNCHANGED <<tracked, policy, up, ptr, pc, nth, pos, n, idx, issue, by, sent, cookie, last,
                      calm, served, window>>
        BY <1>5, Zenon DEF vars, request, session
    <2>2. TypeOK'
        BY <1>0, <2>1, Zenon DEF TypeOK, RequestTypeOK, SessionTypeOK
    <2>3. RequestInv'
        BY <1>0, <2>1, ZenonT(60) DEF RequestInv, LocalOK, CalmOK, Passed, Healthy
    <2>4. StickyInv'
        BY <1>0, <2>1, ZenonT(60) DEF StickyInv, SentOK, HeldOK, Healthy
    <2>5. WindowInv'
        BY <1>0, <1>5, WindowFrame, Zenon DEF vars
    <2>. QED
        BY <2>2, <2>3, <2>4, <2>5, Zenon DEF Inv
<1>. QED
    BY <1>1, <1>2, <1>3, <1>4, <1>5, Zenon DEF Next, Step

\* The inductive invariant holds: the walks over the flags know how many healthy
\* upstreams they have passed, the cookie is followed or re-issued, and the turns
\* fetch_and_advance has given out in a window are the picks made and pending.
THEOREM Invariant == Spec => []Inv
<1>. QED
    BY InitInv, NextInv, PTL DEF Spec

\* A pick is an upstream of the group, whatever turns during it; one during which no
\* flag turns is a healthy upstream, if there is one, under every policy, and the
\* lowest one under primary/backup: the count of healthy_index_count and the second
\* walk of pick_nth_available_index agree.
THEOREM HealthyPicks == Spec => []PicksHealthy
<1>1. Inv => \A q \in Requests : idx[q] \in Upstreams
    BY Zenon DEF Inv, TypeOK, RequestTypeOK
<1>2. Inv => PicksHealthy
    BY <1>1, Zenon DEF Inv, RequestInv, CalmOK, PicksHealthy
<1>. QED
    BY <1>2, Invariant, PTL

\* A request whose cookie names a healthy upstream is served by it, when no flag
\* turns during the pick.
THEOREM CookieFollowed == Spec => []StickyFollowed
<1>1. Inv => StickyFollowed
    <2>. SUFFICES ASSUME Inv, NEW q \in Requests,
                         pc[q] = "picked", calm[q], sent[q] \in Healthy
                  PROVE  idx[q] = sent[q]
        BY Zenon DEF StickyFollowed
    <2>1. sent[q] \in Nat
        BY HealthyFinite, UpstreamsFinite, Zenon
    <2>2. policy = "sticky"
        BY <2>1, CookieAssumption, Zenon DEF Inv, StickyInv, SentOK
    <2>. QED
        BY <2>2, Zenon DEF Inv, StickyInv, SentOK
<1>. QED
    BY <1>1, Invariant, PTL

\* The cookie a client holds names the upstream of its last successful response,
\* through fallbacks, stale cookies, failed requests and requests of one client in
\* parallel, unless that response, without Set-Cookie, answers a request whose cookie
\* the client no longer holds.
THEOREM CookieNamesServer == Spec => []StickyNamesServer
<1>1. Inv => StickyNamesServer
    BY Zenon DEF Inv, StickyInv, HeldOK, StickyNamesServer
<1>. QED
    BY <1>1, Invariant, PTL

\* Round robin spreads the turns of concurrent requests over the available
\* upstreams to within one, as long as no flag turns and the pointer is not reset.
THEOREM RoundRobinBalanced == Spec => []Balanced
<1>1. Inv => Balanced
    <2>. SUFFICES ASSUME Inv, policy = "round_robin", window,
                         \A q \in Requests : pc[q] \in {"idle", "sent", "picked"},
                         NEW i \in Available, NEW j \in Available
                  PROVE  served[i] <= served[j] + 1
        BY Zenon DEF Balanced
    <2>1. PICK w \in Nat : TurnsFrom(w)
        BY Zenon DEF Inv, WindowInv
    <2>2. \A r : Cardinality(Pending(r)) = 0
        <3>1. \A r : Pending(r) = {}
            BY Zenon DEF Pending
        <3>. QED
            BY <3>1, FS_EmptySet, Zenon
    <2>3. ASSUME NEW k \in Available
          PROVE  served[k] \in Nat /\ served[k] = LapOf(ptr, Rank(k), M) - LapOf(w, Rank(k), M)
        <3>1. served[k] \in Nat
            BY AvailableFinite, Zenon DEF Inv, TypeOK, RequestTypeOK
        <3>2. served[k] + 0 = LapOf(ptr, Rank(k), M) - LapOf(w, Rank(k), M)
            BY <2>1, <2>2 DEF TurnsFrom
        <3>. QED
            BY <3>1, <3>2
    <2>4. Rank(i) \in Nat /\ Rank(j) \in Nat /\ M \in Nat \ {0} /\ ptr \in Nat
        BY RankFacts, AvailableFinite, Zenon DEF Inv, TypeOK
    <2>5. LapOf(ptr, Rank(i), M) - LapOf(w, Rank(i), M) <=
              LapOf(ptr, Rank(j), M) - LapOf(w, Rank(j), M) + 1
        BY <2>4, LapsEven, Zenon
    <2>. QED
        BY <2>3, <2>5, Zenon
<1>. QED
    BY <1>1, Invariant, PTL
============================================================================
