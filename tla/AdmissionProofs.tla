-------------------------- MODULE AdmissionProofs --------------------------
(***************************************************************************)
(* Proofs about module Admission, for any number of connections, streams   *)
(* and addresses and for any limits: RequestCount, the per-address slots   *)
(* and the PROXY permits are exact however the tasks interleave.           *)
(***************************************************************************)
EXTENDS Admission, FiniteSetTheorems, TLAPS

Counted == {"serve", "load", "cas"}

-----------------------------------------------------------------------------
(* Types.                                                                  *)

\* The address of an unused connection is an address.
LEMMA AddressType == AnyIP \in IPs
  BY IPsAssumption, SMTT(30) DEF AnyIP

\* The initial state has its types.
LEMMA InitType == Init => TypeOK
  BY AddressType DEF Init, TypeOK, ConnLabels, Units

\* The end of a connection keeps the types.
LEMMA CloseType ==
  ASSUME TypeOK, NEW c \in Conns, Close(c)
  PROVE  /\ pc' \in [Units -> ConnLabels]
         /\ \A s \in Streams : pc'[s] = pc[s]
         /\ kind' \in [Conns -> {"http", "https", "h3"}]
         /\ ip' \in [Conns -> IPs]
         /\ permit' \subseteq Conns
  BY AddressType, UnitsAssumption DEF TypeOK, Close, Goto, ConnLabels, Units

\* A connection that goes to another label, everything else about it kept.
LEMMA GotoType ==
  ASSUME TypeOK, NEW c \in Conns, NEW label \in ConnLabels, Goto(c, label)
  PROVE  /\ pc' \in [Units -> ConnLabels]
         /\ \A s \in Streams : pc'[s] = pc[s]
  BY UnitsAssumption DEF TypeOK, Goto, Units

\* The same for a stream.
LEMMA StreamGotoType ==
  ASSUME TypeOK, NEW s \in Streams, NEW label \in {"idle", "serve", "load", "cas"}, Goto(s, label)
  PROVE  /\ pc' \in [Units -> ConnLabels]
         /\ \A t \in Streams : pc'[t] \in {"idle", "serve", "load", "cas"}
  BY UnitsAssumption DEF TypeOK, Goto, Units, ConnLabels

PerIpType(map) == DOMAIN map \subseteq IPs /\ \A i \in DOMAIN map : map[i] \in Nat \ {0}

\* Slots are taken and returned within the types.
LEMMA SlotType ==
  ASSUME TypeOK, NEW i \in IPs
  PROVE  /\ SetIpCount(i, IpCount(i) + 1) => PerIpType(perIp')
         /\ ReleaseSlot(i) => PerIpType(perIp')
  <1>1. IpCount(i) \in Nat /\ PerIpType(perIp)
    BY DEF TypeOK, IpCount, PerIpType
  <1>2. ASSUME NEW n \in Nat \ {0}, SetIpCount(i, n) PROVE PerIpType(perIp')
    BY <1>1, <1>2 DEF SetIpCount, PerIpType
  <1>3. IpCount(i) + 1 \in Nat \ {0}
    BY <1>1
  <1>4. ASSUME ReleaseSlot(i) PROVE PerIpType(perIp')
    <2>1. CASE MaxPerIp = 0 \/ i \notin DOMAIN perIp
      BY <1>1, <1>4, <2>1 DEF ReleaseSlot
    <2>2. CASE ~(MaxPerIp = 0 \/ i \notin DOMAIN perIp) /\ perIp[i] <= 1
      BY <1>1, <1>4, <2>2 DEF ReleaseSlot, PerIpType
    <2>3. CASE ~(MaxPerIp = 0 \/ i \notin DOMAIN perIp) /\ ~(perIp[i] <= 1)
      <3>1. SetIpCount(i, perIp[i] - 1)
        BY <1>4, <2>3 DEF ReleaseSlot
      <3>2. perIp[i] - 1 \in Nat \ {0}
        BY <1>1, <2>3 DEF PerIpType
      <3> QED BY <1>2, <3>1, <3>2, Zenon
    <2> QED BY <2>1, <2>2, <2>3
  <1> QED BY <1>2, <1>3, <1>4

-----------------------------------------------------------------------------
(* Counting.                                                               *)

\* How the number of units at some labels changes when one of them moves.
LEMMA CountMoves ==
  ASSUME TypeOK, NEW u \in Units, NEW label \in ConnLabels, NEW L, Goto(u, label)
  PROVE  /\ Cardinality(At(L)) \in Nat
         /\ pc[u] \notin L /\ label \in L =>
              Cardinality(At(L)') = Cardinality(At(L)) + 1
         /\ pc[u] \in L /\ label \notin L =>
              Cardinality(At(L)') = Cardinality(At(L)) - 1
         /\ (pc[u] \in L <=> label \in L) => At(L)' = At(L)
  <1>1. At(L)' = IF label \in L THEN At(L) \cup {u} ELSE At(L) \ {u}
    BY DEF At, Goto, TypeOK
  <1>2. IsFiniteSet(At(L))
    <2>1. IsFiniteSet(Units)
      BY ConnsAssumption, FS_Union, Zenon DEF Units
    <2> QED BY <2>1, FS_Subset DEF At
  <1>3. u \in At(L) <=> pc[u] \in L
    BY DEF At
  <1>4. Cardinality(At(L)) \in Nat
    BY <1>2, FS_CardinalityType
  <1>5. ASSUME pc[u] \notin L, label \in L
        PROVE  Cardinality(At(L)') = Cardinality(At(L)) + 1
    <2>1. At(L)' = At(L) \cup {u} /\ u \notin At(L)
      BY <1>1, <1>3, <1>5
    <2> QED BY <2>1, <1>2, FS_AddElement, Zenon
  <1>6. ASSUME pc[u] \in L, label \notin L
        PROVE  Cardinality(At(L)') = Cardinality(At(L)) - 1
    <2>1. At(L)' = At(L) \ {u} /\ u \in At(L)
      BY <1>1, <1>3, <1>6
    <2> QED BY <2>1, <1>2, FS_RemoveElement, Zenon
  <1>7. ASSUME pc[u] \in L <=> label \in L
        PROVE  At(L)' = At(L)
    BY <1>1, <1>3, <1>7, Zenon
  <1> QED BY <1>4, <1>5, <1>6, <1>7

\* What is served is counted.
LEMMA ServedAreCounted ==
  Cardinality(At({"serve"})) <= Cardinality(At({"serve", "load", "cas"}))
  <1>1. IsFiniteSet(At({"serve", "load", "cas"}))
    <2>1. IsFiniteSet(Units)
      BY ConnsAssumption, FS_Union, Zenon DEF Units
    <2> QED BY <2>1, FS_Subset DEF At
  <1>2. At({"serve"}) \subseteq At({"serve", "load", "cas"})
    BY DEF At
  <1> QED BY <1>1, <1>2, FS_Subset, Zenon

CountInv == CountExact /\ ServedWithinLimit

\* Nothing is counted at first.
LEMMA InitCount == Init => CountInv
  <1> SUFFICES ASSUME Init PROVE CountInv
    OBVIOUS
  <1>1. At({"serve", "load", "cas"}) = {} /\ At({"serve"}) = {}
    BY DEF Init, At
  <1>2. Cardinality({}) = 0
    BY FS_EmptySet
  <1>3. CountExact
    BY <1>1, <1>2, Zenon DEF CountExact, Init
  <1>4. ServedWithinLimit
    BY <1>1, <1>2, LimitsAssumption DEF ServedWithinLimit
  <1> QED BY <1>3, <1>4 DEF CountInv

\* A move that is not counted, and does not begin to serve.
LEMMA Uncounted ==
  ASSUME TypeOK, CountInv, NEW u \in Units, NEW label \in ConnLabels, Goto(u, label),
         label # "serve", pc[u] \in Counted <=> label \in Counted, count' = count
  PROVE  CountInv'
  <1>1. At(Counted)' = At(Counted)
    BY CountMoves, Zenon
  <1>2. Cardinality(At({"serve"})') <= Cardinality(At({"serve"}))
    <2>1. /\ Cardinality(At({"serve"})) \in Nat
          /\ pc[u] \in {"serve"} => Cardinality(At({"serve"})') = Cardinality(At({"serve"})) - 1
          /\ pc[u] \notin {"serve"} => At({"serve"})' = At({"serve"})
      BY CountMoves, Zenon
    <2> QED BY <2>1, SMTT(30)
  <1>3. Cardinality(At({"serve"})) \in Nat /\ Cardinality(At({"serve"})') \in Int
    BY CountMoves
  <1>4. CountExact'
    BY <1>1 DEF CountInv, CountExact, Counted
  <1>5. ServedWithinLimit'
    BY <1>2, <1>3, LimitsAssumption, SMTT(30) DEF CountInv, ServedWithinLimit
  <1> QED BY <1>4, <1>5, Zenon DEF CountInv

\* A move that is counted, into service only below the limit.
LEMMA CountedIn ==
  ASSUME TypeOK, CountInv, NEW u \in Units, pc[u] \notin Counted, count' = count + 1,
         NEW label \in Counted, Goto(u, label), label = "serve" => ~(count >= MaxClients)
  PROVE  CountInv'
  <1>1. label \in ConnLabels
    BY Zenon DEF Counted, ConnLabels
  <1>2. Cardinality(At(Counted)') = Cardinality(At(Counted)) + 1
    BY <1>1, CountMoves, Zenon
  <1>3. CountExact'
    BY <1>2, Zenon DEF CountInv, CountExact, Counted
  <1>4. /\ Cardinality(At({"serve"})) \in Nat
        /\ label = "serve" => Cardinality(At({"serve"})') = Cardinality(At({"serve"})) + 1
        /\ label # "serve" => At({"serve"})' = At({"serve"})
    <2>1. pc[u] \notin {"serve"}
      BY DEF Counted
    <2> QED BY <1>1, <2>1, CountMoves, Zenon
  <1>5. Cardinality(At({"serve"})) <= count
    BY ServedAreCounted DEF CountInv, CountExact
  <1>6. count \in Nat
    BY Zenon DEF TypeOK
  <1>7. ServedWithinLimit'
    <2>1. CASE label = "serve"
      BY <2>1, <1>4, <1>5, <1>6, LimitsAssumption DEF ServedWithinLimit
    <2>2. CASE label # "serve"
      BY <2>2, <1>4, Zenon DEF CountInv, ServedWithinLimit
    <2> QED BY <2>1, <2>2, Zenon
  <1> QED BY <1>3, <1>7, Zenon DEF CountInv

\* The move that ends a decrement.
LEMMA CountedOut ==
  ASSUME TypeOK, CountInv, NEW u \in Units, pc[u] \in {"load", "cas"}, count' = count - 1,
         NEW label \in ConnLabels, Goto(u, label), label \notin Counted
  PROVE  CountInv'
  <1>1. Cardinality(At(Counted)') = Cardinality(At(Counted)) - 1
    BY CountMoves DEF Counted
  <1>2. CountExact'
    BY <1>1 DEF CountInv, CountExact, Counted
  <1>3. At({"serve"})' = At({"serve"})
    <2>1. pc[u] \notin {"serve"} /\ label \notin {"serve"}
      BY DEF Counted
    <2> QED BY <2>1, CountMoves, Zenon
  <1>4. ServedWithinLimit'
    BY <1>3, Zenon DEF CountInv, ServedWithinLimit
  <1> QED BY <1>2, <1>4, Zenon DEF CountInv

\* A task that is about to decrement finds a count above zero.
LEMMA CountPositive ==
  ASSUME TypeOK, CountInv, NEW u \in Units, pc[u] \in Counted
  PROVE  count > 0
  <1>1. IsFiniteSet(At(Counted))
    <2>1. IsFiniteSet(Units)
      BY ConnsAssumption, FS_Union, Zenon DEF Units
    <2> QED BY <2>1, FS_Subset DEF At
  <1>2. u \in At(Counted)
    BY DEF At
  <1>3. Cardinality(At(Counted)) # 0
    BY <1>1, <1>2, FS_EmptySet
  <1> QED BY <1>3, SMTT(30) DEF CountInv, CountExact, TypeOK, Counted

\* Every step keeps the count exact and the limit.
LEMMA CountStep ==
  ASSUME TypeOK, CountInv, [Next]_vars
  PROVE  CountInv'
  <1> USE DEF Units
  <1>1. ASSUME NEW c \in Conns, NEW l \in {"http", "https", "h3"}, NEW i \in IPs, Accept(c, l, i)
        PROVE  CountInv'
    <2>1. pc[c] = "idle" /\ count' = count /\ (Goto(c, "parse") \/ Goto(c, "slot"))
      BY <1>1, Zenon DEF Accept
    <2> QED BY <2>1, Uncounted, Zenon DEF Counted, ConnLabels
  <1>2. ASSUME NEW c \in Conns, NEW i \in IPs, ParseOk(c, i)
        PROVE  CountInv'
    BY <1>2, Uncounted, Zenon DEF ParseOk, Counted, ConnLabels
  <1>3. ASSUME NEW c \in Conns, ParseFails(c) \/ ParseTimeout(c) \/ TryAcquireFails(c) \/ TunnelEnds(c)
        PROVE  CountInv'
    <2>1. pc[c] \in {"parse", "slot", "tunnel"} /\ count' = count /\ Goto(c, "idle")
      BY <1>3, Zenon DEF ParseFails, ParseTimeout, TryAcquireFails, TunnelEnds, Close
    <2> QED BY <2>1, Uncounted, Zenon DEF Counted, ConnLabels
  <1>4. ASSUME NEW c \in Conns, TryAcquire(c)
        PROVE  CountInv'
    <2>1. pc[c] = "slot" /\ count' = count /\ Goto(c, AfterSlot(c))
      BY <1>4, Zenon DEF TryAcquire
    <2>2. AfterSlot(c) \in {"count", "shake", "h3"}
      BY Zenon DEF AfterSlot, TypeOK
    <2> QED BY <2>1, <2>2, Uncounted, Zenon DEF Counted, ConnLabels
  <1>5. ASSUME NEW c \in Conns, DropGuard(c)
        PROVE  CountInv'
    <2>1. pc[c] = "drop" /\ count' = count /\ (Goto(c, "tunnel") \/ Goto(c, "idle"))
      BY <1>5, Zenon DEF DropGuard, Close
    <2> QED BY <2>1, Uncounted, Zenon DEF Counted, ConnLabels
  <1>6. ASSUME NEW c \in Conns, ShakeOk(c) \/ ShakeAcme(c) \/ ShakeFails(c) \/ Bye(c) \/ H3Close(c)
        PROVE  CountInv'
    <2>1. /\ pc[c] \in {"shake", "bye", "h3"} /\ count' = count
          /\ Goto(c, "count") \/ Goto(c, "bye") \/ Goto(c, "drop")
      BY <1>6, Zenon DEF ShakeOk, ShakeAcme, ShakeFails, Bye, H3Close
    <2> QED BY <2>1, Uncounted, Zenon DEF Counted, ConnLabels
  <1>7. ASSUME NEW c \in Conns, Increment(c)
        PROVE  CountInv'
    <2>1. pc[c] = "count" /\ count' = count + 1
      BY <1>7, Zenon DEF Increment
    <2>2. CASE count >= MaxClients
      <3>1. Goto(c, "load")
        BY <1>7, <2>2, Zenon DEF Increment
      <3> QED BY <2>1, <3>1, CountedIn, Zenon DEF Counted
    <2>3. CASE ~(count >= MaxClients)
      <3>1. Goto(c, "serve")
        BY <1>7, <2>3, Zenon DEF Increment
      <3> QED BY <2>1, <2>3, <3>1, CountedIn, Zenon DEF Counted
    <2> QED BY <2>2, <2>3, Zenon
  <1>8. ASSUME NEW c \in Conns, NEW s \in Streams, H3Increment(c, s)
        PROVE  CountInv'
    <2>1. pc[c] = "h3" /\ pc[s] = "idle" /\ count' = count + 1
      BY <1>8, Zenon DEF H3Increment
    <2>2. CASE count >= MaxClients
      <3>1. Goto(c, "load")
        BY <1>8, <2>2, Zenon DEF H3Increment
      <3> QED BY <2>1, <3>1, CountedIn, Zenon DEF Counted
    <2>3. CASE ~(count >= MaxClients)
      <3>1. Goto(s, "serve")
        BY <1>8, <2>3, Zenon DEF H3Increment
      <3> QED BY <2>1, <2>3, <3>1, CountedIn, Zenon DEF Counted
    <2> QED BY <2>2, <2>3, Zenon
  <1>9. ASSUME NEW u \in Units, ServeEnds(u) \/ ServeUpgrades(u)
        PROVE  CountInv'
    BY <1>9, Uncounted, Zenon DEF ServeEnds, ServeUpgrades, Counted, ConnLabels
  <1>10. ASSUME NEW u \in Units, DecLoad(u)
         PROVE  CountInv'
    <2>1. pc[u] = "load" /\ count' = count
      BY <1>10, Zenon DEF DecLoad
    <2>2. count > 0
      BY <2>1, CountPositive, Zenon DEF Counted
    <2>3. Goto(u, "cas")
      BY <1>10, <2>2, Zenon DEF DecLoad
    <2> QED BY <2>1, <2>3, Uncounted, Zenon DEF Counted, ConnLabels
  <1>11. ASSUME NEW u \in Units, DecExchange(u)
         PROVE  CountInv'
    <2>1. CASE count = seen[u]
      <3>1. pc[u] = "cas" /\ count' = count - 1 /\ Goto(u, AfterDecrement(u))
        BY <1>11, <2>1, Zenon DEF DecExchange
      <3>2. AfterDecrement(u) \in ConnLabels \ Counted
        BY Zenon DEF AfterDecrement, ConnLabels, Counted
      <3> QED BY <3>1, <3>2, CountedOut, Zenon
    <2>2. CASE count # seen[u]
      <3>1. pc[u] = "cas" /\ count' = count /\ Goto(u, "load")
        BY <1>11, <2>2, Zenon DEF DecExchange
      <3> QED BY <3>1, Uncounted, Zenon DEF Counted, ConnLabels
    <2> QED BY <2>1, <2>2, Zenon
  <1>12. CASE UNCHANGED vars
    BY <1>12, Zenon DEF vars, CountInv, CountExact, ServedWithinLimit, At
  <1> QED BY <1>1, <1>2, <1>3, <1>4, <1>5, <1>6, <1>7, <1>8, <1>9, <1>10, <1>11, <1>12, Zenon
          DEF Next, OwnStep, ConnStep, Decrement

\* Every step keeps the types.
LEMMA TypeStep ==
  ASSUME TypeOK, CountInv, [Next]_vars
  PROVE  TypeOK'
  <1> USE DEF PerIpType
  <1>1. ASSUME NEW c \in Conns, NEW l \in {"http", "https", "h3"}, NEW i \in IPs, Accept(c, l, i)
        PROVE  TypeOK'
    <2>1. Goto(c, "parse") \/ Goto(c, "slot")
      BY <1>1, Zenon DEF Accept
    <2>2. pc' \in [Units -> ConnLabels] /\ \A s \in Streams : pc'[s] = pc[s]
      BY <2>1, GotoType, Zenon DEF ConnLabels
    <2> QED BY <1>1, <2>2, Zenon DEF Accept, TypeOK
  <1>2. ASSUME NEW c \in Conns, NEW i \in IPs, ParseOk(c, i)
        PROVE  TypeOK'
    <2>1. pc' \in [Units -> ConnLabels] /\ \A s \in Streams : pc'[s] = pc[s]
      BY <1>2, GotoType, Zenon DEF ParseOk, ConnLabels
    <2> QED BY <1>2, <2>1, Zenon DEF ParseOk, TypeOK
  <1>3. ASSUME NEW c \in Conns, ParseFails(c) \/ ParseTimeout(c) \/ TryAcquireFails(c) \/ TunnelEnds(c)
        PROVE  TypeOK'
    <2>1. /\ Close(c) /\ UNCHANGED <<count, perIp, seen>>
          /\ upgraded' = upgraded \/ upgraded' = upgraded \ {c}
      BY <1>3, Zenon DEF ParseFails, ParseTimeout, TryAcquireFails, TunnelEnds
    <2> QED BY <2>1, CloseType, Zenon DEF TypeOK
  <1>4. ASSUME NEW c \in Conns, TryAcquire(c)
        PROVE  TypeOK'
    <2>1. AfterSlot(c) \in ConnLabels
      BY Zenon DEF AfterSlot, TypeOK, ConnLabels
    <2>2. pc' \in [Units -> ConnLabels] /\ \A s \in Streams : pc'[s] = pc[s]
      BY <1>4, <2>1, GotoType, Zenon DEF TryAcquire
    <2>3. PerIpType(perIp')
      <3>1. ip[c] \in IPs
        BY Zenon DEF TypeOK
      <3>2. CASE MaxPerIp = 0
        BY <1>4, <3>2, Zenon DEF TryAcquire, TypeOK
      <3>3. CASE MaxPerIp # 0
        BY <1>4, <3>1, <3>3, SlotType, Zenon DEF TryAcquire
      <3> QED BY <3>2, <3>3, Zenon
    <2> QED BY <1>4, <2>2, <2>3, Zenon DEF TryAcquire, TypeOK
  <1>5. ASSUME NEW c \in Conns, DropGuard(c)
        PROVE  TypeOK'
    <2>1. PerIpType(perIp')
      BY <1>5, SlotType, Zenon DEF DropGuard, TypeOK
    <2>2. CASE c \in upgraded
      <3>1. pc' \in [Units -> ConnLabels] /\ \A s \in Streams : pc'[s] = pc[s]
        BY <1>5, <2>2, GotoType, Zenon DEF DropGuard, ConnLabels
      <3> QED BY <1>5, <2>1, <2>2, <3>1, Zenon DEF DropGuard, TypeOK
    <2>3. CASE c \notin upgraded
      <3>1. Close(c) /\ UNCHANGED <<count, seen, upgraded>>
        BY <1>5, <2>3, Zenon DEF DropGuard
      <3> QED BY <2>1, <3>1, CloseType, Zenon DEF TypeOK
    <2> QED BY <2>2, <2>3, Zenon
  <1>6. ASSUME NEW c \in Conns,
               ShakeOk(c) \/ ShakeAcme(c) \/ ShakeFails(c) \/ Bye(c) \/ H3Close(c)
        PROVE  TypeOK'
    <2>1. /\ UNCHANGED <<count, perIp, kind, ip, permit, seen, upgraded>>
          /\ Goto(c, "count") \/ Goto(c, "bye") \/ Goto(c, "drop")
      BY <1>6, Zenon DEF ShakeOk, ShakeAcme, ShakeFails, Bye, H3Close
    <2>2. pc' \in [Units -> ConnLabels] /\ \A s \in Streams : pc'[s] = pc[s]
      BY <2>1, GotoType, Zenon DEF ConnLabels
    <2> QED BY <2>1, <2>2, Zenon DEF TypeOK
  <1>7. ASSUME NEW c \in Conns, Increment(c)
        PROVE  TypeOK'
    <2>1. /\ count' = count + 1 /\ UNCHANGED <<perIp, kind, ip, seen, upgraded>>
          /\ Goto(c, "load") \/ Goto(c, "serve")
          /\ permit' \subseteq permit
      BY <1>7 DEF Increment
    <2>2. pc' \in [Units -> ConnLabels] /\ \A s \in Streams : pc'[s] = pc[s]
      BY <2>1, GotoType, Zenon DEF ConnLabels
    <2> QED BY <2>1, <2>2, SMTT(30) DEF TypeOK
  <1>8. ASSUME NEW c \in Conns, NEW s \in Streams, H3Increment(c, s)
        PROVE  TypeOK'
    <2>1. /\ count' = count + 1 /\ UNCHANGED <<perIp, kind, ip, permit, seen, upgraded>>
          /\ Goto(c, "load") \/ Goto(s, "serve")
      BY <1>8, Zenon DEF H3Increment
    <2>2. /\ pc' \in [Units -> ConnLabels]
          /\ \A t \in Streams : pc'[t] \in {"idle", "serve", "load", "cas"}
      <3>1. CASE Goto(c, "load")
        BY <3>1, GotoType, Zenon DEF ConnLabels, TypeOK
      <3>2. CASE Goto(s, "serve")
        BY <3>2, StreamGotoType, Zenon
      <3> QED BY <2>1, <3>1, <3>2, Zenon
    <2> QED BY <2>1, <2>2, SMTT(30) DEF TypeOK
  <1>9. ASSUME NEW c \in Conns, ServeEnds(c) \/ ServeUpgrades(c)
        PROVE  TypeOK'
    <2>1. /\ Goto(c, "load") /\ UNCHANGED <<count, perIp, kind, ip, permit, seen>>
          /\ upgraded' \subseteq upgraded \cup {c}
      BY <1>9, Zenon DEF ServeEnds, ServeUpgrades
    <2>2. pc' \in [Units -> ConnLabels] /\ \A s \in Streams : pc'[s] = pc[s]
      BY <2>1, GotoType, Zenon DEF ConnLabels
    <2> QED BY <2>1, <2>2, Zenon DEF TypeOK
  <1>10. ASSUME NEW s \in Streams, ServeEnds(s)
         PROVE  TypeOK'
    <2>1. Goto(s, "load") /\ UNCHANGED <<count, perIp, kind, ip, permit, seen, upgraded>>
      BY <1>10, Zenon DEF ServeEnds
    <2>2. /\ pc' \in [Units -> ConnLabels]
          /\ \A t \in Streams : pc'[t] \in {"idle", "serve", "load", "cas"}
      BY <2>1, StreamGotoType, Zenon
    <2> QED BY <2>1, <2>2, Zenon DEF TypeOK
  <1>11. ASSUME NEW u \in Units, DecLoad(u) \/ DecExchange(u)
         PROVE  TypeOK'
    <2>1. /\ UNCHANGED <<perIp, kind, ip, permit, upgraded>>
          /\ Goto(u, "cas") \/ Goto(u, AfterDecrement(u)) \/ Goto(u, "load")
      BY <1>11, Zenon DEF DecLoad, DecExchange
    <2>2. /\ pc' \in [Units -> ConnLabels]
          /\ \A t \in Streams : pc'[t] \in {"idle", "serve", "load", "cas"}
      <3>1. CASE u \in Conns
        BY <2>1, <3>1, GotoType, Zenon DEF ConnLabels, AfterDecrement, TypeOK
      <3>2. CASE u \in Streams
        BY <2>1, <3>2, StreamGotoType, UnitsAssumption, Zenon DEF AfterDecrement
      <3> QED BY <3>1, <3>2, Zenon DEF Units
    <2>3. count > 0
      BY <1>11, CountPositive, Zenon DEF DecLoad, DecExchange, Counted
    <2>4. count' \in Nat /\ seen' \in [Units -> Nat]
      BY <1>11, <2>3, SMTT(30) DEF DecLoad, DecExchange, TypeOK
    <2> QED BY <2>1, <2>2, <2>4, Zenon DEF TypeOK
  <1>12. CASE UNCHANGED vars
    BY <1>12, Zenon DEF vars, TypeOK
  <1> QED BY <1>1, <1>2, <1>3, <1>4, <1>5, <1>6, <1>7, <1>8, <1>9, <1>10, <1>11, <1>12, Zenon
          DEF Next, OwnStep, ConnStep, Decrement, Units

\* Admission keeps its types.
THEOREM TypeCorrect == Spec => [](TypeOK /\ CountInv)
  <1>1. Init => TypeOK /\ CountInv
    BY InitType, InitCount, Zenon
  <1>2. TypeOK /\ CountInv /\ [Next]_vars => (TypeOK /\ CountInv)'
    BY TypeStep, CountStep, Zenon
  <1> QED BY <1>1, <1>2, PTL DEF Spec

\* For any number of connections and streams, no interleaving of increments,
\* refusals and the compare-exchange loop of RequestCount::decrement loses or
\* repeats a count.
THEOREM CountCorrect == Spec => []CountExact
  BY TypeCorrect, PTL DEF CountInv

\* max_clients holds for what is served, for any number of arrivals that
\* increment the count before they look at the limit.
THEOREM ServedCorrect == Spec => []ServedWithinLimit
  BY TypeCorrect, PTL DEF CountInv

-----------------------------------------------------------------------------
(* Slots.                                                                  *)

\* PerIpExact in terms of the counts, an absent entry read as zero: the part of it
\* that is inductive.  That there are no entries of zero is in TypeOK.
SlotsCounted ==
  IF MaxPerIp = 0 THEN DOMAIN perIp = {}
  ELSE \A i \in IPs : IpCount(i) = Cardinality(Holding(i)) /\ IpCount(i) <= MaxPerIp

\* A connection is accounted to an address.
Account(c, j) == ip' = [ip EXCEPT ![c] = j]

\* How the holders of an address change when a connection moves.
LEMMA HolderMoves ==
  ASSUME TypeOK, NEW c \in Conns, NEW label, Goto(c, label),
         NEW j \in IPs, Account(c, j), NEW i \in IPs
  PROVE  /\ IsFiniteSet(Holding(i)) /\ Cardinality(Holding(i)) \in Nat
         /\ pc[c] \notin HoldingLabels /\ label \notin HoldingLabels => Holding(i)' = Holding(i)
         /\ pc[c] \in HoldingLabels /\ label \in HoldingLabels /\ j = ip[c] =>
              Holding(i)' = Holding(i)
         /\ pc[c] \notin HoldingLabels /\ label \in HoldingLabels =>
              Cardinality(Holding(i)') = Cardinality(Holding(i)) + (IF i = j THEN 1 ELSE 0)
         /\ pc[c] \in HoldingLabels /\ label \notin HoldingLabels =>
              Cardinality(Holding(i)') = Cardinality(Holding(i)) - (IF i = ip[c] THEN 1 ELSE 0)
  <1>1. IsFiniteSet(Holding(i))
    BY ConnsAssumption, FS_Subset, Zenon DEF Holding
  <1>2. Cardinality(Holding(i)) \in Nat
    BY <1>1, FS_CardinalityType, Zenon
  <1>3. c \in Holding(i) <=> pc[c] \in HoldingLabels /\ ip[c] = i
    BY Zenon DEF Holding
  <1>4. Holding(i)' = IF label \in HoldingLabels /\ j = i THEN Holding(i) \cup {c}
                      ELSE Holding(i) \ {c}
    BY Zenon DEF Holding, Goto, TypeOK, Units, Account
  <1>5. ASSUME pc[c] \notin HoldingLabels, label \in HoldingLabels
        PROVE  Cardinality(Holding(i)') = Cardinality(Holding(i)) + (IF i = j THEN 1 ELSE 0)
    <2>1. CASE i = j
      BY <2>1, <1>1, <1>3, <1>4, <1>5, FS_AddElement, Zenon
    <2>2. CASE i # j
      <3>1. Holding(i)' = Holding(i)
        BY <2>2, <1>3, <1>4, <1>5, Zenon
      <3> QED BY <2>2, <3>1, <1>2, SMTT(30)
    <2> QED BY <2>1, <2>2, Zenon
  <1>6. ASSUME pc[c] \in HoldingLabels, label \notin HoldingLabels
        PROVE  Cardinality(Holding(i)') = Cardinality(Holding(i)) - (IF i = ip[c] THEN 1 ELSE 0)
    <2>1. CASE i = ip[c]
      BY <2>1, <1>1, <1>3, <1>4, <1>6, FS_RemoveElement, ZenonT(30)
    <2>2. CASE i # ip[c]
      <3>1. Holding(i)' = Holding(i)
        BY <2>2, <1>3, <1>4, <1>6, Zenon
      <3> QED BY <2>2, <3>1, <1>2, SMTT(30)
    <2> QED BY <2>1, <2>2, Zenon
  <1>7. ASSUME pc[c] \notin HoldingLabels, label \notin HoldingLabels
        PROVE  Holding(i)' = Holding(i)
    BY <1>3, <1>4, <1>7, Zenon
  <1>8. ASSUME pc[c] \in HoldingLabels, label \in HoldingLabels, j = ip[c]
        PROVE  Holding(i)' = Holding(i)
    BY <1>3, <1>4, <1>8, Zenon
  <1> QED BY <1>1, <1>2, <1>5, <1>6, <1>7, <1>8, Zenon

\* Moves that neither take nor return a slot.
LEMMA SlotKept ==
  ASSUME TypeOK, SlotsCounted, NEW c \in Conns, NEW label, Goto(c, label),
         NEW j \in IPs, Account(c, j), perIp' = perIp,
         \/ pc[c] \notin HoldingLabels /\ label \notin HoldingLabels
         \/ pc[c] \in HoldingLabels /\ label \in HoldingLabels /\ j = ip[c]
  PROVE  SlotsCounted'
  <1>1. \A i \in IPs : Holding(i)' = Holding(i)
    BY HolderMoves, Zenon
  <1>2. \A i \in IPs : IpCount(i)' = IpCount(i)
    BY Zenon DEF IpCount
  <1> QED BY <1>1, <1>2, Zenon DEF SlotsCounted

\* What SetIpCount and ReleaseSlot do to the counts.
LEMMA SetCount ==
  ASSUME NEW i, NEW n \in Nat, SetIpCount(i, n)
  PROVE  \A k : IpCount(k)' = IF k = i THEN n ELSE IpCount(k)
  BY Zenon DEF SetIpCount, IpCount

\* ReleaseSlot takes one from its address, and the last one takes the entry.
LEMMA ReleaseCount ==
  ASSUME TypeOK, NEW i \in DOMAIN perIp, MaxPerIp # 0, ReleaseSlot(i)
  PROVE  \A k : IpCount(k)' = IF k = i THEN IpCount(k) - 1 ELSE IpCount(k)
  <1>1. perIp[i] \in Nat \ {0}
    BY Zenon DEF TypeOK
  <1>2. CASE perIp[i] <= 1
    <2>1. perIp' = [j \in DOMAIN perIp \ {i} |-> perIp[j]]
      BY <1>2, Zenon DEF ReleaseSlot
    <2> QED BY <1>1, <1>2, <2>1, SMTT(30) DEF IpCount
  <1>3. CASE ~(perIp[i] <= 1)
    <2>1. SetIpCount(i, perIp[i] - 1)
      BY <1>3, Zenon DEF ReleaseSlot
    <2>2. perIp[i] - 1 \in Nat /\ IpCount(i) = perIp[i]
      BY <1>1, <1>3, SMTT(30) DEF IpCount
    <2> QED BY <2>1, <2>2, SetCount, Zenon
  <1> QED BY <1>2, <1>3, Zenon

\* try_acquire takes one slot of the connection's address.
LEMMA SlotTaken ==
  ASSUME TypeOK, SlotsCounted, NEW c \in Conns, TryAcquire(c)
  PROVE  SlotsCounted'
  <1>1. /\ pc[c] \notin HoldingLabels /\ Goto(c, AfterSlot(c)) /\ ip' = ip
        /\ Account(c, ip[c]) /\ ip[c] \in IPs
    BY Zenon DEF TryAcquire, TypeOK, HoldingLabels, Account
  <1>2. AfterSlot(c) \in HoldingLabels
    BY Zenon DEF AfterSlot, TypeOK, HoldingLabels
  <1>3. CASE MaxPerIp = 0
    BY <1>3, Zenon DEF TryAcquire, SlotsCounted
  <1>4. CASE MaxPerIp # 0
    <2>1. IpCount(ip[c]) < MaxPerIp /\ SetIpCount(ip[c], IpCount(ip[c]) + 1)
      BY <1>4, Zenon DEF TryAcquire
    <2>2. ASSUME NEW i \in IPs
          PROVE  IpCount(i)' = Cardinality(Holding(i)') /\ IpCount(i)' <= MaxPerIp
      <3>1. /\ Cardinality(Holding(i)) \in Nat
            /\ Cardinality(Holding(i)') = Cardinality(Holding(i)) + (IF i = ip[c] THEN 1 ELSE 0)
        BY <1>1, <1>2, HolderMoves, ZenonT(30)
      <3>2. IpCount(i) = Cardinality(Holding(i)) /\ IpCount(i) <= MaxPerIp
        BY <1>4, Zenon DEF SlotsCounted
      <3>3. IpCount(ip[c]) \in Nat
        BY <1>1, Zenon DEF IpCount, TypeOK
      <3>4. IpCount(i)' = IF i = ip[c] THEN IpCount(ip[c]) + 1 ELSE IpCount(i)
        BY <2>1, <3>3, SetCount, SMTT(30)
      <3> QED BY <2>1, <3>1, <3>2, <3>3, <3>4, LimitsAssumption, SMTT(30)
    <2> QED BY <1>4, <2>2, Zenon DEF SlotsCounted
  <1> QED BY <1>3, <1>4, Zenon

\* The guard returns it.
LEMMA SlotReturned ==
  ASSUME TypeOK, SlotsCounted, NEW c \in Conns, DropGuard(c)
  PROVE  SlotsCounted'
  <1>1. ip[c] \in IPs /\ pc[c] \in HoldingLabels /\ ReleaseSlot(ip[c])
    BY Zenon DEF TypeOK, DropGuard, HoldingLabels
  <1>2. \E label \in {"tunnel", "idle"}, j \in IPs : Goto(c, label) /\ Account(c, j)
    <2>1. CASE c \in upgraded
      <3>1. Goto(c, "tunnel") /\ Account(c, ip[c])
        BY <2>1, Zenon DEF DropGuard, TypeOK, Account
      <3> QED BY <1>1, <3>1, Zenon
    <2>2. CASE c \notin upgraded
      BY <2>2, AddressType, Zenon DEF DropGuard, Close, Account
    <2> QED BY <2>1, <2>2, Zenon
  <1>3. PICK label \in {"tunnel", "idle"}, j \in IPs : Goto(c, label) /\ Account(c, j)
    BY <1>2, Zenon
  <1>4. CASE MaxPerIp = 0
    BY <1>1, <1>4, Zenon DEF ReleaseSlot, SlotsCounted
  <1>5. CASE MaxPerIp # 0
    <2>1. \A i \in IPs :
             /\ Cardinality(Holding(i)) \in Nat
             /\ Cardinality(Holding(i)') = Cardinality(Holding(i)) - (IF i = ip[c] THEN 1 ELSE 0)
      <3>1. label \notin HoldingLabels
        BY Zenon DEF HoldingLabels
      <3> QED BY <1>1, <1>3, <3>1, HolderMoves, ZenonT(30)
    <2>2. ip[c] \in DOMAIN perIp
      <3>1. IsFiniteSet(Holding(ip[c])) /\ c \in Holding(ip[c])
        BY <1>1, ConnsAssumption, FS_Subset, Zenon DEF Holding
      <3>2. Cardinality(Holding(ip[c])) # 0
        BY <3>1, FS_EmptySet, Zenon
      <3> QED BY <1>1, <1>5, <3>2, Zenon DEF SlotsCounted, IpCount
    <2>3. \A i \in IPs : IpCount(i)' = IF i = ip[c] THEN IpCount(i) - 1 ELSE IpCount(i)
      BY <1>1, <1>5, <2>2, ReleaseCount, Zenon
    <2>4. ASSUME NEW i \in IPs
          PROVE  IpCount(i)' = Cardinality(Holding(i)') /\ IpCount(i)' <= MaxPerIp
      <3>1. IpCount(i) = Cardinality(Holding(i)) /\ IpCount(i) <= MaxPerIp
        BY <1>5, Zenon DEF SlotsCounted
      <3> QED BY <2>1, <2>3, <3>1, LimitsAssumption, SMTT(30)
    <2> QED BY <1>5, <2>4, Zenon DEF SlotsCounted
  <1> QED BY <1>4, <1>5, Zenon

\* No slot is held at first.
LEMMA InitSlots == Init => SlotsCounted
  <1> SUFFICES ASSUME Init PROVE SlotsCounted
    OBVIOUS
  <1>1. \A i \in IPs : IpCount(i) = 0 /\ Holding(i) = {}
    BY SMTT(30) DEF Init, IpCount, Holding, HoldingLabels, Units
  <1>2. DOMAIN perIp = {}
    BY DEF Init
  <1> QED BY <1>1, <1>2, FS_EmptySet, LimitsAssumption, SMTT(30) DEF SlotsCounted

\* Streams hold no slots.
LEMMA StreamHoldsNothing ==
  ASSUME TypeOK, SlotsCounted, NEW s \in Streams, NEW label, Goto(s, label),
         perIp' = perIp, ip' = ip
  PROVE  SlotsCounted'
  <1>1. \A c \in Conns : pc'[c] = pc[c]
    BY UnitsAssumption, ZenonT(30) DEF Goto, TypeOK, Units
  <1>2. \A i \in IPs : IpCount(i)' = IpCount(i) /\ Holding(i)' = Holding(i)
    BY <1>1, Zenon DEF IpCount, Holding
  <1> QED BY <1>2, ZenonT(30) DEF SlotsCounted

\* Every step keeps the map of slots exact.
LEMMA SlotStep ==
  ASSUME TypeOK, SlotsCounted, [Next]_vars
  PROVE  SlotsCounted'
  <1> USE DEF HoldingLabels
  <1>0. \A c \in Conns : ip[c] \in IPs /\ (ip' = ip => Account(c, ip[c]))
    BY ZenonT(30) DEF TypeOK, Account
  <1>1. ASSUME NEW c \in Conns, NEW l \in {"http", "https", "h3"}, NEW i \in IPs, Accept(c, l, i)
        PROVE  SlotsCounted'
    <2>1. pc[c] = "idle" /\ perIp' = perIp /\ Account(c, i)
      BY <1>1, ZenonT(30) DEF Accept, Account
    <2>2. Goto(c, "parse") \/ Goto(c, "slot")
      BY <1>1 DEF Accept
    <2>3. ASSUME NEW label \in {"parse", "slot"}, Goto(c, label)
          PROVE  SlotsCounted'
      BY <2>1, <2>3, SlotKept, SMTT(30)
    <2> QED BY <2>2, <2>3, Zenon
  <1>2. ASSUME NEW c \in Conns, NEW i \in IPs, ParseOk(c, i)
        PROVE  SlotsCounted'
    <2>1. pc[c] = "parse" /\ perIp' = perIp /\ Account(c, i) /\ Goto(c, "slot")
      BY <1>2 DEF ParseOk, Account
    <2> QED BY <2>1, SlotKept, SMTT(30)
  <1>3. ASSUME NEW c \in Conns, ParseFails(c) \/ ParseTimeout(c) \/ TryAcquireFails(c) \/ TunnelEnds(c)
        PROVE  SlotsCounted'
    <2>1. /\ pc[c] \in {"parse", "slot", "tunnel"} /\ perIp' = perIp
          /\ Goto(c, "idle") /\ Account(c, AnyIP)
      BY <1>3, SMTT(30) DEF ParseFails, ParseTimeout, TryAcquireFails, TunnelEnds, Close, Account
    <2> QED BY <2>1, SlotKept, AddressType, SMTT(30)
  <1>4. ASSUME NEW c \in Conns, \/ ShakeOk(c) \/ ShakeAcme(c) \/ ShakeFails(c) \/ Bye(c) \/ H3Close(c)
                                \/ Increment(c) \/ ServeEnds(c) \/ ServeUpgrades(c)
        PROVE  SlotsCounted'
    <2>1. /\ pc[c] \in {"shake", "bye", "h3", "count", "serve"} /\ perIp' = perIp /\ ip' = ip
          /\ \E label \in {"count", "bye", "drop", "load", "serve"} : Goto(c, label)
      BY <1>4, ZenonT(30) DEF ShakeOk, ShakeAcme, ShakeFails, Bye, H3Close, Increment, ServeEnds, ServeUpgrades
    <2> QED BY <1>0, <2>1, SlotKept, SMTT(30)
  <1>5. ASSUME NEW c \in Conns, DecLoad(c) \/ DecExchange(c)
        PROVE  SlotsCounted'
    <2>1. /\ pc[c] \in {"load", "cas"} /\ perIp' = perIp /\ ip' = ip
          /\ \E label \in {"cas", "drop", "load"} : Goto(c, label)
      BY <1>5, ZenonT(30) DEF DecLoad, DecExchange, AfterDecrement
    <2> QED BY <1>0, <2>1, SlotKept, ZenonT(30)
  <1>6. ASSUME NEW c \in Conns, NEW s \in Streams, H3Increment(c, s)
        PROVE  SlotsCounted'
    <2>1. pc[c] = "h3" /\ perIp' = perIp /\ ip' = ip /\ (Goto(c, "load") \/ Goto(s, "serve"))
      BY <1>6, SMTT(30) DEF H3Increment
    <2>2. CASE Goto(c, "load")
      BY <1>0, <2>1, <2>2, SlotKept, ZenonT(30)
    <2>3. CASE Goto(s, "serve")
      BY <2>1, <2>3, StreamHoldsNothing
    <2> QED BY <2>1, <2>2, <2>3, SMTT(30)
  <1>7. ASSUME NEW s \in Streams, ServeEnds(s) \/ DecLoad(s) \/ DecExchange(s)
        PROVE  SlotsCounted'
    <2>1. perIp' = perIp /\ ip' = ip /\ \E label : Goto(s, label)
      BY <1>7, Zenon DEF ServeEnds, DecLoad, DecExchange
    <2> QED BY <2>1, StreamHoldsNothing, SMTT(30)
  <1>8. ASSUME NEW c \in Conns, TryAcquire(c) \/ DropGuard(c)
        PROVE  SlotsCounted'
    BY <1>8, SlotTaken, SlotReturned, Zenon
  <1>9. CASE UNCHANGED vars
    <2>1. \A i \in IPs : IpCount(i)' = IpCount(i) /\ Holding(i)' = Holding(i)
      BY <1>9, ZenonT(30) DEF vars, IpCount, Holding
    <2> QED BY <1>9, <2>1, Zenon DEF vars, SlotsCounted
  <1> QED BY <1>1, <1>2, <1>3, <1>4, <1>5, <1>6, <1>7, <1>8, <1>9, ZenonT(30)
          DEF Next, OwnStep, ConnStep, Decrement

\* An address has an entry if and only if it holds a slot.
LEMMA EntriesHeld ==
  ASSUME TypeOK, SlotsCounted
  PROVE  PerIpExact
  <1>1. CASE MaxPerIp = 0
    BY <1>1, Zenon DEF SlotsCounted, PerIpExact
  <1>2. CASE MaxPerIp # 0
    <2>1. ASSUME NEW i \in IPs
          PROVE  /\ IpCount(i) = Cardinality(Holding(i)) /\ IpCount(i) <= MaxPerIp
                 /\ Holding(i) = {} <=> Cardinality(Holding(i)) = 0
      <3>1. IsFiniteSet(Holding(i))
        BY ConnsAssumption, FS_Subset, Zenon DEF Holding
      <3> QED BY <1>2, <3>1, FS_EmptySet, Zenon DEF SlotsCounted
    <2>2. ASSUME NEW i \in DOMAIN perIp
          PROVE  i \in IPs /\ IpCount(i) = perIp[i] /\ IpCount(i) # 0
      <3>1. perIp[i] \in Nat \ {0} /\ i \in IPs
        BY Zenon DEF TypeOK
      <3> QED BY <3>1, Zenon DEF IpCount
    <2>3. \A i \in IPs : i \notin DOMAIN perIp => IpCount(i) = 0
      BY Zenon DEF IpCount
    <2>4. DOMAIN perIp = {i \in IPs : Holding(i) # {}}
      <3>1. \A i : i \in DOMAIN perIp <=> i \in IPs /\ Holding(i) # {}
        BY <2>1, <2>2, <2>3, Zenon
      <3> QED BY <3>1, Zenon
    <2>5. \A i \in DOMAIN perIp : perIp[i] = Cardinality(Holding(i)) /\ perIp[i] <= MaxPerIp
      BY <2>1, <2>2, Zenon
    <2> QED BY <1>2, <2>4, <2>5, Zenon DEF PerIpExact
  <1> QED BY <1>1, <1>2, Zenon

\* For any number of connections and addresses, every path out of a connection
\* returns its slot, no address has more than max_clients_per_ip, and the map has an
\* entry for exactly the addresses that hold one.
THEOREM PerIpCorrect == Spec => []PerIpExact
  <1>1. Init => SlotsCounted
    BY InitSlots
  <1>2. TypeOK /\ SlotsCounted /\ [Next]_vars => SlotsCounted'
    BY SlotStep
  <1>3. TypeOK /\ SlotsCounted => PerIpExact
    BY EntriesHeld
  <1> QED BY <1>1, <1>2, <1>3, TypeCorrect, PTL DEF Spec

-----------------------------------------------------------------------------
(* Permits.                                                                *)

Pending == {"parse", "slot", "shake", "bye", "count"}

\* PendingBounded is not inductive: it must be known that a pending connection
\* of a TCP listener holds a permit, and that a new connection holds none yet.
PermitInv ==
  /\ \A c \in permit : pc[c] # "idle"
  /\ UsePP => \A c \in Conns : kind[c] # "h3" /\ pc[c] \in Pending => c \in permit
  /\ \A l \in {"http", "https"} : Cardinality(Permits(l)) <= MaxClients

\* The permits of a listener can be counted.
LEMMA PermitsFinite ==
  ASSUME TypeOK, NEW l
  PROVE  IsFiniteSet(Permits(l)) /\ Cardinality(Permits(l)) \in Nat
  <1>1. IsFiniteSet(Permits(l))
    BY ConnsAssumption, FS_Subset, Zenon DEF Permits, TypeOK
  <1> QED BY <1>1, FS_CardinalityType, Zenon

\* No permit is taken at first.
LEMMA InitPermits == Init => PermitInv
  <1> SUFFICES ASSUME Init PROVE PermitInv
    OBVIOUS
  <1>1. \A l : Permits(l) = {}
    BY Zenon DEF Init, Permits
  <1>2. \A c \in Conns : pc[c] \notin Pending
    BY Zenon DEF Init, Units, Pending
  <1>3. permit = {}
    BY Zenon DEF Init
  <1> QED BY <1>1, <1>2, <1>3, FS_EmptySet, LimitsAssumption, SMTT(30) DEF PermitInv

\* A connection that moves on within its listener, perhaps giving its permit up.
LEMMA PermitKept ==
  ASSUME TypeOK, PermitInv, NEW c \in Conns, NEW label, Goto(c, label), label # "idle",
         kind' = kind,
         \/ permit' = permit
         \/ permit' = permit \ {c} /\ label \notin Pending,
         label \in Pending => (pc[c] \in Pending \/ kind[c] = "h3")
  PROVE  PermitInv'
  <1>1. pc'[c] = label /\ \A d \in Conns : d # c => pc'[d] = pc[d]
    BY ZenonT(30) DEF Goto, TypeOK, Units
  <1>2. \A d \in permit' : pc'[d] # "idle"
    BY <1>1, ZenonT(30) DEF PermitInv, TypeOK
  <1>3. UsePP => \A d \in Conns : kind'[d] # "h3" /\ pc'[d] \in Pending => d \in permit'
    BY <1>1, ZenonT(30) DEF PermitInv
  <1>4. ASSUME NEW l \in {"http", "https"}
        PROVE  Cardinality(Permits(l)') <= MaxClients
    <2>1. Permits(l)' \subseteq Permits(l)
      BY Zenon DEF Permits
    <2>2. Cardinality(Permits(l)') <= Cardinality(Permits(l)) /\ Cardinality(Permits(l)') \in Nat
      BY <2>1, PermitsFinite, FS_Subset, FS_CardinalityType, Zenon
    <2> QED BY <2>2, PermitsFinite, LimitsAssumption, SMTT(30) DEF PermitInv
  <1> QED BY <1>2, <1>3, <1>4, Zenon DEF PermitInv

\* A connection that closes leaves the set of permits.
LEMMA PermitClosed ==
  ASSUME TypeOK, PermitInv, NEW c \in Conns, Close(c)
  PROVE  PermitInv'
  <1>1. /\ pc'[c] = "idle" /\ permit' = permit \ {c}
        /\ \A d \in Conns : d # c => pc'[d] = pc[d] /\ kind'[d] = kind[d]
    BY Zenon DEF Close, Goto, TypeOK, Units
  <1>2. \A d \in permit' : pc'[d] # "idle"
    BY <1>1, ZenonT(30) DEF PermitInv, TypeOK
  <1>3. UsePP => \A d \in Conns : kind'[d] # "h3" /\ pc'[d] \in Pending => d \in permit'
    BY <1>1, Zenon DEF PermitInv, Pending
  <1>4. ASSUME NEW l \in {"http", "https"}
        PROVE  Cardinality(Permits(l)') <= MaxClients
    <2>1. Permits(l)' \subseteq Permits(l)
      BY <1>1, ZenonT(30) DEF Permits, TypeOK
    <2>2. Cardinality(Permits(l)') <= Cardinality(Permits(l)) /\ Cardinality(Permits(l)') \in Nat
      BY <2>1, PermitsFinite, FS_Subset, FS_CardinalityType, Zenon
    <2> QED BY <2>2, PermitsFinite, LimitsAssumption, SMTT(30) DEF PermitInv
  <1> QED BY <1>2, <1>3, <1>4, Zenon DEF PermitInv

\* A new connection takes a permit only if its listener has one left.
LEMMA PermitTaken ==
  ASSUME TypeOK, PermitInv, NEW c \in Conns, NEW l \in {"http", "https", "h3"}, NEW i \in IPs,
         Accept(c, l, i)
  PROVE  PermitInv'
  <1>1. pc[c] = "idle" /\ c \notin permit
    BY Zenon DEF Accept, PermitInv
  <1>2. kind'[c] = l /\ \A d \in Conns : d # c => kind'[d] = kind[d]
    BY ZenonT(30) DEF Accept, TypeOK
  <1>3. CASE UsePP /\ l # "h3"
    <2>1. Cardinality(Permits(l)) < MaxClients /\ permit' = permit \cup {c} /\ Goto(c, "parse")
      BY <1>3, Zenon DEF Accept
    <2>2. pc'[c] = "parse" /\ \A d \in Conns : d # c => pc'[d] = pc[d]
      BY <2>1, Zenon DEF Goto, TypeOK, Units
    <2>3. /\ \A d \in permit' : pc'[d] # "idle"
          /\ UsePP => \A d \in Conns : kind'[d] # "h3" /\ pc'[d] \in Pending => d \in permit'
      BY <1>2, <2>1, <2>2, SMTT(30) DEF PermitInv, TypeOK
    <2>4. ASSUME NEW m \in {"http", "https"}
          PROVE  Cardinality(Permits(m)') <= MaxClients
      <3>1. Permits(m)' = IF m = l THEN Permits(m) \cup {c} ELSE Permits(m)
        BY <1>1, <1>2, <2>1, SMTT(30) DEF Permits, TypeOK
      <3>2. CASE m = l
        <4>1. c \notin Permits(m)
          BY <1>1, Zenon DEF Permits
        <4>2. Cardinality(Permits(m)') = Cardinality(Permits(m)) + 1
          BY <3>1, <3>2, <4>1, PermitsFinite, FS_AddElement, ZenonT(30)
        <4> QED BY <2>1, <3>2, <4>2, PermitsFinite, LimitsAssumption, SMTT(30)
      <3>3. CASE m # l
        BY <3>1, <3>3, Zenon DEF PermitInv
      <3> QED BY <3>2, <3>3, Zenon
    <2> QED BY <2>3, <2>4, Zenon DEF PermitInv
  <1>4. CASE ~(UsePP /\ l # "h3")
    <2>1. permit' = permit /\ Goto(c, "slot")
      BY <1>4, Zenon DEF Accept
    <2>2. pc'[c] = "slot" /\ \A d \in Conns : d # c => pc'[d] = pc[d]
      BY <2>1, Zenon DEF Goto, TypeOK, Units
    <2>3. /\ \A d \in permit' : pc'[d] # "idle"
          /\ UsePP => \A d \in Conns : kind'[d] # "h3" /\ pc'[d] \in Pending => d \in permit'
      BY <1>1, <1>2, <1>4, <2>1, <2>2, SMTT(30) DEF PermitInv, TypeOK
    <2>4. \A m \in {"http", "https"} : Permits(m)' = Permits(m)
      BY <1>1, <1>2, <2>1, SMTT(30) DEF Permits, TypeOK
    <2> QED BY <2>3, <2>4, Zenon DEF PermitInv
  <1> QED BY <1>3, <1>4, Zenon

\* A stream that moves has no part in the permits.
LEMMA StreamHasNoPermit ==
  ASSUME TypeOK, PermitInv, NEW s \in Streams, NEW label, Goto(s, label),
         kind' = kind, permit' = permit
  PROVE  PermitInv'
  <1>1. \A c \in Conns : pc'[c] = pc[c]
    BY UnitsAssumption, ZenonT(30) DEF Goto, TypeOK, Units
  <1>2. \A l : Permits(l)' = Permits(l)
    BY SMTT(30) DEF Permits
  <1> QED BY <1>1, <1>2, ZenonT(30) DEF PermitInv, TypeOK

\* Every step keeps the permits right.
LEMMA PermitStep ==
  ASSUME TypeOK, PermitInv, [Next]_vars
  PROVE  PermitInv'
  <1>1. ASSUME NEW c \in Conns, NEW l \in {"http", "https", "h3"}, NEW i \in IPs, Accept(c, l, i)
        PROVE  PermitInv'
    BY <1>1, PermitTaken, Zenon
  <1>2. ASSUME NEW c \in Conns,
               ParseFails(c) \/ ParseTimeout(c) \/ TryAcquireFails(c) \/ TunnelEnds(c)
        PROVE  PermitInv'
    BY <1>2, PermitClosed, ZenonT(30) DEF ParseFails, ParseTimeout, TryAcquireFails, TunnelEnds
  <1>3. ASSUME NEW c \in Conns, NEW i \in IPs, ParseOk(c, i)
        PROVE  PermitInv'
    BY <1>3, PermitKept, ZenonT(30) DEF ParseOk, Pending
  <1>4. ASSUME NEW c \in Conns, TryAcquire(c)
        PROVE  PermitInv'
    <2>1. pc[c] \in Pending /\ Goto(c, AfterSlot(c)) /\ kind' = kind /\ permit' = permit
      BY <1>4, ZenonT(30) DEF TryAcquire, Pending
    <2>2. AfterSlot(c) \in {"count", "shake", "h3"}
      BY SMTT(30) DEF AfterSlot, TypeOK
    <2> QED BY <2>1, <2>2, PermitKept, Zenon
  <1>5. ASSUME NEW c \in Conns, \/ ShakeOk(c) \/ ShakeAcme(c) \/ ShakeFails(c) \/ Bye(c)
                                \/ H3Close(c) \/ ServeEnds(c) \/ ServeUpgrades(c)
        PROVE  PermitInv'
    <2>1. /\ kind' = kind /\ permit' = permit
          /\ \/ pc[c] = "shake" /\ (Goto(c, "count") \/ Goto(c, "bye") \/ Goto(c, "drop"))
             \/ Goto(c, "drop") \/ Goto(c, "load")
      BY <1>5, Zenon DEF ShakeOk, ShakeAcme, ShakeFails, Bye, H3Close, ServeEnds, ServeUpgrades
    <2>2. "shake" \in Pending /\ "drop" \notin Pending /\ "load" \notin Pending
      BY Zenon DEF Pending
    <2> QED BY <2>1, <2>2, PermitKept, Zenon
  <1>6. ASSUME NEW c \in Conns, Increment(c)
        PROVE  PermitInv'
    <2>1. /\ kind' = kind
          /\ \/ permit' = permit /\ Goto(c, "load")
             \/ permit' = permit \ {c} /\ Goto(c, "serve")
      BY <1>6, Zenon DEF Increment
    <2>2. "serve" \notin Pending /\ "load" \notin Pending
      BY Zenon DEF Pending
    <2> QED BY <2>1, <2>2, PermitKept, Zenon
  <1>7. ASSUME NEW c \in Conns, DecLoad(c) \/ DecExchange(c)
        PROVE  PermitInv'
    <2>1. /\ kind' = kind /\ permit' = permit
          /\ \E label \in {"cas", "drop", "load"} : Goto(c, label)
      BY <1>7, Zenon DEF DecLoad, DecExchange, AfterDecrement
    <2>2. \A label \in {"cas", "drop", "load"} : label \notin Pending /\ label # "idle"
      BY DEF Pending
    <2> QED BY <2>1, <2>2, PermitKept, Zenon
  <1>8. ASSUME NEW c \in Conns, DropGuard(c)
        PROVE  PermitInv'
    <2>1. CASE c \in upgraded
      BY <1>8, <2>1, PermitKept, Zenon DEF DropGuard, Pending
    <2>2. CASE c \notin upgraded
      BY <1>8, <2>2, PermitClosed, Zenon DEF DropGuard
    <2> QED BY <2>1, <2>2, Zenon
  <1>9. ASSUME NEW c \in Conns, NEW s \in Streams, H3Increment(c, s)
        PROVE  PermitInv'
    <2>1. kind' = kind /\ permit' = permit /\ (Goto(c, "load") \/ Goto(s, "serve"))
      BY <1>9, Zenon DEF H3Increment
    <2>2. "load" \notin Pending
      BY Zenon DEF Pending
    <2> QED BY <2>1, <2>2, PermitKept, StreamHasNoPermit, Zenon
  <1>10. ASSUME NEW s \in Streams, ServeEnds(s) \/ DecLoad(s) \/ DecExchange(s)
         PROVE  PermitInv'
    <2>1. kind' = kind /\ permit' = permit /\ \E label : Goto(s, label)
      BY <1>10, Zenon DEF ServeEnds, DecLoad, DecExchange
    <2> QED BY <2>1, StreamHasNoPermit
  <1>11. CASE UNCHANGED vars
    BY <1>11, Zenon DEF vars, PermitInv, Permits
  <1> QED BY <1>1, <1>2, <1>3, <1>4, <1>5, <1>6, <1>7, <1>8, <1>9, <1>10, <1>11, ZenonT(30)
          DEF Next, OwnStep, ConnStep, Decrement

\* Whatever the number of connections, a TCP listener with PROXY protocol never
\* has more than max_clients of them between accept and service.
THEOREM PendingCorrect == Spec => []PendingBounded
  <1>1. Init => PermitInv
    BY InitPermits
  <1>2. TypeOK /\ PermitInv /\ [Next]_vars => PermitInv'
    BY PermitStep
  <1>3. TypeOK /\ PermitInv => PendingBounded
    <2> SUFFICES ASSUME TypeOK, PermitInv, UsePP, NEW l \in {"http", "https"}
                 PROVE  Cardinality({c \in Conns : kind[c] = l /\ pc[c] \in Pending}) <= MaxClients
      BY Zenon DEF PendingBounded, Pending
    <2> DEFINE P == {c \in Conns : kind[c] = l /\ pc[c] \in Pending}
    <2>1. P \subseteq Permits(l)
      BY Zenon DEF PermitInv, Permits
    <2>2. Cardinality(P) <= Cardinality(Permits(l)) /\ Cardinality(P) \in Nat
      BY <2>1, PermitsFinite, FS_Subset, FS_CardinalityType, Zenon
    <2> HIDE DEF P
    <2>3. Cardinality(P) <= MaxClients
      BY <2>2, PermitsFinite, LimitsAssumption, SMTT(30) DEF PermitInv
    <2> QED BY <2>3, Zenon DEF P
  <1> QED BY <1>1, <1>2, <1>3, TypeCorrect, PTL DEF Spec

=============================================================================
