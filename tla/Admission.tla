------------------------------ MODULE Admission ------------------------------
(***************************************************************************)
(* How rpxy-lib admits work (count.rs, proxy/proxy_main.rs, proxy_h3.rs):  *)
(* the global RequestCount against max_clients, the per-source-IP slots    *)
(* (PerIpConnectionCount and its guard), and the semaphore that bounds     *)
(* the tasks reading a PROXY header or doing a TLS handshake.  TCP         *)
(* connections, HTTP/3 connections and the request streams of the latter   *)
(* run in tasks of their own; a step is one access to shared state, or     *)
(* the end of one await.                                                   *)
(***************************************************************************)
EXTENDS Naturals, FiniteSets

CONSTANTS
  Conns,        \* connections; an identifier is reused after a connection
  Streams,      \* HTTP/3 request streams, reused likewise
  IPs,          \* source addresses
  MaxClients,   \* max_clients
  MaxPerIp,     \* max_clients_per_ip; 0 disables the limit
  UsePP,        \* tcp_recv_proxy_protocol is configured
  PpTimeout     \* its timeout, in seconds

ASSUME ConnsAssumption == IsFiniteSet(Conns) /\ IsFiniteSet(Streams)
ASSUME UnitsAssumption == Conns \cap Streams = {}
ASSUME IPsAssumption == IPs # {}
ASSUME LimitsAssumption == MaxClients \in Nat /\ MaxPerIp \in Nat
ASSUME PPAssumption == UsePP \in BOOLEAN /\ PpTimeout \in Nat

VARIABLES
  count,     \* RequestCount
  perIp,     \* PerIpConnectionCount.inner: a map from addresses to counts
  pc,        \* what each connection or stream does next
  kind,      \* the listener of a connection: "http", "https" or "h3"
  ip,        \* the address a connection is accounted to
  permit,    \* connections whose task holds a permit of its listener
  seen,      \* the count loaded by RequestCount::decrement
  upgraded   \* connections that have been switched to another protocol

vars == <<count, perIp, pc, kind, ip, permit, seen, upgraded>>

Units == Conns \cup Streams

AnyIP == CHOOSE i \in IPs : TRUE

Init ==
  /\ count = 0
  /\ perIp = [i \in {} |-> 0]
  /\ pc = [u \in Units |-> "idle"]
  /\ kind = [c \in Conns |-> "http"]
  /\ ip = [c \in Conns |-> AnyIP]
  /\ permit = {}
  /\ seen = [u \in Units |-> 0]
  /\ upgraded = {}

Goto(u, label) == pc' = [pc EXCEPT ![u] = label]

\* The connection is closed; its identifier may be used for the next one.
Close(c) ==
  /\ Goto(c, "idle")
  /\ permit' = permit \ {c}
  /\ kind' = [kind EXCEPT ![c] = "http"]
  /\ ip' = [ip EXCEPT ![c] = AnyIP]

(***************************************************************************)
(* The listeners                                                           *)
(***************************************************************************)
Permits(l) == {c \in permit : kind[c] = l}

\* A TCP connection is accepted, or a QUIC one established.  With PROXY
\* protocol a TCP connection needs a permit and is dropped when there is none.
Accept(c, l, i) ==
  /\ pc[c] = "idle"
  /\ kind' = [kind EXCEPT ![c] = l]
  /\ ip' = [ip EXCEPT ![c] = i]
  /\ IF UsePP /\ l # "h3"
     THEN /\ Cardinality(Permits(l)) < MaxClients
          /\ permit' = permit \cup {c}
          /\ Goto(c, "parse")
     ELSE UNCHANGED permit /\ Goto(c, "slot")
  /\ UNCHANGED <<count, perIp, seen, upgraded>>

\* Mutant: the permit covers the PROXY header only.
ParseOkReturnsPermit(c, i) ==
  /\ pc[c] = "parse"
  /\ ip' = [ip EXCEPT ![c] = i]
  /\ permit' = permit \ {c}
  /\ Goto(c, "slot")
  /\ UNCHANGED <<count, perIp, kind, seen, upgraded>>

\* The PROXY header names the real client, or keeps the peer.
ParseOk(c, i) ==
  /\ pc[c] = "parse"
  /\ ip' = [ip EXCEPT ![c] = i]
  /\ Goto(c, "slot")
  /\ UNCHANGED <<count, perIp, kind, permit, seen, upgraded>>

ParseFails(c) ==
  /\ pc[c] = "parse"
  /\ Close(c)
  /\ UNCHANGED <<count, perIp, seen, upgraded>>

\* Mutant: a timeout of zero means none.
EffectiveTimeoutRaw == PpTimeout

\* PROXY_PROTOCOL_FALLBACK_TIMEOUT replaces a timeout of zero.
EffectiveTimeout == IF PpTimeout = 0 THEN 5 ELSE PpTimeout

ParseTimeout(c) ==
  /\ pc[c] = "parse"
  /\ EffectiveTimeout > 0
  /\ Close(c)
  /\ UNCHANGED <<count, perIp, seen, upgraded>>

(***************************************************************************)
(* PerIpConnectionCount::try_acquire and the drop of its guard             *)
(***************************************************************************)
IpCount(i) == IF i \in DOMAIN perIp THEN perIp[i] ELSE 0

SetIpCount(i, n) ==
  perIp' = [j \in DOMAIN perIp \cup {i} |-> IF j = i THEN n ELSE perIp[j]]

\* Where a connection goes once it has its slot.
AfterSlot(c) ==
  CASE kind[c] = "http" -> "count" [] kind[c] = "https" -> "shake" [] kind[c] = "h3" -> "h3"

TryAcquire(c) ==
  /\ pc[c] = "slot"
  /\ IF MaxPerIp = 0 THEN UNCHANGED perIp
     ELSE IpCount(ip[c]) < MaxPerIp /\ SetIpCount(ip[c], IpCount(ip[c]) + 1)
  /\ Goto(c, AfterSlot(c))
  /\ UNCHANGED <<count, kind, ip, permit, seen, upgraded>>

TryAcquireFails(c) ==
  /\ pc[c] = "slot"
  /\ MaxPerIp > 0 /\ IpCount(ip[c]) >= MaxPerIp
  /\ Close(c)
  /\ UNCHANGED <<count, perIp, seen, upgraded>>

\* Mutant: the last slot of an address leaves an entry of zero.
ReleaseSlotKeepsEntry(i) ==
  IF MaxPerIp = 0 \/ i \notin DOMAIN perIp THEN UNCHANGED perIp
  ELSE SetIpCount(i, perIp[i] - 1)

\* The entry of an address disappears with its last slot.
ReleaseSlot(i) ==
  IF MaxPerIp = 0 \/ i \notin DOMAIN perIp THEN UNCHANGED perIp
  ELSE IF perIp[i] <= 1 THEN perIp' = [j \in DOMAIN perIp \ {i} |-> perIp[j]]
  ELSE SetIpCount(i, perIp[i] - 1)

\* The guard is dropped: the connection is over for its task, though an upgraded
\* one lives on in the task that copies between client and backend.
DropGuard(c) ==
  /\ pc[c] = "drop"
  /\ ReleaseSlot(ip[c])
  /\ IF c \in upgraded
     THEN Goto(c, "tunnel") /\ UNCHANGED <<kind, ip, permit>>
     ELSE Close(c)
  /\ UNCHANGED <<count, seen, upgraded>>

(***************************************************************************)
(* The TLS handshake of serve_tls_tcp_connection                           *)
(***************************************************************************)
ShakeOk(c) ==
  /\ pc[c] = "shake"
  /\ Goto(c, "count")
  /\ UNCHANGED <<count, perIp, kind, ip, permit, seen, upgraded>>

\* An ACME validation connection is shut down after its handshake.
ShakeAcme(c) ==
  /\ pc[c] = "shake"
  /\ Goto(c, "bye")
  /\ UNCHANGED <<count, perIp, kind, ip, permit, seen, upgraded>>

Bye(c) ==
  /\ pc[c] = "bye"
  /\ Goto(c, "drop")
  /\ UNCHANGED <<count, perIp, kind, ip, permit, seen, upgraded>>

\* The handshake fails, if only by TLS_HANDSHAKE_TIMEOUT_SEC.
ShakeFails(c) ==
  /\ pc[c] = "shake"
  /\ Goto(c, "drop")
  /\ UNCHANGED <<count, perIp, kind, ip, permit, seen, upgraded>>

(***************************************************************************)
(* RequestCount                                                            *)
(***************************************************************************)
\* Mutant: the value before the increment is taken for the one after it.
IncrementOffByOne(c) ==
  /\ pc[c] = "count"
  /\ count' = count + 1
  /\ IF count > MaxClients
     THEN Goto(c, "load") /\ UNCHANGED permit
     ELSE Goto(c, "serve") /\ permit' = permit \ {c}
  /\ UNCHANGED <<perIp, kind, ip, seen, upgraded>>

\* serve_connection: fetch_add, then serve in a new task or undo.  The permit
\* goes with the accepting task, which ends when it has spawned that task.
Increment(c) ==
  /\ pc[c] = "count"
  /\ count' = count + 1
  /\ IF count >= MaxClients
     THEN Goto(c, "load") /\ UNCHANGED permit
     ELSE Goto(c, "serve") /\ permit' = permit \ {c}
  /\ UNCHANGED <<perIp, kind, ip, seen, upgraded>>

\* h3_serve_connection does the same for a request stream, and gives the whole
\* connection up when there are too many.
H3Increment(c, s) ==
  /\ pc[c] = "h3" /\ pc[s] = "idle"
  /\ count' = count + 1
  /\ IF count >= MaxClients THEN Goto(c, "load") ELSE Goto(s, "serve")
  /\ UNCHANGED <<perIp, kind, ip, permit, seen, upgraded>>

\* accept yields the end or an error, or the HTTP/3 layer cannot be set up.
H3Close(c) ==
  /\ pc[c] = "h3"
  /\ Goto(c, "drop")
  /\ UNCHANGED <<count, perIp, kind, ip, permit, seen, upgraded>>

\* The connection or stream is served: it ends, fails or times out.
ServeEnds(u) ==
  /\ pc[u] = "serve"
  /\ Goto(u, "load")
  /\ UNCHANGED <<count, perIp, kind, ip, permit, seen, upgraded>>

\* hyper hands an upgraded connection over and its future completes.
ServeUpgrades(c) ==
  /\ pc[c] = "serve"
  /\ Goto(c, "load")
  /\ upgraded' = upgraded \cup {c}
  /\ UNCHANGED <<count, perIp, kind, ip, permit, seen>>

AfterDecrement(u) == IF u \in Conns THEN "drop" ELSE "idle"

\* RequestCount::decrement: load, stop at zero, else compare and exchange.
DecLoad(u) ==
  /\ pc[u] = "load"
  /\ seen' = [seen EXCEPT ![u] = count]
  /\ Goto(u, IF count > 0 THEN "cas" ELSE AfterDecrement(u))
  /\ UNCHANGED <<count, perIp, kind, ip, permit, upgraded>>

\* Mutant: a plain store of the decremented value.
DecExchangeStores(u) ==
  /\ pc[u] = "cas"
  /\ count' = seen[u] - 1
  /\ Goto(u, AfterDecrement(u))
  /\ seen' = [seen EXCEPT ![u] = 0]
  /\ UNCHANGED <<perIp, kind, ip, permit, upgraded>>

DecExchange(u) ==
  /\ pc[u] = "cas"
  /\ IF count = seen[u]
     THEN count' = count - 1 /\ Goto(u, AfterDecrement(u))
     ELSE UNCHANGED count /\ Goto(u, "load")
  /\ seen' = [seen EXCEPT ![u] = 0]
  /\ UNCHANGED <<perIp, kind, ip, permit, upgraded>>

\* One side of the upgraded connection is closed.
TunnelEnds(c) ==
  /\ pc[c] = "tunnel"
  /\ Close(c)
  /\ upgraded' = upgraded \ {c}
  /\ UNCHANGED <<count, perIp, seen>>

-----------------------------------------------------------------------------
Decrement(u) == DecLoad(u) \/ DecExchange(u)

\* The steps that depend on nobody: the runtime takes them, or a timer fires.
OwnStep(c) ==
  \/ ParseTimeout(c) \/ TryAcquire(c) \/ TryAcquireFails(c) \/ ShakeFails(c)
  \/ Increment(c) \/ Decrement(c) \/ DropGuard(c)

ConnStep(c) ==
  \/ \E l \in {"http", "https", "h3"}, i \in IPs : Accept(c, l, i)
  \/ \E i \in IPs : ParseOk(c, i)
  \/ ParseFails(c) \/ ShakeOk(c) \/ ShakeAcme(c) \/ Bye(c)
  \/ H3Close(c) \/ ServeEnds(c) \/ ServeUpgrades(c) \/ TunnelEnds(c)
  \/ \E s \in Streams : H3Increment(c, s)

Next ==
  \/ \E c \in Conns : OwnStep(c) \/ ConnStep(c)
  \/ \E s \in Streams : ServeEnds(s) \/ Decrement(s)

Spec == Init /\ [][Next]_vars

\* A ready task is polled and a timer fires; what a peer sends is up to it.
FairSpec == Spec /\ \A c \in Conns : WF_vars(OwnStep(c))

-----------------------------------------------------------------------------
(***************************************************************************)
(* Properties                                                              *)
(***************************************************************************)
ConnLabels == {"idle", "parse", "slot", "shake", "bye", "count", "h3", "serve",
               "load", "cas", "drop", "tunnel"}

\* Every variable has its type, and no address is kept without a slot.
TypeOK ==
  /\ count \in Nat
  /\ DOMAIN perIp \subseteq IPs /\ \A i \in DOMAIN perIp : perIp[i] \in Nat \ {0}
  /\ pc \in [Units -> ConnLabels]
  /\ \A s \in Streams : pc[s] \in {"idle", "serve", "load", "cas"}
  /\ kind \in [Conns -> {"http", "https", "h3"}]
  /\ ip \in [Conns -> IPs]
  /\ permit \subseteq Conns /\ upgraded \subseteq Conns
  /\ seen \in [Units -> Nat]

At(labels) == {u \in Units : pc[u] \in labels}

\* RequestCount is exactly the number of connections and streams that are being
\* served or on their way out: no interleaving of fetch_add, the undoing of a
\* refused one and the compare-exchange loop loses or repeats a count, so the
\* loop's stop at zero never hides an unmatched decrement.
CountExact == count = Cardinality(At({"serve", "load", "cas"}))

\* At most max_clients TCP connections and HTTP/3 streams are served at a time,
\* although every arrival increments the count before it looks at the limit.
ServedWithinLimit == Cardinality(At({"serve"})) <= MaxClients

HoldingLabels == {"shake", "bye", "count", "h3", "serve", "load", "cas", "drop"}

\* The connections that hold a slot of address i.
Holding(i) == {c \in Conns : pc[c] \in HoldingLabels /\ ip[c] = i}

\* With a per-IP limit, the map has an entry for exactly the addresses that hold
\* slots, each with their number, and no address is over the limit: every path out
\* of a connection (handshake failure, refusal, ACME shutdown, close) returns the
\* slot, and the last one takes the entry along, so that the map does not grow with
\* the addresses ever seen.
PerIpExact ==
  IF MaxPerIp = 0 THEN DOMAIN perIp = {}
  ELSE /\ DOMAIN perIp = {i \in IPs : Holding(i) # {}}
       /\ \A i \in DOMAIN perIp : perIp[i] = Cardinality(Holding(i)) /\ perIp[i] <= MaxPerIp

\* With PROXY protocol, at most max_clients connections of a TCP listener are
\* between accept and service, handshakes and refusals included.
PendingBounded ==
  UsePP => \A l \in {"http", "https"} :
    Cardinality({c \in Conns : kind[c] = l /\ pc[c] \in {"parse", "slot", "shake", "bye", "count"}})
      <= MaxClients

\* No client can keep a connection in the PROXY header or the handshake: it is
\* closed or goes on to be counted, whatever timeout is configured.
PendingEnds ==
  \A c \in Conns : (pc[c] \in {"parse", "slot", "shake"}) ~> (pc[c] \notin {"parse", "slot", "shake"})

\* An address never holds more than max_clients_per_ip connections, the ones
\* handed over to another protocol included.
PerIpLimitsConnections ==
  MaxPerIp > 0 => \A i \in IPs :
    Cardinality(Holding(i) \cup {c \in Conns : pc[c] = "tunnel" /\ ip[c] = i}) <= MaxPerIp
=============================================================================
