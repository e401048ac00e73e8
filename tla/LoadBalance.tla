---------------------------- MODULE LoadBalance ----------------------------
(***************************************************************************)
(* The choice of an upstream (rpxy-lib/src/backend/load_balance, and        *)
(* UpstreamCandidates::get).  Requests run on several threads, several of   *)
(* one client among them (streams of an HTTP/2 or HTTP/3 connection, or     *)
(* connections of its own); they share the round-robin pointer and the      *)
(* health flags, which the health checker turns while a request walks over  *)
(* them.  Every load of a flag and every operation on the pointer is a step *)
(* of its own.                                                              *)
(***************************************************************************)
EXTENDS Naturals, FiniteSets

CONSTANTS Clients,   \* each keeps one sticky cookie
          Requests,  \* requests under way at a time, of any of the clients
          Len,       \* number of upstreams of the group
          MaxUsize,  \* the largest value of the round-robin pointer
          Policies,  \* subset of {"first", "round_robin", "random", "sticky"}
          None,      \* no cookie
          Stale      \* a cookie whose value names no upstream of the group

\* The configuration refuses an empty list of upstreams.
ASSUME LoadBalanceAssumption ==
    Len \in Nat \ {0} /\ MaxUsize \in Nat \ {0}
\* A cookie that is absent, or names no upstream, is no index into the list.
ASSUME CookieAssumption == None \notin Nat /\ Stale \notin Nat
\* There are finitely many requests at any time.
ASSUME RequestsAssumption == IsFiniteSet(Requests)
\* Nobody is the client of a request that is not there.
ASSUME ClientsAssumption == None \notin Clients

Upstreams == 0..(Len - 1)

VARIABLES
    tracked, \* has the group health state?
    policy,  \* FixToFirst and PrimaryBackup are both "first"
    up,      \* UpstreamHealth of each upstream
    ptr,     \* LoadBalanceRoundRobin.ptr, LoadBalanceSticky.ptr
    by,      \* the client of the request
    sent,    \* the cookie the request carries
    pc,      \* "idle", "sent", "advance", "reset", "draw", "count", "scan", "picked"
    nth,     \* the turn of the request: fetch_and_advance, or a random draw
    pos,     \* next upstream the iterator looks at
    n,       \* healthy ones counted, or healthy ones still to be skipped
    idx,     \* PointerToUpstream.ptr
    issue,   \* is there a new cookie in PointerToUpstream.context?
    cookie,  \* sticky cookie the client holds
    last,    \* history: upstream of the client's last successful response,
             \* None if that response has crossed a change of the cookie
    calm,    \* history: no flag has turned since the pick began
    served,  \* history: picks of each upstream in this window
    window   \* history: no flag turned, no pointer reset in this window

request == <<pc, nth, pos, n, idx, issue>>
session == <<by, sent, cookie, last>>
vars == <<tracked, policy, up, ptr, request, session, calm, served, window>>

Init ==
    /\ tracked \in BOOLEAN /\ policy \in Policies
    /\ up = [i \in Upstreams |-> TRUE]
    /\ ptr = 0
    /\ by = [r \in Requests |-> None] /\ sent = by
    /\ pc = [r \in Requests |-> "idle"]
    /\ nth = [r \in Requests |-> 0] /\ pos = nth /\ n = nth /\ idx = nth
    /\ issue = [r \in Requests |-> FALSE]
    /\ cookie \in [Clients -> IF policy = "sticky" THEN {None, Stale} ELSE {None}]
    /\ last = [c \in Clients |-> None]
    /\ calm = [r \in Requests |-> TRUE]
    /\ served = [i \in Upstreams |-> 0]
    /\ window = TRUE

Healthy == {i \in Upstreams : up[i]}

-----------------------------------------------------------------------------
Goto(r, l) == pc' = [pc EXCEPT ![r] = l]

\* The pick of r is i; a window counts it.
Pick(r, i) ==
    /\ Goto(r, "picked")
    /\ idx' = [idx EXCEPT ![r] = i]
    /\ nth' = [nth EXCEPT ![r] = 0]
    /\ pos' = [pos EXCEPT ![r] = 0]
    /\ n' = [n EXCEPT ![r] = 0]
    /\ served' = IF window /\ policy = "round_robin" /\ i \in Upstreams
                 THEN [served EXCEPT ![i] = @ + 1] ELSE served

\* Start a walk of the iterator over the flags.
Walk(r, l, turn, skip) ==
    /\ Goto(r, l)
    /\ nth' = [nth EXCEPT ![r] = turn]
    /\ n' = [n EXCEPT ![r] = skip]
    /\ pos' = [pos EXCEPT ![r] = 0]
    /\ UNCHANGED <<idx, served>>

\* pick_nth_available_index up to its first load of a flag.
PickNth(r, turn) ==
    IF tracked THEN Walk(r, "count", turn, 0) ELSE Pick(r, turn % Len)

\* A client sends a request, whatever else it has under way, with the cookie
\* it holds; the request arrives at any later time.
Send(r, c) ==
    /\ pc[r] = "idle"
    /\ Goto(r, "sent")
    /\ by' = [by EXCEPT ![r] = c]
    /\ sent' = [sent EXCEPT ![r] = cookie[c]]
    /\ UNCHANGED <<tracked, policy, up, ptr, nth, pos, n, idx, issue,
                   cookie, last, calm, served, window>>

\* get_context: a request is dispatched to the policy of its group.
BeginFirst(r) ==
    /\ policy = "first"
    /\ IF tracked THEN Walk(r, "scan", 0, 0) ELSE Pick(r, 0)
    /\ UNCHANGED issue

BeginRandom(r) ==
    /\ policy = "random"
    /\ \/ tracked /\ Walk(r, "draw", 0, 0)
       \/ ~tracked /\ \E i \in Upstreams : Pick(r, i)
    /\ UNCHANGED issue

BeginTurn(r) ==
    /\ \/ policy = "round_robin"
       \/ policy = "sticky" /\ sent[r] \notin Healthy
    /\ Walk(r, "advance", 0, 0)
    /\ issue' = [issue EXCEPT ![r] = policy = "sticky"]

\* Mutant: the cookie is ignored.
BeginStickyIgnored(r) ==
    /\ policy = "sticky" /\ sent[r] \in Healthy
    /\ Walk(r, "advance", 0, 0)
    /\ issue' = [issue EXCEPT ![r] = TRUE]

\* A valid cookie whose upstream is healthy is followed and not re-issued.
BeginSticky(r) ==
    /\ policy = "sticky" /\ sent[r] \in Healthy
    /\ Pick(r, sent[r])
    /\ UNCHANGED issue

Begin(r) ==
    /\ pc[r] = "sent"
    /\ BeginFirst(r) \/ BeginRandom(r) \/ BeginTurn(r) \/ BeginSticky(r)
    /\ calm' = [calm EXCEPT ![r] = TRUE]
    /\ UNCHANGED <<tracked, policy, up, ptr, session, window>>

-----------------------------------------------------------------------------
\* Mutant: a load and a store, so that an increment can be lost.
FetchAddLost(r) ==
    /\ pc[r] = "advance"
    /\ ptr' \in {ptr, (ptr + 1) % (MaxUsize + 1)}
    /\ IF ptr >= MaxUsize - 1 THEN Walk(r, "reset", ptr, 0) ELSE PickNth(r, ptr)
    /\ window' = (window /\ ptr < MaxUsize - 1)
    /\ UNCHANGED <<tracked, policy, up, issue, session, calm>>

\* fetch_and_advance: fetch_add wraps; close to the end the pointer is
\* reset by a second, separate store.
FetchAdd(r) ==
    /\ pc[r] = "advance"
    /\ ptr' = (ptr + 1) % (MaxUsize + 1)
    /\ IF ptr >= MaxUsize - 1 THEN Walk(r, "reset", ptr, 0) ELSE PickNth(r, ptr)
    /\ window' = (window /\ ptr < MaxUsize - 1)
    /\ UNCHANGED <<tracked, policy, up, issue, session, calm>>

StoreZero(r) ==
    /\ pc[r] = "reset"
    /\ ptr' = 0
    /\ PickNth(r, nth[r])
    /\ UNCHANGED <<tracked, policy, up, issue, session, calm, window>>

\* The random policy counts for itself, draws, and only then calls
\* pick_nth_available_index, which counts again.
Draw(r) ==
    LET k == n[r] + (IF up[pos[r]] THEN 1 ELSE 0)
    IN  /\ pc[r] = "draw"
        /\ IF pos[r] + 1 < Len
           THEN /\ n' = [n EXCEPT ![r] = k]
                /\ pos' = [pos EXCEPT ![r] = @ + 1]
                /\ UNCHANGED <<pc, nth, idx, served>>
           ELSE \/ k \in {0, Len} /\ \E i \in Upstreams : Pick(r, i)
                \/ k \notin {0, Len} /\ \E t \in 0..(k - 1) : PickNth(r, t)
        /\ UNCHANGED <<tracked, policy, up, ptr, issue, session, calm, window>>

\* Mutant: the turn is reduced modulo the length of the list.
TargetOfAll(turn, k) == turn % Len

Target(turn, k) == turn % k

\* healthy_index_count, one flag, and after the last one the decision.
Count(r) ==
    LET k == n[r] + (IF up[pos[r]] THEN 1 ELSE 0)
    IN  /\ pc[r] = "count"
        /\ IF pos[r] + 1 < Len
           THEN /\ n' = [n EXCEPT ![r] = k]
                /\ pos' = [pos EXCEPT ![r] = @ + 1]
                /\ UNCHANGED <<pc, nth, idx, served>>
           ELSE IF k \in {0, Len}
           THEN Pick(r, nth[r] % Len)
           ELSE Walk(r, "scan", nth[r], Target(nth[r], k))
        /\ UNCHANGED <<tracked, policy, up, ptr, issue, session, calm, window>>

Fallback(turn) == turn % Len

\* The second walk: filter(is_healthy).nth(target), and first_healthy_index
\* with nothing to skip.  If the flags turned meanwhile it may find none.
Scan(r) ==
    /\ pc[r] = "scan"
    /\ IF up[pos[r]] /\ n[r] = 0 THEN Pick(r, pos[r])
       ELSE IF pos[r] + 1 = Len THEN Pick(r, Fallback(nth[r]))
       ELSE /\ n' = [n EXCEPT ![r] = IF up[pos[r]] THEN @ - 1 ELSE @]
            /\ pos' = [pos EXCEPT ![r] = @ + 1]
            /\ UNCHANGED <<pc, nth, idx, served>>
    /\ UNCHANGED <<tracked, policy, up, ptr, issue, session, calm, window>>

-----------------------------------------------------------------------------
\* The request is over.  A window is opened again when nothing is under way.
Done(r) ==
    /\ pc[r] = "picked"
    /\ Goto(r, "idle")
    /\ idx' = [idx EXCEPT ![r] = 0]
    /\ issue' = [issue EXCEPT ![r] = FALSE]
    /\ by' = [by EXCEPT ![r] = None]
    /\ sent' = [sent EXCEPT ![r] = None]
    /\ calm' = [calm EXCEPT ![r] = TRUE]
    /\ IF ~window /\ \A q \in Requests \ {r} : pc[q] = "idle"
       THEN window' = TRUE /\ served' = [i \in Upstreams |-> 0]
       ELSE UNCHANGED <<window, served>>
    /\ UNCHANGED <<tracked, policy, up, ptr, nth, pos, n>>

\* A response without Set-Cookie crosses a change of the cookie if the client
\* no longer holds the cookie its request carried.
Crosses(r) == ~issue[r] /\ sent[r] # cookie[by[r]]

\* Mutant: a cookie that names an upstream is not replaced.
DeliverKeepsValid(r) ==
    /\ Done(r)
    /\ last' = [last EXCEPT ![by[r]] = IF Crosses(r) THEN None ELSE idx[r]]
    /\ cookie' = IF issue[r] /\ cookie[by[r]] \notin Upstreams
                 THEN [cookie EXCEPT ![by[r]] = idx[r]] ELSE cookie

\* The response of the upstream is returned, with Set-Cookie if there is one.
Deliver(r) ==
    /\ Done(r)
    /\ last' = [last EXCEPT ![by[r]] = IF Crosses(r) THEN None ELSE idx[r]]
    /\ cookie' = IF issue[r] THEN [cookie EXCEPT ![by[r]] = idx[r]] ELSE cookie

\* Forwarding fails: the error response carries no cookie.
Fail(r) == Done(r) /\ UNCHANGED <<cookie, last>>

\* The cookie expires in the client.
Expire(c) ==
    /\ policy = "sticky" /\ cookie[c] # None
    /\ cookie' = [cookie EXCEPT ![c] = None]
    /\ last' = [last EXCEPT ![c] = None]
    /\ UNCHANGED <<tracked, policy, up, ptr, request, by, sent, calm, served, window>>

\* UpstreamHealth::set by the checker of the group (module HealthCheck).
SetHealth(i) ==
    /\ tracked
    /\ up' = [up EXCEPT ![i] = ~@]
    /\ calm' = [r \in Requests |-> pc[r] = "idle"]
    /\ window' = \A r \in Requests : pc[r] = "idle"
    /\ served' = [j \in Upstreams |-> 0]
    /\ UNCHANGED <<tracked, policy, ptr, request, session>>

Next ==
    \/ \E r \in Requests, c \in Clients : Send(r, c)
    \/ \E r \in Requests : \/ Begin(r) \/ FetchAdd(r) \/ StoreZero(r) \/ Draw(r)
                           \/ Count(r) \/ Scan(r) \/ Deliver(r) \/ Fail(r)
    \/ \E c \in Clients : Expire(c)
    \/ \E i \in Upstreams : SetHealth(i)

Spec == Init /\ [][Next]_vars

-----------------------------------------------------------------------------
\* A pick is always an upstream of the group, whatever flags turn during it
\* and wherever the pointer wraps.  When no flag turns during a pick, it is a
\* healthy upstream if there is one, under every policy; primary/backup picks
\* the lowest.  (When one does, pick_nth_available_index falls back to
\* nth % len, healthy or not.)
PicksHealthy ==
    \A r \in Requests : pc[r] = "picked" =>
        /\ idx[r] \in Upstreams
        /\ calm[r] /\ Healthy # {} =>
              /\ idx[r] \in Healthy
              /\ policy = "first" => \A i \in Healthy : idx[r] <= i

\* Round robin is balanced: as long as no flag turns and the pointer is not
\* reset, the turns drawn by concurrent requests spread over the available
\* upstreams evenly, to within one.
Available == IF Healthy = {} THEN Upstreams ELSE Healthy
Balanced ==
    policy = "round_robin" /\ window /\ (\A r \in Requests : pc[r] \in {"idle", "sent", "picked"}) =>
        \A i, j \in Available : served[i] <= served[j] + 1

\* Session persistence: a request whose cookie names a healthy upstream is
\* served by it when no flag turns during the pick.
StickyFollowed ==
    \A r \in Requests :
        pc[r] = "picked" /\ calm[r] /\ sent[r] \in Healthy => idx[r] = sent[r]

\* Session persistence across requests: the cookie a client holds names the
\* upstream that served its last successful response, through fallbacks from
\* unhealthy upstreams, stale cookies, failed requests and requests run in
\* parallel.  The one exception is a response without Set-Cookie to a request
\* whose cookie the client has replaced or lost since it sent it: that one
\* comes from the upstream of the old cookie.
StickyNamesServer ==
    \A c \in Clients : policy = "sticky" /\ last[c] # None => cookie[c] = last[c]
=============================================================================
