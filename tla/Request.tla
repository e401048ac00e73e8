------------------------------ MODULE Request ------------------------------
(***************************************************************************)
(* The life of a request in rpxy-lib/src/message_handler, from the source  *)
(* address of its connection over the refusals, the rewritten request and  *)
(* the response cache to the answer.  Several requests are under way; they *)
(* meet in the cache.                                                      *)
(*                                                                         *)
(* A request is [tls, sni, src, pp, version, uri, path, clen, h]: uri is   *)
(* the authority of the request line or None, path its path and query, pp  *)
(* the PROXY header of its connection, h its header map.  A host value is  *)
(* <<name, form>>: name is what drop_port leaves of it, form one of        *)
(* "plain", "port", "upper" or "raw" (not readable as text).  Header maps  *)
(* are those of Forwarding; the value of connection is a sequence of       *)
(* lines, each a set of header names.  Headers that rpxy always overwrites *)
(* with a value of its own and never reads are left out.                   *)
(***************************************************************************)
EXTENDS Config

CONSTANTS
  HeaderNames,  \* every header name that occurs
  Slots,        \* requests under way at a time
  MaxStored,    \* bound on the entries stored or being stored
  Scenarios     \* sequence of [confs, requests, atATime, answers]; an answer of
                \* an upstream is [status, h, storable]

VARIABLES
  scenario,  \* which of the scenarios this behaviour is in
  conf,      \* the configuration file
  table,     \* BackendAppManager.apps: server name -> application name, or None
  fallback,  \* BackendAppManager.default_server_name
  slot,      \* the requests under way
  cache,     \* entries that can be found: [key, res]
  storing    \* entries whose body is still being spooled

vars == <<scenario, conf, table, fallback, slot, cache, storing>>

Idle == [pc |-> "idle", q |-> None, peer |-> None, status |-> None,
         fwd |-> None, res |-> None]

Init ==
  /\ scenario \in DOMAIN Scenarios
  /\ conf \in Scenarios[scenario].confs
  /\ table = None /\ fallback = None
  /\ slot = [s \in Slots |-> Idle]
  /\ cache = {} /\ storing = {}

\* A generation starts: an accepted configuration becomes the backend tables.
Load ==
  /\ table = None
  /\ Accepted(conf)
  /\ table' \in BackendApps(conf)
  /\ fallback' \in DefaultServers(conf, table')
  /\ UNCHANGED <<scenario, conf, slot, cache, storing>>

-----------------------------------------------------------------------------
(* The connection.                                                         *)

\* parse_inbound_proxy_header on a TCP listener: None drops the connection.
Source(q) ==
  IF conf.pp = None \/ q.version = "3" THEN q.src
  ELSE IF Canon[q.src] \notin Resolve(conf.pp) \/ q.pp = None THEN None
  ELSE CASE q.pp.kind = "proxy" -> q.pp.src
         [] q.pp.kind = "local" -> q.src
         [] q.pp.kind = "malformed" -> None

-----------------------------------------------------------------------------
(* Which application, which route.                                         *)

HostHeader(q) == q.h["host"]

\* inspect_parse_host
HostOk(q) ==
  /\ q.uri # None \/ HostHeader(q) # None
  /\ q.uri # None /\ HostHeader(q) # None => q.uri[1] = HostHeader(q)[1]

HostName(q) == IF HostHeader(q) # None THEN HostHeader(q)[1] ELSE q.uri[1]

IsFallback(q) == HostName(q) \notin DOMAIN table

ServerOf(q) == IF IsFallback(q) THEN fallback ELSE HostName(q)
AppOf(q) == conf.apps[table[ServerOf(q)]]

\* host_from_uri_or_host_header
Authority(q) ==
  CASE q.uri # None -> q.uri
    [] q.uri = None /\ HostHeader(q) # None /\ HostHeader(q)[2] # "raw" -> HostHeader(q)
    [] OTHER -> None

ConnectionTokens(h) == IF h["connection"] = None THEN {} ELSE h["connection"][1]

\* extract_upgrade
Upgrade(h) == IF "upgrade" \in ConnectionTokens(h) THEN h["upgrade"] ELSE None

Oversize(q) ==
  q.clen # None /\ BodyLimit(conf.body) # None /\ q.clen > BodyLimit(conf.body)

UnservedHost(q) == IsFallback(q) /\ (q.tls \/ fallback = None)

\* Uri::path: what is before the query.
Path(pathAndQuery) ==
  LET marks == {i \in DOMAIN pathAndQuery : pathAndQuery[i] = "?"}
      end == CHOOSE i \in marks : \A j \in marks : i <= j
  IN IF marks = {} THEN pathAndQuery ELSE SubSeq(pathAndQuery, 1, end - 1)

RouteOf(q) == Get(Routes(AppOf(q)), Path(q.path))

\* handle_request_inner up to the request it builds: the status that ends the
\* request before it, or None.
Refusal(q) ==
  IF ~HostOk(q) THEN 400
  ELSE IF q.tls /\ SniConsistency(conf) /\ HostName(q) # OrElse(q.sni, "") THEN 421
  ELSE IF Oversize(q) THEN 413
  ELSE IF UnservedHost(q) THEN 503
  ELSE IF ~q.tls /\ Redirects(AppOf(q)) THEN 301
  ELSE IF RouteOf(q) = None THEN 404
  ELSE IF Upgrade(q.h) # None /\ q.version # "1.1" THEN 500
  ELSE None

\* secure_redirection_response
Location(q) ==
  [server |-> ServerOf(q), path |-> q.path,
   port |-> IF PublicPort(conf) = 443 THEN None ELSE PublicPort(conf)]

-----------------------------------------------------------------------------
(* The request for the upstream.                                           *)

HopHeaders == {"connection", "te", "trailer", "keep-alive", "proxy-connection",
  "proxy-authenticate", "proxy-authorization", "transfer-encoding", "upgrade"}

Without(h, names) == [n \in DOMAIN h |-> IF n \in names THEN None ELSE h[n]]

\* remove_connection_header, then remove_hop_header.
OffThisHop(h) == Without(h, HopHeaders \union ConnectionTokens(h))

Sticky == "rpxy_sticky_token"
IsSticky(ck) == ck.name = Sticky
IsPlain(ck) == ck.name # Sticky
Aad(q, route) == [domain |-> ServerOf(q), path |-> route]

\* takeout_sticky_cookie_lb_context, on sticky routes: no sticky cookie is
\* passed on.
WithoutSticky(h, p) ==
  IF Balance(p) # "sticky" \/ h["cookie"] = None THEN h
  ELSE [h EXCEPT !["cookie"] =
          LET rest == SelectSeq(@, IsPlain) IN IF rest = <<>> THEN None ELSE rest]

\* open_server_id: sealed for this server and route, and not past its expiry.
Opens(ck, aad) == ck.aad = aad /\ ck.fresh

\* The server id of the only sticky cookie, if it opens under this route.
StickyId(h, aad) ==
  LET found == IF h["cookie"] = None THEN <<>> ELSE SelectSeq(h["cookie"], IsSticky)
  IN IF Len(found) = 1 /\ Opens(found[1], aad) THEN found[1].id ELSE None

\* UpstreamCandidates::get: the index chosen, and the cookie it asks for.  The
\* policies and their pointers are the subject of LoadBalance.
Candidates(q, p, route) ==
  LET aad == Aad(q, route)
      id(i) == <<p.upstream[i].host, i>>
      bound == {i \in DOMAIN p.upstream : id(i) = StickyId(OffThisHop(q.h), aad)}
      mint(i) == [aad |-> aad, id |-> id(i)]
      one(i, cookie) == [up |-> i, cookie |-> cookie]
  IN CASE Balance(p) = "sticky" /\ bound # {} ->
            {one(i, None) : i \in bound}
            \union {one(i, mint(i)) : i \in IF Tracked(p) THEN DOMAIN p.upstream ELSE {}}
       [] Balance(p) = "sticky" /\ bound = {} -> {one(i, mint(i)) : i \in DOMAIN p.upstream}
       [] Balance(p) \in {"none", "primary_backup"} /\ ~Tracked(p) -> {one(1, None)}
       [] OTHER -> {one(i, None) : i \in DOMAIN p.upstream}

\* rebuild_path_and_query
NewPath(path, p, route) ==
  IF p.replace = None THEN path ELSE p.replace \o SubSeq(path, Len(route) + 1, Len(path))

\* update_request_line, and an upgrade that keeps HTTP/1.1
NewVersion(q, h, p, up) ==
  CASE Upgrade(q.h) # None -> q.version
    [] Upgrade(q.h) = None /\ h["content-type"] = "grpc" -> "2"
    [] OTHER -> CASE "force_http11_upstream" \in Options(p) -> "1.1"
                  [] "force_http2_upstream" \in Options(p) -> "2"
                  [] Options(p) \cap {"force_http11_upstream", "force_http2_upstream"} = {} ->
                       IF up.scheme = "http" THEN "1.1"
                       ELSE IF q.version = "3" THEN "2" ELSE q.version

\* Host: the request's own (made from the request line if it had none), the
\* upstream's by option, the default application's in any case.
NewHost(h, q, p, up) ==
  IF IsFallback(q) THEN <<fallback, "plain">>
  ELSE IF "set_upstream_host" \in Options(p) /\ "keep_original_host" \notin Options(p)
  THEN <<up.host, "plain">>
  ELSE IF HostHeader(q) = None
  THEN <<q.uri[1], IF q.uri[2] = "port" THEN "plain" ELSE q.uri[2]>>
  ELSE h["host"]

\* The headers of rpxy's own that the request gets at the end.
OwnHeaders(h, own, q, p, up) ==
  [h EXCEPT
     !["host"] = NewHost(own, q, p, up),
     !["te"] = IF q.h["te"] = "trailers" THEN "trailers" ELSE None,
     !["upgrade-insecure-requests"] =
        IF @ = None /\ "upgrade_insecure_requests" \in Options(p) THEN "1" ELSE @,
     !["upgrade"] = Upgrade(q.h),
     !["connection"] = IF Upgrade(q.h) = None THEN None ELSE <<{"upgrade"}>>]

WithForwarded(h, q, p) ==
  IF "forwarded_header" \in Options(p) THEN AddForwarded(h, Authority(q), Trusted(conf)) ELSE h

\* generate_request_forwarded: the headers.
NewHeaders(own, q, peer, p, up) ==
  OwnHeaders(
    WithForwarded(
      WithoutSticky(
        AddForwarding(own, PeerEntry(Canon[peer], q.tls, Authority(q)), Trusted(conf)), p),
      q, p),
    own, q, p, up)

\* Mutant: the key is the request the upstream gets.
CacheKeyUpstream(q, scheme, path, up) ==
  IF Authority(q) = None THEN None
  ELSE [scheme |-> up.scheme, authority |-> <<up.host, "plain">>, path |-> path]

\* build_client_facing_effective_uri: None bypasses the cache.
CacheKey(q, scheme, path, up) ==
  IF Authority(q) = None THEN None
  ELSE [scheme |-> scheme, authority |-> Authority(q), path |-> q.path]

Built(q, h, scheme, path, p, up, cookie) ==
  [h |-> h, up |-> up.host, path |-> path, version |-> NewVersion(q, h, p, up),
   key |-> CacheKey(q, scheme, path, up), cookie |-> cookie, secure |-> scheme = "https"]

\* What handle_request_inner hands to the forwarder.
Forwarded(q, peer, route, p, up, cookie) ==
  Built(q, NewHeaders(OffThisHop(q.h), q, peer, p, up),
        ClientScheme(q.tls, Canon[peer], OffThisHop(q.h), Trusted(conf)),
        NewPath(q.path, p, route), p, up, cookie)

\* PathAndQuery::try_from: "SP" stands for the characters no path or query may
\* have.
IsPathAndQuery(path) == path # <<>> /\ path[1] = "/" /\ "SP" \notin Range(path)

\* The errors of rebuild_path_and_query: a route "" that cannot be replaced, and
\* a replacement, unchecked in the file, that makes no path.
CannotRebuild(path, p, route) ==
  p.replace # None /\ (route = <<>> \/ ~IsPathAndQuery(NewPath(path, p, route)))

\* A sticky route without a cipher, or no path for the upstream.  (The scheme and
\* the authority of the new uri come from a parsed one, so it can be built.)
CannotGenerate(q, p, route) ==
  \/ Balance(p) = "sticky" /\ conf.secret # "key"
  \/ CannotRebuild(q.path, p, route)

-----------------------------------------------------------------------------
(* Steps.                                                                  *)

Put(s, r) == slot' = [slot EXCEPT ![s] = r]
Finish(s, r, status) == Put(s, [r EXCEPT !.pc = "done", !.status = status])

Send(s, r, fwd) ==
  Put(s, [r EXCEPT !.fwd = fwd,
                   !.pc = IF conf.cache /\ fwd.key # None THEN "lookup" ELSE "fetch"])

Route(s, r, route, p) ==
  IF CannotGenerate(r.q, p, route) THEN Finish(s, r, 500)
  ELSE \E choice \in Candidates(r.q, p, route) :
         Send(s, r, Forwarded(r.q, r.peer, route, p, p.upstream[choice.up], choice.cookie))

Handle(s, r, refusal) ==
  IF r.peer = None THEN Finish(s, r, 0)
  ELSE IF refusal # None THEN Finish(s, r, refusal)
  ELSE Route(s, r, RouteOf(r.q), Routes(AppOf(r.q))[RouteOf(r.q)])

\* The connection brings a request and handle_request runs up to its first
\* await: the cache, or the upstream where the cache is bypassed.
Arrive(s) ==
  /\ table # None /\ slot[s].pc = "idle"
  /\ Cardinality({t \in Slots : slot[t].pc # "idle"}) < Scenarios[scenario].atATime
  /\ \E q \in Scenarios[scenario].requests :
       Handle(s, [Idle EXCEPT !.q = q, !.peer = Source(q)], Refusal(q))
  /\ UNCHANGED <<scenario, conf, table, fallback, cache, storing>>

\* to_set_cookie_value_with_value: the attributes, and whom it is for.
SetCookie(sealed, secure, s) ==
  [name |-> Sticky, aad |-> sealed.aad, id |-> sealed.id, secure |-> secure, for |-> s]

\* The server id that the context of this request asks to seal, if any.
Sealed(s) ==
  IF slot[s].fwd.cookie = None THEN None
  ELSE SetCookie(slot[s].fwd.cookie, slot[s].fwd.secure, s)

\* set_sticky_cookie_lb_context: replaces a cookie of its name or is added.
WithCookie(cookies, cookie) ==
  LET own == OrElse(cookies, <<>>) IN
  CASE cookie = None -> cookies
    [] cookie # None /\ \E i \in DOMAIN own : IsSticky(own[i]) ->
         [i \in DOMAIN own |-> IF IsSticky(own[i]) THEN cookie ELSE own[i]]
    [] OTHER -> Append(own, cookie)

\* Mutant: the headers the response lists in Connection are left in it.
ClientHeadersListed(h, q) ==
  LET tls == AppOf(q).tls
      h3 == conf.h3 /\ q.tls /\ tls # None /\ ~tls.ca /\ PublicPort(conf) # None
  IN [Without(h, HopHeaders) EXCEPT !["server"] = "rpxy",
        !["alt-svc"] = IF h3 THEN PublicPort(conf) ELSE None]

\* generate_response_forwarded, with h3_alt_svc_port
ClientHeaders(h, q) ==
  LET tls == AppOf(q).tls
      h3 == conf.h3 /\ q.tls /\ tls # None /\ ~tls.ca /\ PublicPort(conf) # None
  IN [OffThisHop(h) EXCEPT !["server"] = "rpxy",
        !["alt-svc"] = IF h3 THEN PublicPort(conf) ELSE None]

Relay(s, r, res, h) ==
  CASE res.status # 101 ->
         Finish(s, [r EXCEPT !.res = [res EXCEPT !.h = ClientHeaders(h, r.q)]], res.status)
    [] res.status = 101 /\ Upgrade(r.q.h) # None /\ Upgrade(h) = Upgrade(r.q.h) ->
         Finish(s, [r EXCEPT !.res = [res EXCEPT !.h = h]], 101)
    [] OTHER -> Finish(s, r, 500)

\* What handle_request_inner does with the response of the forwarder.  A switch
\* of protocols that was not asked for, or is another one, is an error.
Respond(s, res) ==
  Relay(s, slot[s], res, [res.h EXCEPT !["set-cookie"] = WithCookie(@, Sealed(s))])

\* RpxyCache::get.  An entry that is no longer fresh is evicted.
Lookup(s) ==
  LET found == {e \in cache : e.key = slot[s].fwd.key} IN
  /\ slot[s].pc = "lookup"
  /\ \/ \E e \in found : Respond(s, e.res) /\ UNCHANGED cache
     \/ Put(s, [slot[s] EXCEPT !.pc = "fetch"]) /\ cache' = cache \ found
  /\ UNCHANGED <<scenario, conf, table, fallback, storing>>

\* Mutant: the cookie of this client is part of what is stored.
StoredWithCookie(s, res) ==
  [res EXCEPT !.h["set-cookie"] = WithCookie(@, Sealed(s))]

\* The response as the upstream sent it is what the policy and the body of a
\* new entry come from.
Stored(s, res) == res

\* Who made a response, for whom, and what it lists in Connection.
By(s, answer) ==
  [up |-> slot[s].fwd.up, path |-> slot[s].fwd.path, host |-> slot[s].fwd.h["host"],
   for |-> ServerOf(slot[s].q), https |-> slot[s].fwd.secure,
   listed |-> ConnectionTokens(answer.h)]

Store(s, res) ==
  storing' = storing \union {[key |-> slot[s].fwd.key, res |-> Stored(s, res)]}

Storable(s, answer) ==
  /\ answer.storable /\ conf.cache /\ slot[s].fwd.key # None
  /\ Cardinality(storing \union cache) < MaxStored

Pass(s, answer, res) ==
  /\ Respond(s, res)
  /\ IF Storable(s, answer) THEN Store(s, res) ELSE UNCHANGED storing

\* request_directly, then put: the response goes to the client while its body
\* is spooled for the cache.
Fetch(s) ==
  /\ slot[s].pc = "fetch"
  /\ \E answer \in Scenarios[scenario].answers :
       Pass(s, answer, [status |-> answer.status, h |-> answer.h, by |-> By(s, answer)])
  /\ UNCHANGED <<scenario, conf, table, fallback, cache>>

\* No connection to the upstream, no response from it, or a put that failed.
FetchFails(s) ==
  /\ slot[s].pc = "fetch"
  /\ Finish(s, slot[s], 502)
  /\ UNCHANGED <<scenario, conf, table, fallback, cache, storing>>

\* The client has its answer, or has left.
Close(s) ==
  /\ slot[s].pc = "done"
  /\ Put(s, Idle)
  /\ UNCHANGED <<scenario, conf, table, fallback, cache, storing>>

\* The spooled body is complete and takes the place of an older entry.
Publish(e) ==
  /\ storing' = storing \ {e}
  /\ cache' = {e} \union {old \in cache : old.key # e.key}
  /\ UNCHANGED <<scenario, conf, table, fallback, slot>>

\* The body was cut short, was too large, or the cache let the entry go.
Discard(e) ==
  /\ storing' = storing \ {e} /\ cache' = cache \ {e}
  /\ UNCHANGED <<scenario, conf, table, fallback, slot>>

Next ==
  \/ Load
  \/ \E s \in Slots : Arrive(s) \/ Lookup(s) \/ Fetch(s) \/ FetchFails(s) \/ Close(s)
  \/ \E e \in storing : Publish(e)
  \/ \E e \in storing \union cache : Discard(e)

Spec == Init /\ [][Next]_vars

-----------------------------------------------------------------------------
(* Properties.                                                             *)

\* What a path is under: itself, what is left of each of its slashes, and "/".
Ancestors(path) ==
  {Slash} \union {SubSeq(path, 1, k) :
                    k \in {k \in 0..Len(path) : k = Len(path) \/ path[k + 1] = "/"}}

\* An answer, fresh or from the cache, was made by an upstream of the closest
\* route above the path, in the application the client addressed, for the path
\* as that route rewrites it and for the scheme the client used.  Over TLS the
\* application is never the default one, and is the one of the handshake if SNI
\* consistency is on.  (Cache keys, PathManager::get, the fallback.)
AnsweredByOwnRoute ==
  \A s \in Slots : slot[s].res # None =>
    LET q == slot[s].q
        by == slot[s].res.by
        name == OrElse(Authority(q), HostHeader(q))[1]
        server == IF name \in ServerNames(conf) THEN name ELSE fallback
        routes == Routes(conf.apps[table[server]])
        above == DOMAIN routes \cap Ancestors(Path(q.path))
    IN /\ by.for = server
       /\ q.tls => name = server /\ (SniConsistency(conf) => q.sni = server)
       /\ by.https = slot[s].fwd.secure
       /\ by.https => q.tls \/ Canon[slot[s].peer] \in Trusted(conf)
       /\ q.tls => by.https
       /\ \E route \in above :
            /\ \A other \in above : IsPrefix(other, route)
            /\ \E i \in DOMAIN routes[route].upstream : routes[route].upstream[i].host = by.up
            /\ LET rest == SubSeq(q.path, Len(route) + 1, Len(q.path))
               IN by.path = OrElse(routes[route].replace, route) \o rest

Ips(chain) == [i \in DOMAIN chain |-> chain[i].node.ip]

\* The hops a request names: those of X-Forwarded-For if there is one, which
\* Forwarded can confirm and never overrule.
Said(h) ==
  CASE h[XFF] # None /\ XffOk(h) -> Ips(XffChain(h, None))
    [] h[XFF] = None /\ h[FWD] # None /\ ForwardedOk(h[FWD]) -> Ips(ForwardedChain(h[FWD]))
    [] OTHER -> <<>>

\* The hops an upstream is told of are the end of what the peer, if trusted,
\* said, with the peer as the last: all but the first are trusted, and the first
\* is not unless nothing is before it.  A hop that is not an address hides
\* whatever is before the peer.  X-Real-IP is the first hop, and a proxy behind
\* rpxy that trusts it reads the same chain back from X-Forwarded-For and
\* accepts Forwarded beside it.  (add_forwarding_header)
ChainIsTrustedSuffix ==
  \A s \in Slots : slot[s].fwd # None =>
    LET h == slot[s].fwd.h
        peer == Canon[slot[s].peer]
        trusted == Trusted(conf)
        all == Append(IF peer \in trusted THEN Said(OffThisHop(slot[s].q.h)) ELSE <<>>, peer)
        told == [i \in DOMAIN h[XFF].v |-> h[XFF].v[i].ip]
        before == Len(all) - Len(told)
        next == Extract(h, None)
    IN /\ IsSuffix(told, all)
       /\ \A i \in DOMAIN told : i > 1 => told[i] \in trusted
       /\ before > 0 => \/ told[1] \notin trusted
                        \/ told = <<peer>> /\ \E i \in 1..before :
                              all[i] = None /\ \A j \in i + 1..before : all[j] \in trusted
       /\ h["x-real-ip"] = told[1]
       /\ next.st = "chain" /\ Ips(next.v) = told
       /\ h[FWD] # None => next.v = ForwardedChain(h[FWD])

\* The headers rpxy writes itself, whatever the client lists in Connection.
Written == {XFF, XFP, "x-real-ip", "x-forwarded-host", "te", "upgrade", "connection"}

\* What belongs to one hop stays there.  In both directions no hop header is
\* passed on and none that the message lists in Connection (in the first line of
\* it: remove_connection_header reads no other), except an upgrade that was asked
\* for (on HTTP/1.1 only) and a wish for trailers; no sticky cookie to the
\* upstreams of a sticky route; to the upstream of the default application only
\* its own Host; and no HTTP/3 offer but over TLS and without client
\* certificates.  (generate_request_forwarded, generate_response_forwarded)
HopStateStaysOnHop ==
  \A s \in Slots : slot[s].fwd # None =>
    LET q == slot[s].q
        h == slot[s].fwd.h
        res == slot[s].res
        p == Routes(AppOf(q))[RouteOf(q)]
        listed == ConnectionTokens(q.h)
    IN /\ \A n \in HopHeaders \cap DOMAIN h : h[n] # None =>
             \/ n = "te" /\ q.h["te"] = "trailers"
             \/ n \in {"connection", "upgrade"} /\ "upgrade" \in listed
                /\ h["upgrade"] = q.h["upgrade"] /\ slot[s].fwd.version = "1.1"
       /\ \A n \in (listed \cap DOMAIN h) \ (Written \union {"host", FWD}) : h[n] = None
       /\ Balance(p) = "sticky" /\ h["cookie"] # None =>
             \A i \in DOMAIN h["cookie"] : h["cookie"][i].name # Sticky
       /\ q.h["host"] # None /\ q.h["host"][1] \notin ServerNames(conf) =>
             h["host"] = <<fallback, "plain">>
       /\ res # None /\ res.status # 101 =>
             /\ \A n \in (HopHeaders \union res.by.listed) \cap DOMAIN h :
                   n \notin {"server", "alt-svc"} => res.h[n] = None
             /\ res.h["alt-svc"] # None => q.tls /\ conf.h3 /\ ~AppOf(q).tls.ca
       /\ slot[s].status = 101 => q.version = "1.1" /\ q.h["upgrade"] = res.h["upgrade"]

\* A client gets a sticky cookie of rpxy only if this very request was bound to
\* an upstream: the one cookie carries the id of an upstream of its own route,
\* and is marked Secure when the client used https.  No cookie of one client is
\* stored for another.  (set_sticky_cookie_lb_context after RpxyCache::put)
StickyStaysPrivate ==
  /\ \A s \in Slots : slot[s].res # None /\ slot[s].res.h["set-cookie"] # None =>
       LET cookies == slot[s].res.h["set-cookie"]
           p == Routes(AppOf(slot[s].q))[RouteOf(slot[s].q)]
       IN \A i \in DOMAIN cookies : cookies[i].for # None =>
            /\ cookies[i].for = s /\ slot[s].fwd.cookie # None
            /\ cookies[i].aad = Aad(slot[s].q, RouteOf(slot[s].q))
            /\ cookies[i].id \in {<<p.upstream[j].host, j>> : j \in DOMAIN p.upstream}
            /\ slot[s].q.tls => cookies[i].secure
  /\ \A e \in cache \union storing : e.res.h["set-cookie"] # None =>
       \A i \in DOMAIN e.res.h["set-cookie"] : e.res.h["set-cookie"][i].for = None

\* The client follows the redirection it was given.
Follow(q) ==
  [q EXCEPT !.tls = TRUE, !.sni = Location(q).server, !.uri = None,
            !.h = [@ EXCEPT !["host"] = <<Location(q).server, "port">>]]

\* A configuration that was accepted serves: rpxy itself fails a request only for
\* an upgrade the client or the upstream got wrong, on a route with an empty path
\* that is to be replaced, or on one whose replacement is no path; a redirected
\* client finds a TLS listener and reaches the same application there, unless
\* the file has no TLS port, an application with TLS settings all the same and no
\* word on its redirection; and a forced HTTP version is the version used.
\* (validate_and_build_settings, PathManager::try_from)
AcceptedConfigServes ==
  \A s \in Slots : slot[s].pc = "done" =>
    LET q == slot[s].q
        p == Routes(AppOf(q))[RouteOf(q)]
    IN /\ slot[s].status = 500 =>
            \/ Upgrade(q.h) # None /\ q.version # "1.1"
            \/ slot[s].fwd # None
            \/ /\ p.replace # None
               /\ RouteOf(q) = <<>> \/ p.replace[1] # "/" \/ "SP" \in Range(p.replace)
       /\ slot[s].status = 301 /\ conf.https # None =>
            /\ \E sock \in ListenSockets(conf) : sock[2] = conf.https
            /\ Refusal(Follow(q)) \notin {301, 400, 421, 503}
            /\ ServerOf(Follow(q)) = ServerOf(q)
       /\ slot[s].status = 301 /\ conf.https = None => conf.apps[table[ServerOf(q)]].tls.redirect = None
       /\ slot[s].fwd # None /\ Upgrade(q.h) = None =>
            /\ "force_http2_upstream" \in Options(p) => slot[s].fwd.version = "2"
            /\ "force_http11_upstream" \in Options(p) /\ slot[s].fwd.h["content-type"] # "grpc" =>
                  slot[s].fwd.version = "1.1"
=============================================================================
