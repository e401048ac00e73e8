----------------------------- MODULE MCRequest -----------------------------
(***************************************************************************)
(* Five scenarios for Request: what a chain of proxies may say, with and   *)
(* without the PROXY protocol in front; what an HTTP message may look      *)
(* like; two requests that meet in the cache; and what a configuration     *)
(* file may hold.                                                          *)
(***************************************************************************)
EXTENDS Request, TLC

CONSTANTS s1, s2

MCSlots == {s1, s2}
Symmetry == Permutations(MCSlots)

\* p1 and p2 are proxies, m1 is p1 as an IPv4-mapped address, c and x are not.
MCCanon == [c |-> "c", x |-> "x", p1 |-> "p1", p2 |-> "p2", m1 |-> "p1"]
MCNets == [lan |-> {"p1", "p2"}, cloudflare |-> {"p2"}, edge |-> {"p1"}]

MCLower == ("a" :> "a") @@ ("A" :> "a") @@ ("b" :> "b") @@ ("a_" :> "a_")
MCShape ==
  LET name(inner) == [ascii |-> TRUE, labels |-> <<[len |-> 1, edges |-> TRUE, inner |-> inner]>>]
  IN ("a" :> name(TRUE)) @@ ("A" :> name(TRUE)) @@ ("b" :> name(TRUE)) @@ ("a_" :> name(FALSE))

MCHeaderNames == HopHeaders \union {XFF, XFP, FWD, "x-real-ip", "x-forwarded-host",
  "host", "cookie", "content-type", "upgrade-insecure-requests", "x-app",
  "server", "alt-svc", "set-cookie"}

NoHeaders == [n \in MCHeaderNames |-> None]
Headers(f) == f @@ NoHeaders

-----------------------------------------------------------------------------
(* Building blocks.                                                        *)

Up(host) == [ok |-> TRUE, scheme |-> "http", host |-> host]
Proxy == [path |-> None, replace |-> None, upstream |-> <<Up("u")>>,
          lb |-> None, hc |-> None, opts |-> None]
Tls == [redirect |-> FALSE, cert |-> TRUE, key |-> TRUE, acme |-> None, ca |-> FALSE]
App(server) == [server |-> server, tls |-> Tls, proxies |-> <<Proxy>>]

Conf == [renamed |-> FALSE, http |-> 80, https |-> 443, public |-> None,
         v4 |-> None, v6 |-> None, ipv6 |-> FALSE, trusted |-> <<"lan">>, pp |-> None,
         body |-> None, h3 |-> TRUE, cache |-> FALSE, acme |-> FALSE, ignoreSni |-> None,
         default |-> None, secret |-> "key", apps |-> [one |-> App("a")]]

Req == [tls |-> FALSE, sni |-> None, src |-> "x", pp |-> None, version |-> "1.1",
        uri |-> None, path |-> Slash, clen |-> None, h |-> Headers("host" :> <<"a", "plain">>)]

Plain == [status |-> 200, h |-> NoHeaders, storable |-> FALSE]

-----------------------------------------------------------------------------
(* Chains of proxies.                                                      *)

T(node, ip, port) == [node |-> node, ip |-> ip, port |-> port]
Tokens == {T("ip", "c", "none"), T("ip", "p1", "none"), T("ip", "m1", "num"),
           T("unknown", None, "none"), T("ip", "p2", "bad")}

E(for, proto) == [for |-> for, proto |-> proto, host |-> <<>>, by |-> <<>>]
Entries == {E(<<T("ip", "c", "num")>>, <<>>), E(<<T("ip", "p1", "none")>>, << <<"https">> >>),
            E(<<T("ip", "m1", "none")>>, << <<"http">> >>), E(<<T("obf", None, "obf")>>, <<>>),
            E(<<>>, << <<"https">> >>), E(<<T("ip", "p2", "none")>>, <<Unterminated>>)}

ChainHeaders ==
  {Headers((XFF :> xff) @@ (FWD :> fwd) @@ (XFP :> xfp) @@ ("host" :> <<"a", "port">>)) :
     xff \in {None, [ok |-> FALSE, v |-> <<>>]} \union [ok : {TRUE}, v : SeqOf(Tokens, 2)],
     fwd \in {None, [ok |-> FALSE, v |-> <<>>]} \union [ok : {TRUE}, v : SeqOf(Entries, 2)],
     xfp \in {None, Line(<<"">>), Line(<<"https">>), Line(<<"http", "https">>),
              [ok |-> FALSE, head |-> TRUE, v |-> <<"https">>]}}

Chains ==
  [confs |-> {[Conf EXCEPT !.apps = [one |-> [App("a") EXCEPT !.proxies =
                <<[Proxy EXCEPT !.opts = <<"forwarded_header", "unknown_option">>]>>]]]},
   requests |-> {[Req EXCEPT !.src = k[1], !.tls = k[2], !.sni = "a", !.h = h] :
                   k \in {<<"x", FALSE>>, <<"m1", FALSE>>, <<"m1", TRUE>>}, h \in ChainHeaders},
   atATime |-> 1, answers |-> {Plain}]

\* PROXY protocol in front of the same headers.
Balancer ==
  [confs |-> {[Conf EXCEPT !.pp = <<"edge">>]},
   requests |-> {[Req EXCEPT !.src = src, !.version = v, !.sni = "a", !.tls = (v = "3"), !.pp = pp, !.h = h] :
                   src \in {"x", "m1", "p2"}, v \in {"1.1", "3"},
                   pp \in {None} \union [kind : {"proxy", "local", "malformed"}, src : {"c", "p2"}],
                   h \in {h \in ChainHeaders : h[FWD] = None /\ h[XFP] \in {None, Line(<<"https">>)}}},
   atATime |-> 1, answers |-> {Plain}]

-----------------------------------------------------------------------------
(* The shape of messages.                                                  *)

Cookie(name, path, fresh) ==
  [name |-> name, aad |-> [domain |-> "a", path |-> path], id |-> <<"u", 1>>, fresh |-> fresh]

RequestHeaders ==
  {Headers(("host" :> host) @@ ("connection" :> conn) @@ ("keep-alive" :> "5")
           @@ ("upgrade" :> up) @@ ("te" :> t[1]) @@ ("content-type" :> t[2])
           @@ ("x-app" :> "v") @@ ("cookie" :> ck)) :
     host \in {None, <<"a", "upper">>, <<"b", "port">>, <<"z", "raw">>},
     conn \in {None, <<{"upgrade", "x-app"}, {"cookie"}>>, <<{"host", "cookie", "te", XFF}>>},
     up \in {None, "websocket"}, t \in {<<"trailers", "grpc">>, <<"gzip", None>>},
     ck \in {None, <<Cookie("other", Slash, TRUE), Cookie(Sticky, Slash, TRUE)>>,
             <<Cookie(Sticky, Slash, TRUE), Cookie(Sticky, <<"/", "s">>, TRUE)>>}}

ShapeConf(opts, lb, tls) ==
  [Conf EXCEPT !.default = "one", !.body = [word |-> "digits", n |-> 2, unit |-> 1],
     !.apps = [one |-> [App("a") EXCEPT !.tls = tls, !.proxies =
                          <<[Proxy EXCEPT !.opts = opts, !.lb = lb,
                               !.upstream = <<Up("u"), [Up("v") EXCEPT !.scheme = "https"]>>,
                               !.hc = [on |-> TRUE, type |-> "bool"]]>>]]]

OwnCookie == [name |-> Sticky, aad |-> None, id |-> None, secure |-> FALSE, for |-> None]

SwitchTo(p) == [status |-> 101, storable |-> FALSE,
  h |-> Headers(("connection" :> <<{"upgrade"}>>) @@ ("upgrade" :> p))]

Messages ==
  [confs |-> {ShapeConf(<<"set_upstream_host">>, "sticky", None),
              ShapeConf(<<"force_http2_upstream", "upgrade_insecure_requests">>, "round_robin",
                        [Tls EXCEPT !.ca = TRUE]),
              ShapeConf(<<"keep_original_host", "set_upstream_host", "force_http11_upstream">>,
                        "primary_backup", Tls)},
   requests |-> {[Req EXCEPT !.tls = (v[2] # "plain"), !.version = v[1], !.uri = uri, !.clen = clen, !.h = h,
                    !.sni = IF v[2] = "plain" THEN None ELSE v[2]] :
                   v \in {<<"1.1", "plain">>, <<"1.1", "a">>, <<"2", "a">>, <<"3", "a">>, <<"1.0", "plain">>},
                   uri \in {None, <<"a", "port">>}, clen \in {None, 2 * Kibi, 2 * Kibi + 1},
                   h \in RequestHeaders},
   atATime |-> 1,
   answers |-> {SwitchTo("websocket"), SwitchTo("other"),
                [Plain EXCEPT !.h = Headers(("connection" :> <<{"x-app"}>>) @@ ("x-app" :> "v")
                   @@ ("keep-alive" :> "5") @@ ("alt-svc" :> 1) @@ ("set-cookie" :> <<OwnCookie>>))]}]

-----------------------------------------------------------------------------
(* The cache.                                                              *)

P(path, replace, up, lb) ==
  [Proxy EXCEPT !.path = path, !.replace = replace, !.upstream = up, !.lb = lb]

\* Both applications reach upstream u, by rewritten paths that meet there.
CacheConf ==
  [Conf EXCEPT !.cache = TRUE, !.default = "one", !.ignoreSni = TRUE,
     !.apps = [one |-> [App("a") EXCEPT !.proxies =
                 <<P(None, None, <<Up("u")>>, "sticky"),
                   P(<<"/", "s">>, <<"/", "t">>, <<Up("u")>>, None)>>],
               two |-> [App("b") EXCEPT !.tls = None, !.proxies =
                 <<P(None, None, <<Up("v")>>, None),
                   P(<<"/", "s">>, <<"/", "t">>, <<Up("u")>>, "sticky")>>]]]

Cached ==
  [confs |-> {CacheConf},
   requests |-> {[Req EXCEPT !.src = k[1], !.path = <<"/", k[3]>>, !.tls = (k[1] = "c"),
                    !.h = Headers(("host" :> <<k[2], "plain">>) @@ (XFP :> Line(<<"https">>)))] :
                   k \in {<<"x", "a", "s">>, <<"x", "a", "t">>, <<"p1", "a", "t">>,
                          <<"c", "a", "t">>, <<"x", "b", "s">>, <<"x", "z", "s">>}},
   atATime |-> 2,
   answers |-> {[Plain EXCEPT !.storable = TRUE]}]

-----------------------------------------------------------------------------
(* Configuration files.                                                    *)

AddrV4(ip, ok) == [ip |-> ip, ok |-> ok, any |-> ip = "0.0.0.0"]

ConfPorts ==
  {[Conf EXCEPT !.http = http, !.https = https, !.public = public, !.renamed = renamed,
      !.apps = [one |-> [App("a") EXCEPT !.tls = tls]]] :
     http \in {None, 80, 443}, https \in {None, 443}, public \in {None, 8443}, renamed \in BOOLEAN,
     tls \in {None} \union {[Tls EXCEPT !.redirect = r] : r \in {None, TRUE, FALSE}}}

ConfSettings ==
  {[Conf EXCEPT !.body = body, !.trusted = trusted, !.pp = pp] :
     body \in {None} \union [word : {"digits"}, n : {0, 3, 16}, unit : {0, 2}]
            \union [word : {"int", "unlimited", "empty", "other"}, n : {3}, unit : {0}],
     trusted \in {None, <<>>, <<"lan">>, <<"cloudflare", "nowhere">>},
     pp \in {None, <<>>, <<"edge">>, <<"cloudflare">>}}
  \union {[Conf EXCEPT !.v4 = v4, !.v6 = v6, !.ipv6 = ipv6] :
            v4 \in {None, <<>>, <<AddrV4("127.0.0.1", TRUE)>>, <<AddrV4("bad", FALSE)>>,
                    <<AddrV4("127.0.0.1", TRUE), AddrV4("0.0.0.0", TRUE)>>},
            v6 \in {None, <<[ip |-> "::1", ok |-> TRUE, any |-> FALSE]>>}, ipv6 \in BOOLEAN}

HealthChecks ==
  {None} \union {[on |-> on, type |-> "bool"] : on \in BOOLEAN}
  \union {[on |-> TRUE, type |-> type, path |-> path, interval |-> interval, timeout |-> timeout,
           up |-> up, down |-> None] :
            type \in {None, "http", "udp"}, path \in {None, Slash, <<"x">>},
            interval \in {None, 5}, timeout \in {None, 9}, up \in {None, 0}}

ConfRoutes ==
  {[Conf EXCEPT !.secret = secret, !.apps = [one |-> [App("a") EXCEPT !.proxies =
      <<[Proxy EXCEPT !.path = path, !.replace = replace, !.lb = lb, !.hc = hc, !.opts = opts]>>]]] :
     secret \in {None, "key", "short"}, path \in {None, <<>>, <<"/", "s">>},
     replace \in {None, <<"/", "t">>, <<"/", "SP">>, <<"t">>}, lb \in {None, "sticky", "primary_backup", "weighted"},
     hc \in {None, [on |-> TRUE, type |-> "bool"]},
     opts \in {None, <<"force_http11_upstream">>, <<"force_http11_upstream", "force_http2_upstream">>}}
  \union {[Conf EXCEPT !.apps = [one |-> [App("a") EXCEPT !.proxies =
              <<[Proxy EXCEPT !.lb = "primary_backup", !.hc = hc]>>]]] : hc \in HealthChecks}

ConfApps ==
  {[Conf EXCEPT !.acme = acme, !.default = default,
      !.apps = [one |-> [App(server) EXCEPT !.tls = tls, !.proxies = proxies], two |-> App("b")]] :
     acme \in BOOLEAN, default \in {None, "two"}, server \in {None, "A", "b", "a_"},
     tls \in {Tls, [Tls EXCEPT !.redirect = None, !.cert = FALSE, !.key = FALSE, !.acme = TRUE],
              [Tls EXCEPT !.key = FALSE]},
     proxies \in {None, <<>>, <<Proxy>>, <<Proxy, Proxy>>,
                  <<[Proxy EXCEPT !.upstream = <<>>]>>,
                  <<Proxy, [Proxy EXCEPT !.path = Slash, !.upstream = <<Up("v")>>]>>}}

MCLowerApps == ("one" :> "one") @@ ("two" :> "two") @@ MCLower

Configurations ==
  [confs |-> ConfPorts \union ConfSettings \union ConfRoutes \union ConfApps,
   requests |-> {[Req EXCEPT !.tls = tls, !.sni = "a", !.path = path,
                    !.h = Headers("host" :> <<host, "plain">>)] :
                   tls \in BOOLEAN, host \in {"a", "z"},
                   path \in {Slash, <<"/", "s">>, <<"/", "s", "/", "?", "/">>, <<"/", "s", "?">>,
                            <<"/", "s", "t">>}},
   atATime |-> 1, answers |-> {Plain}]

MCScenarios == <<Chains, Balancer, Messages, Cached, Configurations>>
=============================================================================
