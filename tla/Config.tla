------------------------------- MODULE Config -------------------------------
(***************************************************************************)
(* From the configuration file to the tables the request handler uses:     *)
(* rpxy-bin/src/config (toml.rs, parse.rs), rpxy-trusted-proxies and       *)
(* rpxy-lib/src/backend (backend_main.rs, upstream.rs).  The deserialized  *)
(* file is a record c:                                                     *)
(*   renamed  https_redirection_port is still there                        *)
(*   http, https, public   ports or None      v4, v6, ipv6  listen addresses *)
(*   trusted  trusted_forwarded_proxies       pp  tcp_recv_proxy_protocol  *)
(*   body     request_max_body_size           h3, cache, acme  BOOLEAN     *)
(*   ignoreSni, default, secret               apps  name -> application    *)
(* An application is [server, tls, proxies]; a reverse proxy entry is      *)
(* [path, replace, upstream, lb, hc, opts].  Paths are sequences of        *)
(* characters, an absent option is None.                                   *)
(***************************************************************************)
EXTENDS Forwarding, FiniteSets, SequencesExt

CONSTANTS
  Nets,        \* CIDR or alias name -> addresses; outside its domain: no parse
  Lower,       \* to_ascii_lowercase on the names that occur
  Shape,       \* server name -> [ascii, labels: Seq([len, edges, inner])]
  Kibi,        \* 1024 in the code
  MaxU64,      \* largest u64
  DefaultBody  \* REQUEST_MAX_BODY_SIZE

OrElse(option, default) == IF option = None THEN default ELSE option
Slash == <<"/">>

-----------------------------------------------------------------------------
(* The listeners and global settings.                                      *)

PublicPort(c) == OrElse(c.public, c.https)

PortsOk(c) ==
  /\ ~c.renamed
  /\ c.http # None \/ c.https # None
  /\ c.http # None => c.http # c.https
  /\ c.public # None => c.https # None

\* parse_body_size: "word" is "int", "digits" (with a unit), "unlimited",
\* "empty" or "other".
BodySizeOk(v) ==
  v # None =>
    \/ v.word = "int" /\ v.n >= 0
    \/ v.word = "unlimited"
    \/ v.word = "digits" /\ v.n <= MaxU64 /\ v.n * Kibi^v.unit <= MaxU64

BodyLimit(v) ==
  CASE v = None -> DefaultBody
    [] v # None /\ (v.word = "unlimited" \/ v.n = 0) -> None
    [] OTHER -> v.n * Kibi^v.unit

\* An address is [ip, ok, any]: any is the wildcard address of its family.
AddressesOk(addrs) ==
  addrs # None =>
    /\ addrs # <<>> /\ \A i \in DOMAIN addrs : addrs[i].ok
    /\ Cardinality(Range(addrs)) > 1 => \A i \in DOMAIN addrs : ~addrs[i].any

ListenSockets(c) ==
  LET v4 == IF c.v4 = None THEN {"0.0.0.0"} ELSE {a.ip : a \in Range(c.v4)}
      v6 == IF c.v6 # None THEN {a.ip : a \in Range(c.v6)}
            ELSE IF c.ipv6 THEN {"::"} ELSE {}
  IN (v4 \union v6) \X ({c.http, c.https} \ {None})

EntriesOk(entries) == \A e \in Range(entries) : e \in DOMAIN Nets
Resolve(entries) == UNION {Nets[e] : e \in Range(entries)}

\* resolve_trusted_proxy_entries; no entry, no trust.
Trusted(c) == Resolve(OrElse(c.trusted, <<>>))

\* The plain CIDRs of tcp_recv_proxy_protocol, which has no aliases.
Aliases == {"cloudflare", "cloudfront", "fastly"}
ProxyProtocolOk(pp) == pp # None => pp # <<>> /\ EntriesOk(pp) /\ Range(pp) \cap Aliases = {}

\* TryInto<ProxyConfig>
ProxyConfigOk(c) ==
  /\ PortsOk(c)
  /\ AddressesOk(c.v4) /\ AddressesOk(c.v6)
  /\ EntriesOk(OrElse(c.trusted, <<>>))
  /\ BodySizeOk(c.body)
  /\ ProxyProtocolOk(c.pp)

SniConsistency(c) == ~OrElse(c.ignoreSni, FALSE)

-----------------------------------------------------------------------------
(* Applications.                                                           *)

ServerNameOk(name) ==
  LET labels == Shape[name].labels
      length == FoldSeq(LAMBDA l, n : l.len + n, Len(labels) - 1, labels)
  IN /\ Shape[name].ascii /\ length \in 1..253
     /\ \A i \in DOMAIN labels :
           labels[i].len \in 1..63 /\ labels[i].edges /\ labels[i].inner

\* build_health_check_config: [on, type, path, interval, timeout, up, down],
\* where a bare boolean has type "bool".
HealthCheckOk(hc) ==
  hc # None /\ hc.type # "bool" =>
    /\ \/ OrElse(hc.type, "tcp") = "tcp"
       \/ hc.type = "http" /\ hc.path # None /\ IsPrefix(Slash, hc.path)
    /\ OrElse(hc.timeout, 5) < OrElse(hc.interval, 10)
    /\ OrElse(hc.down, 3) >= 1 /\ OrElse(hc.up, 2) >= 1

Tracked(p) == p.hc # None /\ p.hc.on

ReverseProxyOk(p) ==
  /\ p.upstream # <<>> /\ \A i \in DOMAIN p.upstream : p.upstream[i].ok
  /\ HealthCheckOk(p.hc)
  /\ p.lb = "primary_backup" => Tracked(p)

TlsOk(tls) ==
  tls # None => IF OrElse(tls.acme, FALSE) THEN ~tls.cert /\ ~tls.key
                ELSE tls.cert /\ tls.key

\* build_app_config
AppConfigOk(a) ==
  /\ a.server # None /\ ServerNameOk(a.server)
  /\ a.proxies # None /\ \A p \in Range(a.proxies) : ReverseProxyOk(p)
  /\ TlsOk(a.tls)

\* validate_and_build_settings
SettingsOk(c) ==
  LET apps == {c.apps[n] : n \in DOMAIN c.apps} IN
  /\ ProxyConfigOk(c)
  /\ apps # {}
  /\ c.http = None => \A a \in apps : a.tls # None
  /\ None \in {c.http, c.https} => \A a \in apps : a.tls # None => a.tls.redirect = None
  /\ \A a \in apps : AppConfigOk(a)

\* Mutant: a sticky route needs no secret.
StickySecretOptional(c) == TRUE

\* validate_and_build_sticky_cookie_secret.  A secret is "key" when it decodes
\* to 32 bytes; a NUL byte cannot be part of the sealed name or path.
StickySecretOk(c) ==
  LET sticky == UNION {{p \in Range(c.apps[n].proxies) : p.lb = "sticky"} : n \in DOMAIN c.apps}
  IN sticky # {} => /\ c.secret = "key"
                    /\ \A p \in sticky : "NUL" \notin Range(OrElse(p.path, Slash))

\* build_cert_manager, only where there is a TLS listener.
CertManagerOk(c) ==
  c.https # None =>
    \A n \in DOMAIN c.apps :
      c.apps[n].tls # None /\ c.apps[n].tls.acme = TRUE => c.acme

-----------------------------------------------------------------------------
(* The backend tables.                                                     *)

UpstreamOptions == {"keep_original_host", "set_upstream_host",
  "upgrade_insecure_requests", "force_http11_upstream",
  "force_http2_upstream", "forwarded_header"}

\* Options no one knows are left out without an error.
Options(p) == Range(OrElse(p.opts, <<>>)) \cap UpstreamOptions

\* A load balancing option no one knows is the default one.
Balance(p) ==
  IF p.lb \in {"none", "random", "round_robin", "sticky", "primary_backup"}
  THEN p.lb ELSE "none"

\* PathManager::try_from: path -> entry, a later entry of a path wins.
Routes(a) ==
  LET path(i) == OrElse(a.proxies[i].path, Slash)
      last(p) == CHOOSE i \in DOMAIN a.proxies :
                   path(i) = p /\ \A j \in DOMAIN a.proxies : path(j) = p => j <= i
  IN [p \in {path(i) : i \in DOMAIN a.proxies} |-> a.proxies[last(p)]]

PathManagerOk(a) ==
  /\ Cardinality({i \in DOMAIN a.proxies : a.proxies[i].path = None}) < 2
  /\ \A p \in DOMAIN Routes(a) :
        ~({"force_http11_upstream", "force_http2_upstream"} \subseteq Options(Routes(a)[p]))

\* What the start of a generation asks of a configuration.
Accepted(c) ==
  /\ SettingsOk(c)
  /\ StickySecretOk(c)
  /\ CertManagerOk(c)
  /\ \A n \in DOMAIN c.apps : PathManagerOk(c.apps[n])

ServerNames(c) == {Lower[c.apps[n].server] : n \in DOMAIN c.apps}

\* BackendAppManager.apps.  Applications come from a hash map in any order and
\* a later one replaces an earlier one of its server name.
BackendApps(c) ==
  {table \in [ServerNames(c) -> DOMAIN c.apps] :
     \A s \in ServerNames(c) : Lower[c.apps[table[s]].server] = s}

\* default_server_name: a server name whose application has the name asked for.
DefaultServers(c, table) ==
  LET found == {s \in DOMAIN table : c.default # None /\ Lower[table[s]] = Lower[c.default]}
  IN IF found = {} THEN {None} ELSE found

Redirects(a) == a.tls # None /\ OrElse(a.tls.redirect, TRUE)

\* PathManager::get: the longest route that ends at a boundary of the path.
Get(routes, path) ==
  LET matching == {r \in DOMAIN routes :
        /\ IsPrefix(r, path)
        /\ Len(r) = 1 \/ Len(r) = Len(path) \/ path[Len(r) + 1] = "/"}
  IN IF matching = {} THEN None
     ELSE CHOOSE r \in matching : \A other \in matching : Len(other) <= Len(r)
=============================================================================
