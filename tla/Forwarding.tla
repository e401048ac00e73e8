----------------------------- MODULE Forwarding -----------------------------
(***************************************************************************)
(* The forwarding headers (message_handler/header_ops/forwarding.rs): how  *)
(* rpxy reads the chain of hops a request names, how much of it is         *)
(* believed, and what the upstream is told.                                *)
(*                                                                         *)
(* A header map is a function from header names to None or a value.  The   *)
(* text of a value is abstracted to what the parsers tell apart:           *)
(*   x-forwarded-for    [ok, v]  ok: every line is readable; v: node tokens *)
(*   forwarded          [ok, v]  v: entries, [for, proto, host, by] with   *)
(*                               the sequence of each parameter's values   *)
(*   x-forwarded-proto  [ok, head, v]  head: the first line is readable;   *)
(*                               v: the comma-separated elements of it     *)
(* A node token is [node, ip, port]: "ip", "unknown", "obf" (obfuscated)   *)
(* or "junk" with port "none", "num", "obf" or "bad".  A string that may   *)
(* hold commas is the sequence of its elements.                            *)
(***************************************************************************)
EXTENDS Naturals, Sequences

CONSTANTS
  Canon,   \* to_canonical: an address, perhaps IPv4 written as IPv6, to IPv4
  None     \* an absent header, parameter or address

XFF == "x-forwarded-for"
XFP == "x-forwarded-proto"
FWD == "forwarded"

Unterminated == <<"\"">>   \* a quoted string unquote_http_value refuses

-----------------------------------------------------------------------------
(* Parsing.  Every error of a parser makes the whole header unusable.      *)

NodeOk(t) == t.node # "junk" /\ t.port # "bad"

Node(t) == [ip |-> IF t.node = "ip" THEN Canon[t.ip] ELSE None,
            raw |-> t.node, port |-> t.port]

PeerNode(ip) == [ip |-> ip, raw |-> "ip", port |-> "none"]

XffOk(h) ==
  /\ h[XFF].ok
  /\ h[XFP] # None => h[XFP].head
  /\ \A i \in DOMAIN h[XFF].v : NodeOk(h[XFF].v[i]) /\ h[XFF].v[i].node = "ip"

\* Only the last hop gets the X-Forwarded-Proto line and the host.
XffChain(h, host) ==
  LET n == Len(h[XFF].v) IN
  [i \in 1..n |->
     [node |-> PeerNode(Canon[h[XFF].v[i].ip]),
      proto |-> IF i = n /\ h[XFP] # None THEN h[XFP].v ELSE None,
      host |-> IF i = n THEN host ELSE None,
      by |-> None]]

EntryOk(e) ==
  /\ Len(e.for) = 1 /\ NodeOk(e.for[1])
  /\ \A p \in {"proto", "host", "by"} :
        Len(e[p]) <= 1 /\ \A i \in DOMAIN e[p] : e[p][i] # Unterminated

ForwardedOk(f) == f.ok /\ \A i \in DOMAIN f.v : EntryOk(f.v[i])

Param(values) == IF values = <<>> THEN None ELSE values[1]

ForwardedChain(f) ==
  [i \in DOMAIN f.v |->
     [node |-> Node(f.v[i].for[1]), proto |-> Param(f.v[i].proto),
      host |-> Param(f.v[i].host), by |-> Param(f.v[i].by)]]

Consistent(forwarded, xff) ==
  /\ Len(forwarded) = Len(xff)
  /\ \A i \in DOMAIN xff : forwarded[i].node.ip = xff[i].node.ip
  /\ LET n == Len(xff) IN
     n > 0 => None \in {forwarded[n].proto, xff[n].proto}
              \/ forwarded[n].proto = xff[n].proto

NoChain == [st |-> "none", v |-> <<>>]
BadChain == [st |-> "error", v |-> <<>>]
Chain(hops) == [st |-> "chain", v |-> hops]

\* Mutant: Forwarded is believed although X-Forwarded-For contradicts it.
ExtractUnchecked(h, host) ==
  IF h[XFF] # None /\ ~XffOk(h) THEN BadChain
  ELSE IF h[FWD] # None /\ ForwardedOk(h[FWD]) THEN Chain(ForwardedChain(h[FWD]))
  ELSE IF h[XFF] # None THEN Chain(XffChain(h, host))
  ELSE IF h[FWD] # None THEN BadChain ELSE NoChain

\* extract_forwarding_chain_from_headers.  A bad X-Forwarded-For is an error
\* whatever Forwarded says; a bad or contradicted Forwarded falls back.
Extract(h, host) ==
  IF h[XFF] # None /\ ~XffOk(h) THEN BadChain
  ELSE IF /\ h[FWD] # None /\ ForwardedOk(h[FWD])
          /\ h[XFF] # None => Consistent(ForwardedChain(h[FWD]), XffChain(h, host))
  THEN Chain(ForwardedChain(h[FWD]))
  ELSE IF h[XFF] # None THEN Chain(XffChain(h, host))
  ELSE IF h[FWD] # None THEN BadChain ELSE NoChain

-----------------------------------------------------------------------------
(* The trust boundary.                                                     *)

TrustedHop(e, trusted) == e.node.ip # None /\ e.node.ip \in trusted

Untrusted(chain, trusted) == {i \in DOMAIN chain : ~TrustedHop(chain[i], trusted)}

\* reduce_trusted_proxy_chain: the last untrusted hop and what follows it.
Reduce(chain, trusted) ==
  LET last == CHOOSE i \in Untrusted(chain, trusted) :
                \A j \in Untrusted(chain, trusted) : j <= i
  IN IF Untrusted(chain, trusted) = {} THEN chain ELSE SubSeq(chain, last, Len(chain))

PeerEntry(peer, tls, host) ==
  [node |-> PeerNode(peer), proto |-> IF tls THEN <<"https">> ELSE <<"http">>,
   host |-> host, by |-> None]

\* normalize_forwarding_chain: an untrusted peer, a parse failure or no hop
\* at all leave only the peer.
Normalize(incoming, hop, trusted) ==
  IF hop.node.ip \in trusted /\ incoming.st = "chain" /\ incoming.v # <<>>
  THEN Reduce(Append(incoming.v, hop), trusted)
  ELSE <<hop>>

-----------------------------------------------------------------------------
(* What the upstream is told.                                              *)

\* xff_csv_from_chain has no way to write a hop that is not an address.
Representable(chain) == chain # <<>> /\ \A i \in DOMAIN chain : chain[i].node.ip # None

OrPeer(chain, hop) == IF Representable(chain) THEN chain ELSE <<hop>>

XffValue(chain) ==
  [ok |-> TRUE,
   v |-> [i \in DOMAIN chain |-> [node |-> "ip", ip |-> chain[i].node.ip, port |-> "none"]]]

\* generate_forwarded_header, as its own parser would split it.
ForwardedValue(chain) ==
  LET written(p) == IF p = None THEN <<>> ELSE <<p>> IN
  [ok |-> TRUE,
   v |-> [i \in DOMAIN chain |->
            [for |-> <<[node |-> chain[i].node.raw, ip |-> chain[i].node.ip,
                        port |-> chain[i].node.port]>>,
             proto |-> written(chain[i].proto), host |-> written(chain[i].host),
             by |-> written(chain[i].by)]]]

Line(p) == [ok |-> TRUE, head |-> TRUE, v |-> p]

WriteChain(h, chain, proto, host) ==
  [h EXCEPT ![XFF] = XffValue(chain),
            ![FWD] = IF @ = None THEN None ELSE ForwardedValue(chain),
            ![XFP] = Line(proto),
            !["x-real-ip"] = chain[1].node.ip,
            !["x-forwarded-host"] = host]

\* add_forwarding_header on the header map h, for the hop of the peer.
AddForwarding(h, hop, trusted) ==
  WriteChain(h, OrPeer(Normalize(Extract(h, None), hop, trusted), hop), hop.proto, hop.host)

\* The forwarded_header option: Forwarded is made from X-Forwarded-For.
Generate(h, own, trusted) ==
  IF h[FWD] # None \/ own.st # "chain" \/ own.v = <<>> THEN h
  ELSE [h EXCEPT ![FWD] = ForwardedValue(Reduce(own.v, trusted))]

AddForwarded(h, host, trusted) == Generate(h, Extract(h, host), trusted)

-----------------------------------------------------------------------------
(* client_visible_scheme: the scheme the client used, for the cache key    *)
(* and the Secure attribute.  A header that cannot be read does not fall   *)
(* through to the next one.                                                *)

FirstElement(s) == IF s = <<>> \/ s[1] = "" THEN None ELSE s[1]

ForwardedProto(f) ==
  IF f = None THEN None
  ELSE IF ~f.ok \/ f.v = <<>> \/ f.v[1].proto = <<>> THEN None
  ELSE f.v[1].proto[1]

HeaderSaysHttps(h) ==
  IF h[XFP] # None /\ (~h[XFP].ok \/ FirstElement(h[XFP].v) # None)
  THEN h[XFP].ok /\ FirstElement(h[XFP].v) = "https"
  ELSE ForwardedProto(h[FWD]) = <<"https">>

ClientScheme(tls, peer, h, trusted) ==
  IF tls \/ (peer \in trusted /\ HeaderSaysHttps(h)) THEN "https" ELSE "http"
=============================================================================
