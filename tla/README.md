# rpxy in TLA+

A verification project for `rpxy`, the HTTP reverse proxy of this repository
(`src/`): TLA+ models of the parts whose correctness depends on the order in
which concurrent tasks act, TLC runs over small instances of them, and proofs
checked by TLAPS for every instance.

A model keeps all of the control of the code it stands for (every change of
shared state, every guard, early return and error path) and abstracts the data:
a cached URI is a key, a body frame its length, a forwarding header the sequence
of hops its parser finds in it.
`PROJECT.json` maps each definition to its source lines. Definitions marked
*Mutant* are deliberate bugs; each is paired with the property that must fail
when it replaces the definition after it.

## 1. The system

| Part | Source | State it owns | Modelled by |
|---|---|---|---|
| Response cache | `rpxy-lib/src/forwarder/cache/cache_main.rs` | LRU behind a mutex and its atomic length, file count, file and generation counters, files of `cache_dir` | `CacheStore`, proofs in `CacheStoreProofs`, `CacheFilesProofs` |
| Spooling relay of a cached response | same, `spool_and_store` | channel to the client, buffer, temporary file | `Spool`, contract in `StoreContract`, proofs in `SpoolProofs` |
| Admission of connections and streams | `rpxy-lib/src/count.rs`, `proxy/proxy_main.rs`, `proxy/proxy_h3.rs` | `RequestCount`, `PerIpConnectionCount`, the PROXY semaphores | `Admission`, proofs in `AdmissionProofs` |
| Supervision and reload | `rpxy-bin/src/main.rs`, `rpxy-lib/src/lib.rs`, `proxy/proxy_main.rs` | watch channel, current service, tree of cancellation tokens, join handles | `Supervisor` |
| Health checking | `rpxy-lib/src/backend/health_check` | counters, health flags | `HealthCheck`, proofs in `HealthCheckProofs` |
| Load balancing | `rpxy-lib/src/backend/load_balance`, `backend/upstream.rs` | round-robin pointer; reads the health flags | `LoadBalance`, proofs in `LoadBalanceProofs` |
| Certificate reload, TLS and QUIC listeners | `rpxy-certs`, `proxy/proxy_main.rs`, `proxy/proxy_quic_*.rs` | last good contents, watch channel, rustls configurations, the shared session ticketer, QUIC limits | `CertReload`, proofs in `CertReloadProofs`; life of the tasks in `Supervisor` |
| Request bodies and the read of a cached file | `proxy/proxy_h3.rs`, `hyper_ext`, `FileStore::read` | body channels, byte counts, the overrun latch | `Bodies`, proofs in `BodiesProofs` |
| Request pipeline | `rpxy-lib/src/message_handler`, `forwarder/client.rs`, `proxy/proxy_protocol.rs` | none of its own; requests meet in the cache | `Request` |
| Forwarding headers | `message_handler/header_ops/forwarding.rs` | none | `Forwarding`, used by `Request` |
| Configuration and routing tables | `rpxy-bin/src/config`, `rpxy-trusted-proxies`, `rpxy-lib/src/backend` | the tables of one generation | `Config`, used by `Request` |
| ACME | `rpxy-acme` | account and certificate files | life of the task in `Supervisor`; its files are files of `CertReload` |
| Logging, executor and timer adapters | `log.rs`, `hyper_ext/executor.rs`, ... | none | not modelled |

How they interact: `main` runs the configuration watcher and `rpxy_service`.
The latter builds a service per configuration and starts a *generation* of
tasks: `entrypoint` with its listeners and health checkers, the certificate
reloader, the ACME manager. A listener admits connections against the counters
of its generation and serves them in tasks of their own; a request picks an
upstream by its group's policy, reading flags the group's health checker
writes; the forwarder looks the request up in the cache and, on a miss, relays
the response through a detached put task that may store it. Three modules meet
in one request: `Request` decides what is asked of which upstream and under which
cache key, leaving the choice among healthy upstreams to `LoadBalance` and the
inside of the cache to `CacheStore` and `Spool`.

What makes this hard to test: tasks on several threads meet in atomics, a mutex
held for single operations, files, channels and tokens, never in one common
lock; futures are dropped at any await; any file operation may fail; the
configuration changes while the previous change is being applied. The hazards
are listed one by one, with the lines where they bite and the properties that
watch them, in `PROJECT.json`.

## 2. The models

### CacheStore

State: `lru` (the set of cached objects), `older` (its recency order), `lruCnt`,
`poisoned` (the mutex), `fileCnt`, the counters `fileSeq` and `objGen`, the file
names in `tmp` and `disk`, and per task `pc` and `obj`. `lost` and `leaked` are
history: files that went other than by a counted removal, and files whose unlink
failed. A step is one critical section, one atomic operation or one file-system
call.

A put task goes through `Put`, `SpoolGiveUp`/`SpoolOnMemory`/`SpillCreate`,
`SpillCommit`/`SpillAbort`, `NewObject`, `IncrCount`, `Push`/`PushFails` and,
for the file it displaced or rolls back, `RemoveDecr` and `RemoveUnlink`. A get
goes through `GetLookup`, `GetFresh`/`GetStale`, `GetOpen`/`GetOpenFails`,
`GetEvict`/`GetEvictSkips` and `ReadEnds`/`ReadMismatch`. The environment
deletes files (`ExternalRemove`) and panics inside the critical section
(`Poison`). Freshness is decided by the external crate `http-cache-semantics`,
hence a free choice. A get whose future is dropped matters only while it opens
the file (`GetDropped`): elsewhere it has no await before the state it changes.

### Spool and StoreContract

`Spool` is one call of `spool_and_store`: the frames taken from upstream, the
bounded futures channel (a sender parks when more than the buffer is queued and
is woken by a receive or by the drop of the receiver), the two phases (memory,
file), every failing file operation, and the client that reads, lags or leaves.
`StoreContract` is what `CacheStore` takes a store to be: it ends with nothing,
an on-memory object or one committed file, and its temporary file does not
outlive it. `ImplementsContract` checks that every behaviour of `Spool` is one
of `StoreContract`. The corresponding steps of `CacheStore` are `SpoolGiveUp`,
`SpoolOnMemory`, `SpillCreate`, `SpillCommit` and `SpillAbort`;
`CreateAndAbort` is `SpillCreate` followed by `SpillAbort`.

### Admission

Connections of the three kinds of listener and HTTP/3 streams go from accept
through PROXY header, per-IP slot, TLS handshake and `RequestCount` to service
and back. `RequestCount::decrement` is a load and a compare-exchange that may
fail and retry. An upgraded connection leaves its serving task and lives on as a
tunnel. Identifiers are reused, so runs cover histories of any length. The
permit of a served connection is returned in the step that counts it: the
accepting task does nothing observable in between. A panic ends the process
(`panic = "abort"` in the release profile), so no task is left half done by one.

### Supervisor

`rpxy_service` with its three steps (`Changed`, `Get`, `Build`) and, for each
generation, the tasks and tokens `start_inner` and `entrypoint` make. A TLS or
QUIC listener is two tasks, the one `entrypoint` joins and the one it spawns
(`inner`), which goes on when the future of the first is dropped. `Settle`
collects what tasks do by themselves, `Fault` what may happen to them. `parts`
is the deployment: which listeners, checkers and services a configuration makes
the generation run; a constant lists those a run considers.

### HealthCheck

One checker task: `Tick` starts the probes of all upstreams, `ProbeEnds` answers
them one by one, `JoinAll` waits for the last, `Record` feeds one result to its
counter and publishes a transition, `Return` is the cancelled select. The
environment takes upstreams down and up (`Toggle`). `oks` and `fails` are
history: the true lengths of the current run of results, which, unlike the
counters, no transition resets.

### LoadBalance

Requests under one policy. A client sends a request whenever it likes (`Send`),
also while others of its own are under way, as the streams of an HTTP/2 or HTTP/3
connection are; the request carries the cookie the client holds at that moment
(`sent`) and is dispatched later (`Begin`). Each load of a flag (`Draw`, `Count`, `Scan`) and each operation on the pointer (`FetchAdd`,
`StoreZero`) is a step, and the checker may turn a flag (`SetHealth`) between
any two; all flag sequences a `HealthCheck` can produce are included, since
any flag may turn at any time. The policy, and whether the group is checked at
all (`tracked`), are chosen at the start. The pointer has the width `MaxUsize`. History:
`calm` (no flag turned during this pick), `served` and `window` (picks since
the last turn of a flag or reset of the pointer), `last` (the upstream of the
client's last successful response). Loads are taken in
program order; `Relaxed` loads of different flags may be reordered by the
hardware, which gives a pick no outcome beyond those of a flag turning in
between.

### CertReload

The way of a certificate from its files to a handshake. `Reload`, `Read` (one
source) and `Publish` are the reloader; `Changed` is a listener woken by the
channel, `TicketerHit`, `TicketerNew` and `TicketerInit` are
`ServerCryptoBase::try_into` around `SHARED_TICKETER`, ending in `Swap`;
`TicketerFails`, `QuicConfigFails` and `QuicServerFails` its failures.
`QuicAccept` and `QuicHello` are quinn's accept loop, which waits inline for the
ClientHello. `kind` chooses the QUIC stack. What the files of a name hold is
unreadable (`None`), unusable (`Junk`) or an issue; `Write` changes it at any
time, also between the reads of one reload. That a base equal to the last one
may be held back is left open, as `hot_reload` is external. Existing connections
and session resumption itself are not modelled. ACME writes the file that holds
a name's certificate and key in place, which is one more `Write`: a reload that
reads it half written finds it unreadable.

### Bodies

One body at a time, of one of three kinds (`kind`): an HTTP/3 request that the
task of `h3_serve_stream` receives and sends through `IncomingLike`'s rendezvous
channel (`Receive`, `ReceiveEnd`, `ReceiveTrailers`, `ReceiveFails`, `SendFrame`,
`SendFails`, `Abort`); an HTTP/1.1 or HTTP/2 request behind `LimitedBody`
(`LimitedData`, `LimitedTrailers`, `LimitedError`, `LimitedEnd`); a cached file
that the task of `FileStore::read` sends and then verifies (`ReadChunk`,
`ReadStops`, `Verify`). The consumer polls (`PollQueue`, `PollEnd`) or drops the
body at any moment (`DropBody`, which closes the watch channel the sender looks
at). A frame is its size; the history variable `given` adds up those the consumer
has been given, which is what the limits are about.

### Forwarding, Config and Request

`Forwarding` is `forwarding.rs` as operators on parsed headers: reading a chain
(`XffChain`, `ForwardedChain`, their agreement `Consistent`, `Extract`), the
trust boundary (`Reduce`, `Normalize`) and what is written (`WriteChain`,
`AddForwarded`). A header value is what its parser splits it into, plus whether
it splits it at all: tokens keep address, port and the ways in which they can be
refused, so that each error path of the parsers is one of the values.

`Config` takes the deserialized file and gives its acceptance (`Accepted`, made
of the checks of `toml.rs`, `parse.rs`, `rpxy-trusted-proxies` and
`PathManager::try_from`) and the tables (`Routes`, `BackendApps`,
`DefaultServers`). The order in which a hash map yields the applications is
open.

`Request` is the life of a request. `Load` turns an accepted file into tables.
`Arrive` is everything up to the first await: the source address after the PROXY
header (`Source`), the refusals in their order (`Refusal`: 400, 421, 413, 503,
301, 404, 500), the choice of an upstream and of a cookie (`Candidates`), and the
request for the upstream (`Forwarded`: hop headers off, forwarding headers,
sticky cookie out, upstream options, Host, path, version, cache key). `Lookup`,
`Fetch` and `FetchFails` are `Forwarder::request`; `Respond` is what the handler
does with the response (cookie, upgrade, response headers). `Publish` and
`Discard` are what becomes of a body that is spooled for the cache.
Paths are sequences of characters, since routing is about their prefixes.
Names, hosts and addresses are constants with the tables `Lower`, `Canon`,
`Nets` and `Shape` for what lower-casing, canonicalisation, CIDR matching and
the server-name syntax say of them.

## 3. The runs

| Run | What it asks | Instance |
|---|---|---|
| `cache_store` | counts, files, recency and entries agree in every interleaving of puts and a get | 3 keys, 3 puts, 1 get, capacity 2 |
| `spool` | the relay is faithful and goes on, memory is bounded; implements `StoreContract` (what is cached is whole, no file outlives the store) | up to 4 frames of length 0 to 2, limits 1 and 3, channel of 1; fair |
| `admission` | the counters are exact and the limits hold; no connection stays in header or handshake, also with a configured timeout of 0 | 3 connections of 1 address, 1 stream, 1 client, 2 connections per address, PROXY protocol on; fair |
| `admission_tunnel` | *violated*: the per-IP limit and upgraded connections | 2 connections, limit 1 |
| `supervisor` | `entrypoint` drains its tasks; errors reach the exit code; a replaced generation ends; the last valid configuration is applied; an error ends the service | two deployments: a cleartext listener with a checker, and a TLS listener with reloader and ACME; 2 configurations; fair |
| `supervisor_failfast` | *violated*: a TLS listener that fails | 2 listeners, reloader; fair |
| `health_check` | flags turn exactly when a run of results is complete and converge; a cancelled checker returns | 2 upstreams, thresholds 2 and 3, counters saturating at 4; fair |
| `load_balance` | picks are healthy and balanced while flags turn and the pointer wraps; cookies are followed and name the server | 2 requests of one client in parallel, 3 upstreams, pointer 0..4, all policies, with and without health checks |
| `cert_reload` | a name stays served when files cannot be read; one ticketer; listeners converge to the files | 2 names (one with a client CA), 2 issues, 1 change of files, both QUIC stacks; fair |
| `cert_limits` | *violated*: the configured HTTP/3 limits | as `cert_reload` |
| `bodies` | no body passes its limit; an overrun is an error, once, and never an end; only corrupted files are removed; every relay ends | up to 4 frames of size 1 or 2, every pair of limits 0, 2, 3 and none; fair |
| `request` | answers come from the client's own route, chains stop at the first untrusted hop, hop state and sticky cookies stay where they belong, accepted files serve | five scenarios, see below |

The scenarios of `request` (`MCRequest`): every pair of `X-Forwarded-For` and
`Forwarded` with up to two hops each, good and bad, with each kind of
`X-Forwarded-Proto`; the same behind the PROXY protocol; every combination of
protocol version, request line, Host, Connection, Upgrade, TE, cookies and
length under three configurations; two requests at a time that meet in the cache,
of two applications whose rewritten paths coincide at one upstream; and
about 1,000 configuration files around each check, most of them refused.

Why the bounds are enough. The cache races are between two tasks on one key
plus a third that displaces the result: three puts with one get contain each, and
a cache of two entries for three keys has an entry to keep besides the one it
evicts. (Larger caches and more gets are the subject of the proofs.) The frame lengths 0 to 2 against limits 1 and 3 reach each limit exactly, cross each, and cross
both at once. Admission needs one more connection than each limit and two actors
in the compare-exchange; with two slots for three connections a release
leaves the entry of the address in the map or takes it away, and a third connection
is refused. One address is what TLC can afford with liveness; that addresses do not
disturb each other, also when a PROXY header changes the one a connection is
accounted to, is part of the theorem `PerIpCorrect`. Two configurations are one reload; a generation
interacts with its predecessor only. Three upstreams are the least where the
count and the scan can disagree with something left over. Two requests of one
client are the least whose responses overtake each other; clients share nothing
but the pointer and the flags, which two requests of one client share as well
(any number of clients is the subject of the proofs). One change of the files
from any contents is each pair of a published base and its successor, and reloads
go on for ever; `MCCertReload` keeps one issue for the change, which loses
nothing because issues are interchangeable. Frames of size 1 and 2 against limits
0, 2 and 3 reach each limit exactly and cross it in the first, a middle and the
last frame. Two hops before the peer are the least in which a trusted hop hides
an untrusted one; two requests and two stored entries the least in which one is
answered with the other's response; one request at a time is enough where the
cache is off, since requests share nothing else. `Kibi = 2` and `MaxU64 = 15`
make the multiplication of a body size overflow within the values of the run.
In `Spool` and `Bodies`, `CacheStore` puts and `Supervisor` versions the number of
frames, puts and versions is the bound on the length of a behaviour; everything
else runs for ever. Deadlock is checked except where the behaviour may end: in the
cache, spool and body runs (a finite supply of puts or frames), in the certificate
runs (reloader and listeners may all have returned) and in `request` (a refused
file serves nobody).

Symmetry is used in safety runs only, over keys, requests and tasks of one kind that no
definition tells apart (`MCCacheStore`, `MCLoadBalance`, `MCRequest`).

### Fairness

Weak fairness of a task's own steps: tokio polls a task again once it is woken,
and each step named is enabled by the task's own state, a cancelled token or a
timer. Nothing is assumed of peers: upstream frames, client reads after it left,
handshakes, new configurations and faults need not happen. In `HealthCheck` a
probe ends because its timeout is finite, and `Return` is strongly fair because
`select!` polls its branches in random order and the configuration forces the
probe timeout below the interval, so the token is looked at between two ticks.
In `CertReload` a listener's `Changed` is strongly fair for the same reason (an
accept may be ready each time), and `QuicHello` is fair because a connection
without a ClientHello is lost when idle (quinn's default timeout is finite, and
`cert_limits` shows that it is the one in force).
In `Bodies` the task and the connection that owns the body are polled again, and
the source owes nothing.
`RequestCount::decrement` is lock-free and not wait-free, so no liveness is
claimed for it.

### Disagreements with the repository's own words

* `admission_tunnel`: an upgraded connection returns its per-IP slot when hyper
  hands it over, while `config-example.toml` and a comment in `proxy_main.rs`
  speak of the whole connection.
* `supervisor_failfast`: a TLS or QUIC listener that fails is reported as a
  success; the other listeners stop and the process stays up for the
  certificate reloader, while `lib.rs` says "fail fast on first error".
* `cert_limits`: with quinn, the first certificate update installs a server
  configuration made of the crypto alone, so `max_concurrent_bidistream`,
  `max_concurrent_unistream`, `max_concurrent_connections` and
  `max_idle_timeout` apply to no connection, while `config-example.toml` bounds
  the streams of one address by them.
* Hop headers, without a run of its own: `remove_connection_header` looks at the
  first `Connection` line only (`HeaderMap::remove` returns the first value and
  drops the others), so a header that only a later line lists is forwarded, while
  the comment above it (`hop.rs` 5-8) says that the function removes "every
  hop-by-hop header it lists". `ConnectionTokens` models the first line, and
  `HopStateStaysOnHop` claims no more than that, for requests and responses.

### What the properties except

Some properties name a case in which the code does something a reader may not
expect. No document says otherwise, so these are exceptions and not
disagreements.

* `CleanEndIsWhole`: when the source of an HTTP/3 request body or of a cached
  file fails, the relay task drops its sender without `abort`, and the consumer
  sees a truncated body end normally.
* `HopStateStaysOnHop`: a Host listed in `Connection` is removed and, if
  the request line had no authority, not put back. `Server` and `Alt-Svc` are
  rpxy's own in a response, listed or not. Sticky cookies are taken out
  on sticky routes only.
* `AcceptedConfigServes`: an application with TLS settings and no
  `https_redirection` in a file without `listen_port_tls` is accepted, and its
  cleartext clients are redirected to a port nobody listens on; a route with an
  empty path and `replace_path` is accepted and answers 500; so does a route whose
  `replace_path` does not begin with `/` or has a character no path may have,
  because the loader does not look at it (`toml.rs` 747) and
  `PathAndQuery::try_from` refuses the new path on every request. The operator's
  side of it is in `config-example.toml` 161 ("must be start from "/""); that the
  `http` crate (1.4.2 in `Cargo.lock`) refuses a path without the leading `/` is
  an assumption about that crate, whose source is not part of the repository.
* `StickyNamesServer`: of a client's parallel requests, one whose cookie was
  replaced or has expired since it was sent is still served by the upstream of the
  old cookie, and its response says nothing of the cookie. Such a response has
  crossed a change of the cookie (`Crosses`) and names no session.
* `PicksHealthy` and `Balanced`: when a flag turns between the count and the scan,
  the pick is an upstream of the group but perhaps an unhealthy one; across the
  reset of the pointer, requests between `fetch_add` and the store of zero draw
  turns that are drawn again.
* Two sticky cookies in one request (nested sticky routes give a client both) are
  both ignored, so such a client is bound anew by each request.
* Of two applications with one server name, the one a hash map yields last
  serves; of two routes with one path, the later.
* A put that fails turns the upstream's response into a 502 (`FetchFails`).

## 4. The proofs

Checked by TLAPS, for every value of the constants that satisfies the named
`ASSUME`s of the component modules (the same ones TLC evaluates).

`CacheStoreProofs` and `CacheFilesProofs`, which extends it, prove type correctness, the five properties that `cache_store` checks
(`FileCountExact`, `LiveEntryHasFile`, `NoStrandedFile`, `LruWellFormed`,
`EvictsOnlyTheObjectSeen`) and `RemoveNeverSaturates`, that no removal meets a
count of zero. The inductive invariant `SafeInv` conjoins:

* `TypeInv`: the types, and that a task about to count, remove or read a file
  holds one;
* `GenInv`: generations and file names already drawn are below their counters
  and determine the object, so that a generation match is an object match;
* `LruInv`: one object per key, a total order, the exact length;
* `OwnInv`: a file is owned by one entry or one task, never by two; this is what
  keeps a displacement or a roll-back from unlinking a live entry's file, and a
  file from being counted down twice.

On top of it `CountInv` (the count is the cardinality of the owned files),
`LiveInv` and `StrandInv` are preserved, and the theorems follow. Minimal
elements of the recency order come from the library's well-founded ordering of
finite sets. Each of these proofs has a frame lemma for the steps in which one
task ends or goes on (`Finishes`, `Goes`), and one lemma for each step that
moves an object or a file.

`HealthCheckProofs` proves type correctness, `FlagFollowsProbes` and
`TurnsAtThreshold`. `FlagFollowsProbes` alone is not inductive: `RunInv` adds
that the counter in charge of the next transition (failures while the flag is
up, successes while it is down) equals the true length of the current run and is
below its threshold, and that the tracked state equals the flag.

`CertReloadProofs` proves type correctness, `OneTicketer` and `DomainStays`.
The latter needs that no name with a client CA is served over HTTP/3
(`NoMutualOverQuic`) and `KeepInv`: a reload has read exactly the last good
contents, a published name has a last good content while the reloader lives, and
a listener serves and builds only published names, so a base it builds from has
every name it serves. The assumption that `None` is not a base is the code's
`Option`.

`AdmissionProofs` proves `CountExact`, `ServedWithinLimit`, `PerIpExact` and
`PendingBounded` for any connections, streams, addresses and limits, from finite
sets of connections and streams with nothing in common. `CountInv` joins
`CountExact` with the limit on what is served: a connection is admitted only if
fewer than `MaxClients` are counted, the served ones are among the counted, and
an exact count is never zero when a decrement loads it, which is why the early
stop of the loop does no harm. `PerIpExact` says
that the map has an entry for exactly the addresses that hold slots, with their
number. `SlotsCounted`, its reading that takes a missing entry for zero, is
inductive once the types are known: each step moves one connection in or out of
the holders of one address. That no entry is zero is part of the
inductive type invariant; the lemma `EntriesHeld` puts the two together.
`PendingBounded` is not; `PermitInv` adds that a pending connection of a TCP
listener holds a permit, that an unused one holds none, and that the permits of a
listener are at most `MaxClients`.

`SpoolProofs` proves `RelayIsFaithful`, `MemoryIsBounded` and the refinement
`ImplementsContract`, for bodies of any length. The relay and the store of one
frame are two steps with a wait between them, so neither property is inductive.
`RelayInv` says that, unless the client left, what it has got and what is queued
are the frames sent so far, and that only a parked sender takes the channel over
its buffer. `StoreInv` says the same of the store one frame behind: `Stored(Seen)`,
the buffer or the file holds all data of the frames before the one in hand, none
of which was an error, and the size is exact. `TempInv` ties the temporary file to
the spill that owns it; with it every step of `Spool` maps to a step of
`StoreContract` or to a stutter.

`LoadBalanceProofs` proves the four properties of the run `load_balance` for any
number of upstreams, clients and concurrent requests, of one client or of many, and
any pointer width; the requests are assumed finitely many at a time, and `None` and
`Stale` to be no index. `RequestInv` says what
a walk over the flags knows while none of them turns: how many healthy upstreams it
has passed and, in the second walk, that the one it is looking for is still ahead,
which is why `pick_nth_available_index` finds it. `StickyInv` says that a
request follows the cookie it carries or brings a new one, so that the response
leaves the client with the cookie of its upstream unless it crossed a change. `Balanced` needs `WindowInv`, a count of turns:
for each available upstream, the picks made and the turns drawn and not yet used
are together the turns of its place between the pointer at the start of the
window and the pointer now. `LapOf` counts these with `div` and `mod`; two places
differ by at most one.

`BodiesProofs` proves `WithinLimit`, `CleanEndIsWhole`, `RemovesOnlyCorrupted` and
the action property `NothingAfterError` for bodies of any length, any frame sizes,
limits and capacity. `DataInv` splits what the source delivered into what the
consumer has, what waits in the channel and what the task holds or has refused; an
error stands behind everything else in the channel, so an overrun never looks like
the end. `WithinLimit` is about what has been polled, while the task compares what
it has received: `BytesInv` bounds what has been polled, waits and is held
together, using that the rendezvous channel holds one frame. `TrailersInv`,
`FileInv`, `LimitedInv` and `ControlInv` say how far the two halves have got.

Only model-checked: `Supervisor`, and `Request` with `Forwarding` and `Config`,
where the question is what a fixed pipeline does with each kind of input and TLC
enumerates them; and all liveness (in `Spool`, `Admission`, `Supervisor`, `HealthCheck`,
`CertReload` and `Bodies`). Liveness under fairness, `ENABLED` and induction over
data are out of the prover's reach.

## 5. Not modelled

* The text of headers, URIs, PROXY headers, cookies and TOML: the parsers are
  modelled by the values they tell apart, not byte by byte. One character (`"SP"`)
  stands for those no path may have; a `#` in `replace_path`, which cuts off what
  follows, is left out. The cipher of sticky
  cookies is a record that opens under the name and path it was sealed for.
* Headers that rpxy overwrites and never reads (`x-forwarded-port`,
  `x-forwarded-ssl`, `x-original-uri`, `proxy`), and the `Connection: close` of a
  413.
* The loop that writes a response to an HTTP/3 stream (`proxy_h3.rs` 173-205): it
  hands each frame to the `h3` crate in order and has no state of its own; how a
  dropped stream looks to the client is that crate's matter.
* The limits of `Admission` across generations: every reload starts fresh
  counters while connections of the old generation live on.
* hyper, rustls, quinn, s2n-quic, rustls-acme, hot_reload and
  http-cache-semantics: modelled by what the code may observe of them.
* Logging, command-line arguments and socket options: pure I/O. Trusted-proxy
  tables and the tool that generates them: data.
