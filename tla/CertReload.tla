------------------------------ MODULE CertReload ------------------------------
(***************************************************************************)
(* The way of a certificate from its files to a handshake: the reloader    *)
(* task of rpxy-certs reads one source after the other and publishes the   *)
(* result on a watch channel; the TLS listener and the QUIC listener, each *)
(* a task of its own, build their rustls configuration from it, around the *)
(* one session ticketer of the process, and swap it in.                    *)
(*                                                                         *)
(* What the files of a name hold is one value: None when they cannot be    *)
(* read, Junk when they can and make no configuration (a key of no         *)
(* supported type, a certificate for another name, no usable client CA),   *)
(* else an issue.  A certificate and a key that do not match are an issue  *)
(* too: nothing on this path compares them.                                *)
(***************************************************************************)
EXTENDS Naturals

CONSTANTS Names,    \* the configured server names
          Mutual,   \* those with a client CA
          Issues,   \* usable contents of the files of a name
          Junk, None,
          MaxWrites \* bound on the changes of the files

ASSUME NamesAssumption ==
  /\ Mutual \subseteq Names /\ Junk # None /\ {Junk, None} \cap Issues = {}
  /\ None \notin [Names -> Issues \cup {Junk, None}]
  /\ MaxWrites \in Nat

VARIABLES
  writes,    \* how often files were replaced
  disk,      \* what the files of each name hold
  left,      \* the sources this reload has still to read
  reloader,  \* "sleep", "read" or, when its future returned, "ended"
  base,      \* ServerCryptoBase being built by the reload
  last_good, \* CryptoReloader.last_good
  pub,       \* the value in the watch channel: None or a base
  fresh,     \* per listener: the channel holds a value it has not seen
  kind,      \* the QUIC stack of this build
  lst,       \* where each listener is
  got,       \* the base a listener is building from
  cfg,       \* per listener and name, what a handshake is served with
  shared,    \* SHARED_TICKETER
  ticketer,  \* the ticketer of each listener's configuration
  transport  \* the limits in the QUIC endpoint's server configuration

vars == <<writes, disk, left, reloader, base, last_good, pub, fresh, kind, lst,
          got, cfg, shared, ticketer, transport>>
fileVars == <<writes, disk>>
reloadVars == <<left, reloader, base, last_good, pub>>
listenVars == <<lst, got, cfg, shared, ticketer, transport>>

Listeners == {"tls", "quic"}
Content == Issues \cup {Junk, None}
Empty == [n \in Names |-> None]

\* quinn starts with an endpoint whose resolver is empty and the configured
\* limits; the others have no configuration before the first publication.
Init ==
  /\ writes = 0 /\ disk \in [Names -> Content]
  /\ left = {} /\ reloader = "sleep" /\ base = Empty /\ last_good = Empty
  /\ pub = None /\ fresh = [l \in Listeners |-> FALSE]
  /\ kind \in {"quinn", "s2n"}
  /\ lst = [l \in Listeners |-> "empty"]
  /\ got = [l \in Listeners |-> Empty] /\ cfg = [l \in Listeners |-> Empty]
  /\ shared = None /\ ticketer = [l \in Listeners |-> None]
  /\ transport = "configured"

\* An operator, a tool or the ACME manager replaces the files of a name.  Nothing
\* reads what is written once the reloader ended.
Write(n) ==
  /\ reloader # "ended"
  /\ writes < MaxWrites /\ writes' = writes + 1
  /\ \E c \in Content \ {disk[n]} : disk' = [disk EXCEPT ![n] = c]
  /\ UNCHANGED <<reloadVars, fresh, kind, listenVars>>

-----------------------------------------------------------------------------
(***************************************************************************)
(* The reloader.                                                           *)
(***************************************************************************)
\* The watch delay is over: reload starts from an empty base.
Reload ==
  /\ reloader = "sleep"
  /\ reloader' = "read" /\ left' = Names
  /\ UNCHANGED <<fileVars, base, last_good, pub, fresh, kind, listenVars>>

\* Mutant: a source that cannot be read is skipped.
ReadForgets(n) ==
  /\ reloader = "read" /\ n \in left
  /\ left' = left \ {n}
  /\ last_good' = [last_good EXCEPT ![n] = disk[n]]
  /\ base' = [base EXCEPT ![n] = disk[n]]
  /\ UNCHANGED <<fileVars, reloader, pub, fresh, kind, listenVars>>

\* One source: what was read is remembered, and taken in place of what cannot be.
Read(n) ==
  /\ reloader = "read" /\ n \in left
  /\ left' = left \ {n}
  /\ last_good' = [last_good EXCEPT ![n] = IF disk[n] = None THEN @ ELSE disk[n]]
  /\ base' = [base EXCEPT ![n] = last_good'[n]]
  /\ UNCHANGED <<fileVars, reloader, pub, fresh, kind, listenVars>>

\* The reload service sends the base; one equal to the last it may hold back.
Publish ==
  /\ reloader = "read" /\ left = {}
  /\ reloader' = "sleep" /\ base' = Empty
  /\ \/ pub' = base /\ fresh' = [l \in Listeners |-> lst[l] # "ended"]
     \/ pub = base /\ UNCHANGED <<pub, fresh>>
  /\ UNCHANGED <<fileVars, left, last_good, kind, listenVars>>

\* The service returns or is dropped, and the channel is closed.
ReloaderEnds ==
  /\ reloader # "ended"
  /\ reloader' = "ended" /\ left' = {} /\ base' = Empty /\ last_good' = Empty
  /\ UNCHANGED <<fileVars, pub, fresh, kind, listenVars>>

-----------------------------------------------------------------------------
(***************************************************************************)
(* The listeners.                                                          *)
(***************************************************************************)
Selecting(l) == lst[l] \in {"empty", "loaded", "missed"}

\* changed() completes, with an error once the channel is closed; the listener
\* takes what the channel holds now, and gives up when it holds nothing.
Changed(l) ==
  /\ Selecting(l) /\ (fresh[l] \/ reloader = "ended")
  /\ fresh' = [fresh EXCEPT ![l] = FALSE]
  /\ IF pub = None
     THEN lst' = [lst EXCEPT ![l] = "ended"] /\ UNCHANGED got
     ELSE lst' = [lst EXCEPT ![l] = "build"] /\ got' = [got EXCEPT ![l] = pub]
  /\ UNCHANGED <<fileVars, reloadVars, kind, cfg, shared, ticketer, transport>>

\* build_individual_server_crypto_map leaves out a name whose material makes no
\* configuration, build_aggregated_server_crypto also one with a client CA.
Served(l, n) == got[l][n] # Junk /\ (l = "quic" => n \notin Mutual)

\* Mutant: the publication is marked as seen after the build.
SwapMarksSeen(l, t) ==
  /\ lst' = [lst EXCEPT ![l] = "loaded"]
  /\ cfg' = [cfg EXCEPT ![l] = [n \in Names |->
               IF Served(l, n) THEN got[l][n] ELSE None]]
  /\ ticketer' = [ticketer EXCEPT ![l] = t]
  /\ got' = [got EXCEPT ![l] = Empty]
  /\ fresh' = [fresh EXCEPT ![l] = FALSE]
  /\ UNCHANGED <<fileVars, reloadVars, kind, transport>>

\* The listener swaps in the configuration.  quinn takes a server configuration
\* made of the crypto alone, s2n-quic is started again with its limits.
Swap(l, t) ==
  /\ lst' = [lst EXCEPT ![l] = "loaded"]
  /\ cfg' = [cfg EXCEPT ![l] = [n \in Names |->
               IF Served(l, n) THEN got[l][n] ELSE None]]
  /\ ticketer' = [ticketer EXCEPT ![l] =
                    IF l = "quic" /\ kind = "s2n" THEN None ELSE t]
  /\ transport' = IF l = "quic" /\ kind = "quinn" THEN "default" ELSE transport
  /\ got' = [got EXCEPT ![l] = Empty]
  /\ UNCHANGED <<fileVars, reloadVars, fresh, kind>>

\* shared_ticketer finds one.
TicketerHit(l) ==
  /\ lst[l] = "build" /\ shared # None
  /\ Swap(l, shared) /\ UNCHANGED shared

\* It finds none and makes one.
TicketerNew(l) ==
  /\ lst[l] = "build" /\ shared = None
  /\ lst' = [lst EXCEPT ![l] = "init"]
  /\ UNCHANGED <<fileVars, reloadVars, fresh, kind, got, cfg, shared, ticketer,
                 transport>>

\* Mutant: the ticketer it made is used, and stored.
TicketerInitOwn(l) ==
  /\ lst[l] = "init"
  /\ shared' = l /\ Swap(l, l)

\* get_or_init: the first to get here wins, the other takes the winner's.
TicketerInit(l) ==
  /\ lst[l] = "init"
  /\ shared' = IF shared = None THEN l ELSE shared
  /\ Swap(l, shared')

\* No ticketer can be made.  The TLS listener waits for the next publication with
\* the map it has, the QUIC listener returns.
TicketerFails(l) ==
  /\ lst[l] = "build" /\ shared = None
  /\ lst' = [lst EXCEPT ![l] = IF l = "quic" THEN "ended" ELSE "missed"]
  /\ fresh' = [fresh EXCEPT ![l] = @ /\ l # "quic"]
  /\ got' = [got EXCEPT ![l] = Empty]
  /\ UNCHANGED <<fileVars, reloadVars, kind, cfg, shared, ticketer, transport>>

\* The configuration is built, around a ticketer, and the QUIC stack refuses it.
QuicConfigFails ==
  /\ lst["quic"] \in {"build", "init"} /\ (lst["quic"] = "build" => shared # None)
  /\ shared' = IF shared = None THEN "quic" ELSE shared
  /\ lst' = [lst EXCEPT !["quic"] = "ended"]
  /\ fresh' = [fresh EXCEPT !["quic"] = FALSE]
  /\ got' = [got EXCEPT !["quic"] = Empty]
  /\ UNCHANGED <<fileVars, reloadVars, kind, cfg, ticketer, transport>>

\* quinn accepts a connection, unless it has no certificates yet, and waits for
\* the ClientHello before it looks at anything else.  With s2n-quic the accept of
\* a connection, always one whose handshake is over, changes nothing here.
QuicAccept ==
  /\ kind = "quinn" /\ lst["quic"] = "loaded"
  /\ lst' = [lst EXCEPT !["quic"] = "hello"]
  /\ UNCHANGED <<fileVars, reloadVars, fresh, kind, got, cfg, shared, ticketer,
                 transport>>

\* The ClientHello is there, or the connection is lost.
QuicHello ==
  /\ lst["quic"] = "hello"
  /\ lst' = [lst EXCEPT !["quic"] = "loaded"]
  /\ UNCHANGED <<fileVars, reloadVars, fresh, kind, got, cfg, shared, ticketer,
                 transport>>

\* s2n-quic cannot be started, or its socket is lost.
QuicServerFails ==
  /\ lst["quic"] = "loaded" /\ kind = "s2n"
  /\ lst' = [lst EXCEPT !["quic"] = "ended"]
  /\ fresh' = [fresh EXCEPT !["quic"] = FALSE]
  /\ UNCHANGED <<fileVars, reloadVars, kind, got, cfg, shared, ticketer,
                 transport>>

ReloaderStep == Reload \/ (\E n \in Names : Read(n)) \/ Publish
Build(l) == TicketerHit(l) \/ TicketerNew(l) \/ TicketerInit(l)

Next ==
  \/ \E n \in Names : Write(n)
  \/ ReloaderStep \/ ReloaderEnds
  \/ \E l \in Listeners : Changed(l) \/ Build(l) \/ TicketerFails(l)
  \/ QuicConfigFails \/ QuicAccept \/ QuicHello \/ QuicServerFails

Spec == Init /\ [][Next]_vars

\* The service polls reload again after each delay; select! takes its ready
\* branches in random order, so a listener that keeps accepting looks at the
\* channel in the end; a build runs without an await; and a QUIC connection that
\* sends no ClientHello is lost when it has been idle for too long.
Fairness ==
  /\ WF_vars(ReloaderStep)
  /\ \A l \in Listeners : SF_vars(Changed(l)) /\ WF_vars(Build(l))
  /\ WF_vars(QuicHello)

FairSpec == Spec /\ Fairness

-----------------------------------------------------------------------------
(***************************************************************************)
(* Properties.                                                             *)
(***************************************************************************)
\* The types; a base is published and remembered only with what was read.
TypeOK ==
  /\ writes \in 0..MaxWrites /\ disk \in [Names -> Content] /\ left \subseteq Names
  /\ reloader \in {"sleep", "read", "ended"} /\ (reloader = "sleep" => left = {})
  /\ base \in [Names -> Content] /\ last_good \in [Names -> Content]
  /\ pub \in {None} \cup [Names -> Content]
  /\ fresh \in [Listeners -> BOOLEAN] /\ kind \in {"quinn", "s2n"}
  /\ lst \in [Listeners ->
              {"empty", "loaded", "missed", "build", "init", "hello", "ended"}]
  /\ got \in [Listeners -> [Names -> Content]]
  /\ cfg \in [Listeners -> [Names -> Issues \cup {None}]]
  /\ shared \in Listeners \cup {None}
  /\ ticketer \in [Listeners -> Listeners \cup {None}]
  /\ transport \in {"configured", "default"}

\* "A transient read failure during reload keeps serving the previously loaded
\* certificate": a listener stops serving a name it served only because files
\* that could be read made no configuration, whatever happened to the files of
\* this or another name in between.
DomainStays ==
  [][\A l \in Listeners, n \in Names :
       cfg[l][n] # None /\ cfg'[l][n] = None => got[l][n] = Junk]_vars

\* "A single instance is required": however the first builds of the listeners
\* race, configurations that issue session tickets do so with one ticketer.
OneTicketer ==
  \A l \in Listeners : ticketer[l] \in {None, shared}

\* When the files of a name hold an issue for good (they change finitely often),
\* every listener that serves the name serves that issue from some time on, unless
\* the reloader or the listener ended or the listener's last build failed.
Converges ==
  \A l \in Listeners, n \in Names :
    (l = "quic" => n \notin Mutual) =>
      (<>[](/\ disk[n] \in Issues /\ reloader # "ended"
            /\ lst[l] \notin {"ended", "missed"})
         => <>[](cfg[l][n] = disk[n]))

\* The limits on streams, connections and idle time the configuration gives for
\* HTTP/3 are those every connection is accepted with.
LimitsApply == [][QuicAccept => transport = "configured"]_vars
=============================================================================
