-------------------------- MODULE CertReloadProofs ----------------------------
(***************************************************************************)
(* Proofs about the certificate path, for any names and any contents.      *)
(***************************************************************************)
EXTENDS CertReload, TLAPS

LEMMA TypeInit == Init => TypeOK
BY NamesAssumption DEF Init, TypeOK, Content, Empty, Listeners

\* What a swap leaves in the listener's variables.
LEMMA SwapType ==
  ASSUME TypeOK, NEW l \in Listeners, NEW t \in Listeners, Swap(l, t),
         shared' \in Listeners \cup {None}
  PROVE  TypeOK'
<1> USE DEF TypeOK, Swap
<1>1. cfg' \in [Listeners -> [Names -> Issues \cup {None}]]
  BY DEF Content, Served
<1>2. got' \in [Listeners -> [Names -> Content]]
  BY DEF Content, Empty
<1>3. lst' \in [Listeners ->
         {"empty", "loaded", "missed", "build", "init", "hello", "ended"}]
  OBVIOUS
<1>4. /\ ticketer' \in [Listeners -> Listeners \cup {None}]
      /\ transport' \in {"configured", "default"}
  OBVIOUS
<1> QED
  BY <1>1, <1>2, <1>3, <1>4 DEF fileVars, reloadVars

LEMMA TypeStep == TypeOK /\ [Next]_vars => TypeOK'
<1> SUFFICES ASSUME TypeOK, [Next]_vars PROVE TypeOK'
  OBVIOUS
<1> USE NamesAssumption DEF TypeOK, fileVars, reloadVars, listenVars
<1>1. ASSUME NEW n \in Names, Write(n) PROVE TypeOK'
  BY <1>1 DEF Write
<1>2. CASE Reload
  BY <1>2 DEF Reload
<1>3. ASSUME NEW n \in Names, Read(n) PROVE TypeOK'
  BY <1>3 DEF Read
<1>4. CASE Publish
  BY <1>4 DEF Publish, Empty, Content
<1>5. CASE ReloaderEnds
  BY <1>5 DEF ReloaderEnds, Empty, Content
<1>6. ASSUME NEW l \in Listeners, Changed(l) PROVE TypeOK'
  <2>1. CASE pub = None
    BY <1>6, <2>1 DEF Changed
  <2>2. CASE pub # None
    <3>1. got' = [got EXCEPT ![l] = pub] /\ pub \in [Names -> Content]
      BY <1>6, <2>2 DEF Changed
    <3>2. got' \in [Listeners -> [Names -> Content]]
      BY <3>1
    <3>3. /\ fresh' \in [Listeners -> BOOLEAN]
          /\ lst' \in [Listeners ->
               {"empty", "loaded", "missed", "build", "init", "hello", "ended"}]
      BY <1>6, <2>2 DEF Changed
    <3> QED
      BY <1>6, <3>2, <3>3 DEF Changed
  <2> QED
    BY <2>1, <2>2
<1>7. ASSUME NEW l \in Listeners, TicketerHit(l) PROVE TypeOK'
  <2>1. shared \in Listeners /\ shared' = shared /\ Swap(l, shared)
    BY <1>7 DEF TicketerHit
  <2> QED
    BY <2>1, SwapType
<1>8. ASSUME NEW l \in Listeners, TicketerNew(l) PROVE TypeOK'
  BY <1>8 DEF TicketerNew
<1>9. ASSUME NEW l \in Listeners, TicketerInit(l) PROVE TypeOK'
  <2>1. shared' \in Listeners /\ Swap(l, shared')
    BY <1>9 DEF TicketerInit
  <2> QED
    BY <2>1, SwapType
<1>10. ASSUME NEW l \in Listeners, TicketerFails(l) PROVE TypeOK'
  BY <1>10 DEF TicketerFails, Empty, Content
<1>11. CASE QuicAccept
  BY <1>11 DEF QuicAccept, Listeners
<1>12. CASE QuicHello
  BY <1>12 DEF QuicHello, Listeners
<1>13. CASE QuicServerFails
  BY <1>13 DEF QuicServerFails, Listeners
<1>14. CASE QuicConfigFails
  BY <1>14 DEF QuicConfigFails, Listeners, Empty, Content
<1>15. CASE UNCHANGED vars
  BY <1>15 DEF vars
<1> QED
  BY <1>1, <1>2, <1>3, <1>4, <1>5, <1>6, <1>7, <1>8, <1>9, <1>10, <1>11, <1>12,
     <1>13, <1>14, <1>15 DEF Next, ReloaderStep, Build

\* Every variable keeps its type; in particular no listener serves material that
\* makes no configuration.
THEOREM TypeCorrect == Spec => []TypeOK
BY TypeInit, TypeStep, PTL DEF Spec

-----------------------------------------------------------------------------
(***************************************************************************)
(* The ticketer and the names with a client CA.                            *)
(***************************************************************************)
\* HTTP/3 knows no client authentication: what DomainStays needs for the one
\* condition under which Served drops a usable name.
NoMutualOverQuic == \A n \in Mutual : cfg["quic"][n] = None

ServeInv == OneTicketer /\ NoMutualOverQuic

LEMMA ServeStep == TypeOK /\ ServeInv /\ [Next]_vars => ServeInv'
<1> SUFFICES ASSUME TypeOK, ServeInv, [Next]_vars PROVE ServeInv'
  OBVIOUS
<1> USE DEF ServeInv, OneTicketer, NoMutualOverQuic
<1>1. CASE UNCHANGED <<cfg, ticketer, shared>>
  BY <1>1
<1>2. ASSUME NEW l \in Listeners, NEW t \in Listeners, Swap(l, t),
             shared' = t, shared \in {None, t}
      PROVE  ServeInv'
  <2>1. OneTicketer'
    BY <1>2 DEF Swap, TypeOK
  <2>2. NoMutualOverQuic'
    BY <1>2, NamesAssumption DEF Swap, Served, TypeOK, Listeners
  <2> QED
    BY <2>1, <2>2
<1>3. ASSUME NEW l \in Listeners, TicketerHit(l) PROVE ServeInv'
  BY <1>2, <1>3 DEF TicketerHit, TypeOK
<1>4. ASSUME NEW l \in Listeners, TicketerInit(l) PROVE ServeInv'
  BY <1>2, <1>4 DEF TicketerInit, TypeOK
<1>5. CASE QuicConfigFails
  BY <1>5 DEF QuicConfigFails, TypeOK
<1> QED
  BY <1>1, <1>3, <1>4, <1>5 DEF Next, Write, ReloaderStep, Reload, Read, Publish,
     ReloaderEnds, Changed, Build, TicketerNew, TicketerFails, QuicAccept, QuicHello,
     QuicServerFails, listenVars, vars

LEMMA ServeInit == Init => ServeInv
<1> SUFFICES ASSUME Init PROVE ServeInv
  OBVIOUS
<1>1. \A l \in Listeners : ticketer[l] = None /\ \A n \in Names : cfg[l][n] = None
  BY DEF Init, Empty
<1>2. Mutual \subseteq Names /\ "quic" \in Listeners
  BY NamesAssumption DEF Listeners
<1> QED
  BY <1>1, <1>2 DEF ServeInv, OneTicketer, NoMutualOverQuic

\* Configurations that issue session tickets do so with the one shared ticketer,
\* however the first builds race.
THEOREM TicketerCorrect == Spec => []OneTicketer
BY TypeInit, TypeStep, ServeInit, ServeStep, PTL DEF Spec, ServeInv

-----------------------------------------------------------------------------
(***************************************************************************)
(* A name once served is in every later base.  The last good content of a  *)
(* name never goes back to None, what a reload has read is the last good   *)
(* content, and a listener serves and builds only names that were          *)
(* published.                                                              *)
(***************************************************************************)
KeepInv ==
  /\ reloader = "read" => \A n \in Names \ left : base[n] = last_good[n]
  /\ pub # None /\ reloader # "ended" =>
       \A n \in Names : pub[n] # None => last_good[n] # None
  /\ \A l \in Listeners, n \in Names :
       /\ cfg[l][n] # None \/ got[l][n] # None => pub # None /\ pub[n] # None
       /\ lst[l] \in {"build", "init"} /\ cfg[l][n] # None => got[l][n] # None

LEMMA KeepInit == Init => KeepInv
<1> SUFFICES ASSUME Init PROVE KeepInv
  OBVIOUS
<1>1. \A l \in Listeners, n \in Names : cfg[l][n] = None /\ got[l][n] = None
  BY DEF Init, Empty
<1>2. reloader = "sleep" /\ pub = None
  BY DEF Init
<1> QED
  BY <1>1, <1>2 DEF KeepInv

\* A step that changes neither contents nor maps and starts no build.
LEMMA KeepFrame ==
  ASSUME KeepInv, UNCHANGED <<reloader, left, base, last_good, pub, cfg, got>>,
         \A l \in Listeners : lst'[l] \in {"build", "init"} => lst[l] \in {"build", "init"}
  PROVE  KeepInv'
BY DEF KeepInv

\* A swap serves only names it builds from.
LEMMA KeepSwap ==
  ASSUME TypeOK, KeepInv, NEW l \in Listeners, NEW t \in Listeners, Swap(l, t)
  PROVE  KeepInv'
<1>1. /\ \A k \in Listeners \ {l} : cfg'[k] = cfg[k] /\ got'[k] = got[k] /\ lst'[k] = lst[k]
      /\ lst'[l] = "loaded"
      /\ \A n \in Names : cfg'[l][n] # None => got[l][n] # None
      /\ \A n \in Names : got'[l][n] = None
  BY DEF TypeOK, Swap, Empty
<1>2. UNCHANGED <<reloader, left, base, last_good, pub>>
  BY DEF Swap, reloadVars
<1>3. /\ reloader' = "read" => \A n \in Names \ left' : base'[n] = last_good'[n]
      /\ pub' # None /\ reloader' # "ended" =>
           \A n \in Names : pub'[n] # None => last_good'[n] # None
  BY <1>2 DEF KeepInv
<1>4. ASSUME NEW k \in Listeners, NEW n \in Names
      PROVE  /\ cfg'[k][n] # None \/ got'[k][n] # None => pub' # None /\ pub'[n] # None
             /\ lst'[k] \in {"build", "init"} /\ cfg'[k][n] # None => got'[k][n] # None
  <2>1. /\ cfg[k][n] # None \/ got[k][n] # None => pub # None /\ pub[n] # None
        /\ lst[k] \in {"build", "init"} /\ cfg[k][n] # None => got[k][n] # None
    BY DEF KeepInv
  <2>2. CASE k = l
    BY <1>1, <1>2, <2>1, <2>2
  <2>3. CASE k # l
    BY <1>1, <1>2, <2>1, <2>3
  <2> QED
    BY <2>2, <2>3
<1> QED
  BY <1>3, <1>4 DEF KeepInv

\* No step forgets a name that was published.
LEMMA KeepStep == TypeOK /\ KeepInv /\ [Next]_vars => KeepInv'
<1> SUFFICES ASSUME TypeOK, KeepInv, [Next]_vars PROVE KeepInv'
  OBVIOUS
<1> USE DEF reloadVars, listenVars
<1>1. ASSUME NEW n \in Names, Write(n) PROVE KeepInv'
  <2>1. UNCHANGED <<reloader, left, base, last_good, pub, cfg, got, lst>>
    BY <1>1 DEF Write
  <2> QED
    BY <2>1, KeepFrame
<1> USE DEF TypeOK, KeepInv, fileVars
<1>2. CASE Reload
  BY <1>2 DEF Reload
<1>3. ASSUME NEW n \in Names, Read(n) PROVE KeepInv'
  BY <1>3 DEF Read
<1>4. CASE Publish
  <2>1. pub' = base \/ pub' = pub
    BY <1>4 DEF Publish
  <2>2. \A n \in Names : base[n] = last_good[n]
    BY <1>4 DEF Publish
  <2>3. base # None
    BY NamesAssumption DEF Content
  <2>4. \A n \in Names : pub # None /\ pub[n] # None => pub' # None /\ pub'[n] # None
    BY <1>4, <2>1, <2>2, <2>3 DEF Publish
  <2>5. /\ reloader = "read" /\ reloader' = "sleep"
        /\ UNCHANGED <<last_good, cfg, got, lst>>
    BY <1>4 DEF Publish
  <2>6. \A n \in Names : pub' # None /\ pub'[n] # None => last_good[n] # None
    BY <2>1, <2>2, <2>5
  <2> QED
    BY <2>4, <2>5, <2>6
<1>5. CASE ReloaderEnds
  BY <1>5 DEF ReloaderEnds
<1>6. ASSUME NEW l \in Listeners, Changed(l) PROVE KeepInv'
  <2>1. CASE pub = None
    <3>1. /\ lst' = [lst EXCEPT ![l] = "ended"]
          /\ UNCHANGED <<reloader, left, base, last_good, pub, cfg, got>>
      BY <1>6, <2>1 DEF Changed
    <3>2. \A k \in Listeners : lst'[k] \in {"build", "init"} => lst[k] \in {"build", "init"}
      BY <3>1
    <3> QED
      BY <3>1, <3>2, KeepFrame
  <2>2. CASE pub # None
    <3>1. /\ lst' = [lst EXCEPT ![l] = "build"] /\ got' = [got EXCEPT ![l] = pub]
          /\ UNCHANGED <<fileVars, reloadVars, cfg>>
      BY <1>6, <2>2 DEF Changed
    <3> QED
      BY <2>2, <3>1
  <2> QED
    BY <2>1, <2>2
<1>7. ASSUME NEW l \in Listeners, TicketerHit(l) PROVE KeepInv'
  BY <1>7, KeepSwap DEF TicketerHit
<1>8. ASSUME NEW l \in Listeners, TicketerNew(l) PROVE KeepInv'
  <2>1. /\ \A k \in Listeners : lst'[k] \in {"build", "init"} => lst[k] \in {"build", "init"}
        /\ UNCHANGED <<reloader, left, base, last_good, pub, cfg, got>>
    BY <1>8 DEF TicketerNew
  <2> QED
    BY <2>1, KeepFrame
<1>9. ASSUME NEW l \in Listeners, TicketerInit(l) PROVE KeepInv'
  <2>1. shared' \in Listeners /\ Swap(l, shared')
    BY <1>9 DEF TicketerInit
  <2> QED
    BY <2>1, KeepSwap
<1>10. ASSUME NEW l \in Listeners, TicketerFails(l) PROVE KeepInv'
  BY <1>10 DEF TicketerFails, Empty
<1>11. CASE QuicAccept \/ QuicHello \/ QuicServerFails
  <2>1. \A k \in Listeners : lst'[k] \in {"build", "init"} => lst[k] \in {"build", "init"}
    BY <1>11 DEF QuicAccept, QuicHello, QuicServerFails
  <2>2. UNCHANGED <<reloader, left, base, last_good, pub, cfg, got>>
    BY <1>11 DEF QuicAccept, QuicHello, QuicServerFails
  <2> QED
    BY <2>1, <2>2, KeepFrame
<1>12. CASE QuicConfigFails
  BY <1>12 DEF QuicConfigFails, Empty
<1>13. CASE UNCHANGED vars
  BY <1>13, KeepFrame DEF vars
<1> QED
  BY <1>1, <1>2, <1>3, <1>4, <1>5, <1>6, <1>7, <1>8, <1>9, <1>10, <1>11, <1>12,
     <1>13 DEF Next, ReloaderStep, Build

\* Only a swap changes what is served, and it drops a name only as unusable.
LEMMA DomainStep ==
  ASSUME TypeOK, KeepInv, [Next]_vars, NEW l \in Listeners, NEW n \in Names,
         cfg[l][n] # None, cfg'[l][n] = None, NoMutualOverQuic
  PROVE  got[l][n] = Junk
<1>1. PICK k \in Listeners, t \in Listeners :
        lst[k] \in {"build", "init"} /\ Swap(k, t)
  <2>1. CASE \E k \in Listeners : TicketerHit(k)
    BY <2>1 DEF TicketerHit, TypeOK
  <2>2. CASE \E k \in Listeners : TicketerInit(k)
    BY <2>2 DEF TicketerInit, TypeOK
  <2>3. cfg' # cfg
    OBVIOUS
  <2> QED
    BY <2>1, <2>2, <2>3 DEF Next, Write, ReloaderStep, Reload, Read, Publish,
       ReloaderEnds, Changed, Build, TicketerNew, TicketerFails, QuicConfigFails,
       QuicAccept, QuicHello, QuicServerFails, listenVars, vars
<1>2. k = l /\ cfg'[l][n] = IF Served(l, n) THEN got[l][n] ELSE None
  <2>1. cfg' = [cfg EXCEPT ![k] = [m \in Names |-> IF Served(k, m) THEN got[k][m] ELSE None]]
    BY <1>1 DEF Swap
  <2>2. k = l
    BY <2>1 DEF TypeOK
  <2> QED
    BY <2>1, <2>2 DEF TypeOK
<1>3. got[l][n] # None
  BY <1>1, <1>2 DEF KeepInv
<1> QED
  BY <1>2, <1>3 DEF Served, NoMutualOverQuic

\* A name stops being served only because files that could be read make no
\* configuration: a read failure, of its files or of others, is never enough.
THEOREM DomainCorrect == Spec => DomainStays
<1>1. TypeOK /\ ServeInv /\ KeepInv /\ [Next]_vars
        => [\A l \in Listeners, n \in Names :
              cfg[l][n] # None /\ cfg'[l][n] = None => got[l][n] = Junk]_vars
  BY DomainStep DEF ServeInv
<1> QED
  BY <1>1, TypeInit, TypeStep, ServeInit, ServeStep, KeepInit, KeepStep, PTL
  DEF Spec, DomainStays
=============================================================================
