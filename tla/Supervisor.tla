------------------------------ MODULE Supervisor ------------------------------
(***************************************************************************)
(* The life of the services of rpxy-bin and rpxy-lib: rpxy_service reloads *)
(* the configuration and starts one generation of tasks after the other;   *)
(* start_inner joins the proxy entrypoint, the certificate reloader and    *)
(* the ACME manager of a generation; entrypoint joins its listeners and    *)
(* health checkers.  They stop each other through a tree of cancellation   *)
(* tokens: entrypoint's token is a child of the generation's, and each     *)
(* TLS or QUIC listener runs in a task of its own below that.  A dropped   *)
(* `start` future leaves its tasks running: the tokens alone end them.     *)
(***************************************************************************)
EXTENDS Naturals

CONSTANTS
  Http, Tls,     \* cleartext listeners; TLS and QUIC listeners
  Checkers,      \* health checkers
  Deployments,   \* the sets of tasks and services to consider: listeners,
                 \* checkers, "cert" (some application has TLS, so there is a
                 \* certificate reloader), "acme" (ACME manages some of them)
  MaxVersion     \* bound on the versions of the configuration

ASSUME TasksAssumption ==
  Http \cap Tls = {} /\ Http \cap Checkers = {} /\ Tls \cap Checkers = {}
ASSUME DeploymentsAssumption ==
  Deployments \subseteq SUBSET (Http \cup Tls \cup Checkers \cup {"cert", "acme"})
ASSUME VersionAssumption == MaxVersion \in Nat \ {0}

VARIABLES
  parts,     \* the deployment: what the configuration makes the service run
  latest,    \* the configuration in the watch channel, numbered
  valid,     \* whether RpxyService::new accepts it
  rxSeen,    \* the version config_rx has been told of
  svc,       \* rpxy_service: "wait", "get", "build", "run" or "exited"
  code,      \* the exit code of the process
  cand,      \* the version RpxyService::new works on; 0 when it is invalid
  service,   \* the configuration `service` was built from
  cur,       \* the generation started last; 0 when there is none
  conf,      \* the configuration of each generation
  parent,    \* generations whose cancel_token is cancelled
  child,     \* generations whose entrypoint token is cancelled by its own tasks
  entry,     \* each generation's entrypoint task
  task,      \* its listeners and checkers, as entrypoint joins them
  inner,     \* the spawned task of a TLS or QUIC listener
  cert,      \* its certificate reloader task
  acme,      \* its ACME manager task
  failed     \* history: listeners that met an error and ended

vars == <<parts, latest, valid, rxSeen, svc, code, cand, service, cur, conf, parent, child,
          entry, task, inner, cert, acme, failed>>

Gens == 1 .. MaxVersion
Tasks == parts \cap (Http \cup Tls \cup Checkers)
HasCert == "cert" \in parts
HasAcme == "acme" \in parts
Ended == {"ok", "err"}

configVars == <<parts, latest, valid, rxSeen, cand, service, conf>>
genVars == <<parent, child, entry, task, inner, cert, acme, failed>>

Init ==
  /\ parts \in Deployments
  /\ latest = 1 /\ valid \in BOOLEAN /\ rxSeen = 0
  /\ svc = "wait" /\ code = 0 /\ cand = 0 /\ service = 0 /\ cur = 0
  /\ conf = [g \in Gens |-> 0]
  /\ parent = {} /\ child = {} /\ failed = {}
  /\ entry = [g \in Gens |-> "none"]
  /\ task = [g \in Gens |-> [t \in Tasks |-> "none"]]
  /\ inner = [g \in Gens |-> [t \in Tls \cap parts |-> "none"]]
  /\ cert = [g \in Gens |-> "none"]
  /\ acme = [g \in Gens |-> "none"]

Alive == svc # "exited"

(***************************************************************************)
(* rpxy_service                                                            *)
(***************************************************************************)
\* The configuration reloader publishes a new version.
Publish ==
  /\ Alive /\ latest < MaxVersion
  /\ latest' = latest + 1 /\ valid' \in BOOLEAN
  /\ UNCHANGED <<parts, rxSeen, svc, code, cand, service, cur, conf, genVars>>

\* config_rx.changed(), at the start or in the select; the future of `start`
\* is dropped and the tasks of the generation go on.
Changed ==
  /\ svc \in {"wait", "run"}
  /\ rxSeen # latest
  /\ rxSeen' = latest
  /\ svc' = "get"
  /\ UNCHANGED <<parts, latest, valid, code, cand, service, cur, conf, genVars>>

\* config_rx.get() reads what is in the channel by now, and RpxyService::new
\* begins to build it.
Get ==
  /\ svc = "get"
  /\ svc' = "build"
  /\ cand' = IF valid THEN latest ELSE 0
  /\ UNCHANGED <<parts, latest, valid, rxSeen, code, service, cur, conf, genVars>>

\* Mutant: the generation that is replaced is left to itself.
CancelNothing(g) == UNCHANGED parent

CancelGeneration(g) == parent' = parent \cup ({g} \ {0})

\* service.start on a fresh token: entrypoint, reloader and manager are spawned.
Start(v) ==
  /\ svc' = "run" /\ service' = v /\ cand' = 0 /\ cur' = cur + 1
  /\ conf' = [conf EXCEPT ![cur + 1] = v]
  /\ entry' = [entry EXCEPT ![cur + 1] = "build"]
  /\ cert' = [cert EXCEPT ![cur + 1] = IF HasCert THEN "run" ELSE "none"]
  /\ acme' = [acme EXCEPT ![cur + 1] = IF HasAcme THEN "run" ELSE "none"]

\* Mutant: the service that was built is not put in place.
BuildTargetKeepsOld == IF service = 0 THEN cand ELSE service

\* RpxyService::new succeeds, or the old service is kept.
BuildTarget == IF cand # 0 THEN cand ELSE service

\* Either way the old generation is cancelled and one is started anew.
Build ==
  /\ svc = "build"
  /\ BuildTarget # 0
  /\ CancelGeneration(cur)
  /\ Start(BuildTarget)
  /\ UNCHANGED <<parts, latest, valid, rxSeen, code, child, task, inner, failed>>

\* The first configuration is invalid.
BuildFails ==
  /\ svc = "build"
  /\ BuildTarget = 0
  /\ svc' = "exited" /\ code' = 1
  /\ UNCHANGED <<configVars, cur, genVars>>

\* Mutant: only the result of entrypoint is looked at.
StartResultOfEntry == IF entry[cur] = "err" THEN 1 ELSE 0

\* start_inner has joined its tasks; rpxy_service and the process end with it.
StartResult == IF "err" \in {entry[cur], cert[cur], acme[cur]} THEN 1 ELSE 0

StartReturns ==
  /\ svc = "run"
  /\ entry[cur] \in Ended
  /\ HasCert => cert[cur] \in Ended /\ (HasAcme => acme[cur] \in Ended)
  /\ svc' = "exited" /\ code' = StartResult
  /\ UNCHANGED <<configVars, cur, genVars>>

\* config_service.start_with_realtime returns.
ConfigServiceExits ==
  /\ Alive
  /\ svc' = "exited" /\ code' \in {0, 1}
  /\ UNCHANGED <<configVars, cur, genVars>>

(***************************************************************************)
(* start_inner: the tasks next to entrypoint                               *)
(***************************************************************************)
\* The reloader or the ACME manager ends on its own and cancels the generation.
CertEnds(g) ==
  /\ Alive /\ cert[g] = "run"
  /\ \E r \in Ended : cert' = [cert EXCEPT ![g] = r]
  /\ parent' = parent \cup {g}
  /\ UNCHANGED <<configVars, svc, code, cur, child, entry, task, inner, acme, failed>>

CertCancelled(g) ==
  /\ Alive /\ cert[g] = "run" /\ g \in parent
  /\ cert' = [cert EXCEPT ![g] = "ok"]
  /\ UNCHANGED <<configVars, svc, code, cur, parent, child, entry, task, inner, acme, failed>>

AcmeEnds(g) ==
  /\ Alive /\ acme[g] = "run"
  /\ \E r \in Ended : acme' = [acme EXCEPT ![g] = r]
  /\ parent' = parent \cup {g}
  /\ UNCHANGED <<configVars, svc, code, cur, child, entry, task, inner, cert, failed>>

AcmeCancelled(g) ==
  /\ Alive /\ acme[g] = "run" /\ g \in parent
  /\ acme' = [acme EXCEPT ![g] = "ok"]
  /\ UNCHANGED <<configVars, svc, code, cur, parent, child, entry, task, inner, cert, failed>>

(***************************************************************************)
(* entrypoint                                                              *)
(***************************************************************************)
Cancelled(g) == g \in parent \cup child

EntryBuilt(g) ==
  /\ Alive /\ entry[g] = "build"
  /\ entry' = [entry EXCEPT ![g] = "join"]
  /\ task' = [task EXCEPT ![g] = [t \in Tasks |-> "run"]]
  /\ inner' = [inner EXCEPT ![g] = [t \in Tls \cap parts |-> "run"]]
  /\ UNCHANGED <<configVars, svc, code, cur, parent, child, cert, acme, failed>>

\* Mutant: the generation is not cancelled with its entrypoint.
EntryBuildFailsKeepsToken(g) ==
  /\ Alive /\ entry[g] = "build"
  /\ entry' = [entry EXCEPT ![g] = "err"]
  /\ UNCHANGED <<configVars, svc, code, cur, parent, child, task, inner, cert, acme, failed>>

\* Backends, forwarder, health-check client: an error before any task is spawned.
EntryBuildFails(g) ==
  /\ Alive /\ entry[g] = "build"
  /\ entry' = [entry EXCEPT ![g] = "err"]
  /\ parent' = parent \cup {g}
  /\ UNCHANGED <<configVars, svc, code, cur, child, task, inner, cert, acme, failed>>

\* Every handle has been joined and none had an error.
EntryEnds(g) ==
  /\ Alive /\ entry[g] = "join"
  /\ \A t \in Tasks : task[g][t] = "ok"
  /\ entry' = [entry EXCEPT ![g] = "ok"]
  /\ UNCHANGED <<configVars, svc, code, cur, parent, child, task, inner, cert, acme, failed>>

\* The first error cancels the others ...
EntrySeesError(g) ==
  /\ Alive /\ entry[g] = "join"
  /\ \E t \in Tasks : task[g][t] = "err"
  /\ entry' = [entry EXCEPT ![g] = "drain"]
  /\ child' = child \cup {g}
  /\ UNCHANGED <<configVars, svc, code, cur, parent, task, inner, cert, acme, failed>>

\* Mutant: return on the first error.
EntryDrainedEarly(g) ==
  /\ Alive /\ entry[g] = "drain"
  /\ entry' = [entry EXCEPT ![g] = "err"]
  /\ parent' = parent \cup {g}
  /\ UNCHANGED <<configVars, svc, code, cur, child, task, inner, cert, acme, failed>>

\* ... and is returned once they have ended; start_inner's task then cancels
\* the generation.
EntryDrained(g) ==
  /\ Alive /\ entry[g] = "drain"
  /\ \A t \in Tasks : task[g][t] \in Ended
  /\ entry' = [entry EXCEPT ![g] = "err"]
  /\ parent' = parent \cup {g}
  /\ UNCHANGED <<configVars, svc, code, cur, child, task, inner, cert, acme, failed>>

EndTask(g, t, r) == task' = [task EXCEPT ![g] = [task[g] EXCEPT ![t] = r]]
EndInner(g, t) == inner' = [inner EXCEPT ![g] = [inner[g] EXCEPT ![t] = "ended"]]

\* The select of a proxy task, or of a health checker, on the token.
TaskCancelled(g, t) ==
  /\ Alive /\ task[g][t] = "run" /\ Cancelled(g)
  /\ EndTask(g, t, "ok")
  /\ UNCHANGED <<configVars, svc, code, cur, parent, child, entry, inner, cert, acme, failed>>

\* A cleartext listener cannot be bound ("err"), or its accept fails ("ok").
HttpExits(g, t) ==
  /\ Alive /\ t \in Http /\ task[g][t] = "run"
  /\ \E r \in Ended : EndTask(g, t, r)
  /\ failed' = failed \cup {<<g, t>>}
  /\ child' = child \cup {g}
  /\ UNCHANGED <<configVars, svc, code, cur, parent, entry, inner, cert, acme>>

\* The listener service of start_with_tls or start_with_quic returns, with an
\* error or without; its task drops the result.
InnerExits(g, t) ==
  /\ Alive /\ inner[g][t] = "run"
  /\ EndInner(g, t)
  /\ failed' \in {failed, failed \cup {<<g, t>>}}
  /\ UNCHANGED <<configVars, svc, code, cur, parent, child, entry, task, cert, acme>>

InnerCancelled(g, t) ==
  /\ Alive /\ inner[g][t] = "run" /\ Cancelled(g)
  /\ EndInner(g, t)
  /\ UNCHANGED <<configVars, svc, code, cur, parent, child, entry, task, cert, acme, failed>>

\* start_with_tls has joined its task and returns Ok.
TlsReturns(g, t) ==
  /\ Alive /\ t \in Tls /\ task[g][t] = "run" /\ inner[g][t] = "ended"
  /\ EndTask(g, t, "ok")
  /\ child' = child \cup {g}
  /\ UNCHANGED <<configVars, svc, code, cur, parent, entry, inner, cert, acme, failed>>

-----------------------------------------------------------------------------
Service == Changed \/ Get \/ Build \/ BuildFails \/ StartReturns

\* What the tasks of a generation do by themselves once they are due.
Settle(g) ==
  \/ CertCancelled(g) \/ AcmeCancelled(g)
  \/ EntryBuilt(g) \/ EntryEnds(g) \/ EntrySeesError(g) \/ EntryDrained(g)
  \/ \E t \in Tasks : TaskCancelled(g, t)
  \/ \E t \in Tls \cap parts : InnerCancelled(g, t) \/ TlsReturns(g, t)

\* What may happen to them.
Fault(g) ==
  \/ CertEnds(g) \/ AcmeEnds(g) \/ EntryBuildFails(g)
  \/ \E t \in Http \cap parts : HttpExits(g, t)
  \/ \E t \in Tls \cap parts : InnerExits(g, t)

\* The process is gone.
Stopped == svc = "exited" /\ UNCHANGED vars

Next ==
  \/ Publish \/ ConfigServiceExits \/ Service
  \/ \E g \in Gens : Settle(g) \/ Fault(g)
  \/ Stopped

Spec == Init /\ [][Next]_vars

\* The runtime polls a task whose token is cancelled or whose future is ready;
\* nothing obliges a configuration to change or a task to fail.
FairSpec == Spec /\ WF_vars(Service) /\ \A g \in Gens : WF_vars(Settle(g))

-----------------------------------------------------------------------------
(***************************************************************************)
(* Properties                                                              *)
(***************************************************************************)
\* entrypoint returns only when every listener and health checker it spawned has
\* ended, on the error path too ("drain remaining handles").
EntrypointDrains ==
  \A g \in Gens : entry[g] \in Ended => \A t \in Tasks : task[g][t] # "run"

\* The exit code of a service that stopped by itself tells an error of any task
\* that start_inner joins, whichever of them ended first.
ErrorsReachExitCode ==
  [][svc = "run" /\ StartReturns =>
       ((\E t \in Tasks : task[cur][t] = "err") \/ cert[cur] = "err" \/ acme[cur] = "err"
          => code' = 1)]_vars

GenerationEnded(g) ==
  /\ entry[g] \in Ended
  /\ \A t \in Tasks : task[g][t] # "run"
  /\ \A t \in Tls \cap parts : inner[g][t] # "run"
  /\ cert[g] # "run" /\ acme[g] # "run"

\* After a reload every task of the replaced generation ends, although the
\* future that joined them was dropped: no listener keeps its socket.
ReplacedGenerationEnds ==
  \A g \in Gens : (g < cur) ~> (GenerationEnded(g) \/ ~Alive)

\* A configuration that can be built is put to work, unless a newer one arrives
\* or the service ends: changes made while one is being built are not lost.
ConfigIsApplied ==
  \A v \in Gens :
    (latest = v /\ valid) ~> (latest # v \/ ~Alive \/ (svc = "run" /\ conf[cur] = v))

\* An error that a joined task returns ends the service, or a reload replaces it.
ErrorEndsService ==
  \A g \in Gens :
    (g = cur /\ ((\E t \in Tasks : task[g][t] = "err") \/ "err" \in {entry[g], cert[g], acme[g]}))
      ~> (~Alive \/ cur # g)

\* A listener that fails with an error ends the service, or a reload replaces
\* it ("fail fast on first error").
FailFast ==
  \A g \in Gens, t \in Http \cup Tls :
    (g = cur /\ <<g, t>> \in failed) ~> (~Alive \/ cur # g)
=============================================================================
