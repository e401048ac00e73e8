---------------------------- MODULE HealthCheck ----------------------------
(***************************************************************************)
(* The active health checker of one upstream group                         *)
(* (rpxy-lib/src/backend/health_check): every tick probes all upstreams    *)
(* concurrently, waits for the last answer, then feeds each result to that *)
(* upstream's ConsecutiveCounter, which publishes a change of state in the *)
(* flag the load balancer reads.                                           *)
(***************************************************************************)
EXTENDS Naturals

CONSTANTS Len,                 \* number of upstreams in the group
          UnhealthyThreshold,  \* failures in a row that take an upstream out
          HealthyThreshold,    \* successes in a row that bring it back
          MaxU32               \* the largest value of a counter (u32::MAX)

\* build_health_check_config refuses a threshold of zero.
ASSUME ThresholdAssumption ==
    /\ Len \in Nat \ {0}
    /\ MaxU32 \in Nat
    /\ UnhealthyThreshold \in 1..MaxU32
    /\ HealthyThreshold \in 1..MaxU32

Upstreams == 0..(Len - 1)

VARIABLES
    alive,       \* environment: does a probe of the upstream succeed now?
    chk,         \* the checker: "select", "probe", "record" or "returned"
    got,         \* answers of this round: "none", "ok" or "fail"
    at,          \* next result to be recorded
    ok, fail,    \* consecutive_ok, consecutive_fail of each counter
    is_healthy,  \* the state the counter tracks
    up,          \* UpstreamHealth, the flag the load balancer reads
    cancelled,   \* the cancellation token
    oks, fails   \* history: length of the current run of equal results

vars == <<alive, chk, got, at, ok, fail, is_healthy, up, cancelled, oks, fails>>
counters == <<ok, fail, is_healthy, up, oks, fails>>

Init ==
    /\ alive \in [Upstreams -> BOOLEAN]
    /\ chk = "select"
    /\ got = [i \in Upstreams |-> "none"]
    /\ at = 0
    /\ ok = [i \in Upstreams |-> 0] /\ fail = ok
    /\ oks = ok /\ fails = ok
    /\ is_healthy = [i \in Upstreams |-> TRUE] /\ up = is_healthy
    /\ cancelled = FALSE

-----------------------------------------------------------------------------
SaturatingAdd1(n) == IF n = MaxU32 THEN n ELSE n + 1

\* The upstream goes down or comes back.
Toggle(i) ==
    /\ alive' = [alive EXCEPT ![i] = ~@]
    /\ UNCHANGED <<chk, got, at, cancelled, counters>>

\* The service of this generation is cancelled.
Cancel ==
    /\ ~cancelled /\ cancelled' = TRUE
    /\ UNCHANGED <<alive, chk, got, at, counters>>

\* The select sees the token: the task returns.  Probes under way are not
\* interrupted, the select is only reached between two rounds.
Return ==
    /\ chk = "select" /\ cancelled
    /\ chk' = "returned"
    /\ UNCHANGED <<alive, got, at, cancelled, counters>>

Tick ==
    /\ chk = "select"
    /\ chk' = "probe"
    /\ got' = [i \in Upstreams |-> "none"]
    /\ UNCHANGED <<alive, at, cancelled, counters>>

\* Mutant: a probe has no timeout.
ProbeEndsNoTimeout(i) ==
    /\ chk = "probe" /\ got[i] = "none" /\ alive[i]
    /\ got' = [got EXCEPT ![i] = "ok"]
    /\ UNCHANGED <<alive, chk, at, cancelled, counters>>

\* A probe ends: answered in time, or failed, refused or timed out.
ProbeEnds(i) ==
    /\ chk = "probe" /\ got[i] = "none"
    /\ got' = [got EXCEPT ![i] = IF alive[i] THEN "ok" ELSE "fail"]
    /\ UNCHANGED <<alive, chk, at, cancelled, counters>>

\* join_all has the last answer.
JoinAll ==
    /\ chk = "probe" /\ \A i \in Upstreams : got[i] # "none"
    /\ chk' = "record" /\ at' = 0
    /\ UNCHANGED <<alive, got, cancelled, counters>>

RecordOk(i) ==
    LET n == SaturatingAdd1(ok[i])
        rise == ~is_healthy[i] /\ n >= HealthyThreshold
    IN  /\ ok' = [ok EXCEPT ![i] = IF rise THEN 0 ELSE n]
        /\ fail' = [fail EXCEPT ![i] = 0]
        /\ is_healthy' = [is_healthy EXCEPT ![i] = rise \/ @]
        /\ up' = [up EXCEPT ![i] = rise \/ @]

\* Mutant: a failure does not break a run of successes.
RecordFailKeepsOk(i) ==
    LET n == SaturatingAdd1(fail[i])
        fall == is_healthy[i] /\ n >= UnhealthyThreshold
    IN  /\ fail' = [fail EXCEPT ![i] = IF fall THEN 0 ELSE n]
        /\ UNCHANGED ok
        /\ is_healthy' = [is_healthy EXCEPT ![i] = ~fall /\ @]
        /\ up' = [up EXCEPT ![i] = ~fall /\ @]

\* Mutant: off by one.
RecordFailLate(i) ==
    LET n == SaturatingAdd1(fail[i])
        fall == is_healthy[i] /\ n > UnhealthyThreshold
    IN  /\ fail' = [fail EXCEPT ![i] = IF fall THEN 0 ELSE n]
        /\ ok' = [ok EXCEPT ![i] = 0]
        /\ is_healthy' = [is_healthy EXCEPT ![i] = ~fall /\ @]
        /\ up' = [up EXCEPT ![i] = ~fall /\ @]

\* Mutant: the transition is not published.
RecordFailLocal(i) ==
    LET n == SaturatingAdd1(fail[i])
        fall == is_healthy[i] /\ n >= UnhealthyThreshold
    IN  /\ fail' = [fail EXCEPT ![i] = IF fall THEN 0 ELSE n]
        /\ ok' = [ok EXCEPT ![i] = 0]
        /\ is_healthy' = [is_healthy EXCEPT ![i] = ~fall /\ @]
        /\ UNCHANGED up
RecordFail(i) ==
    LET n == SaturatingAdd1(fail[i])
        fall == is_healthy[i] /\ n >= UnhealthyThreshold
    IN  /\ fail' = [fail EXCEPT ![i] = IF fall THEN 0 ELSE n]
        /\ ok' = [ok EXCEPT ![i] = 0]
        /\ is_healthy' = [is_healthy EXCEPT ![i] = ~fall /\ @]
        /\ up' = [up EXCEPT ![i] = ~fall /\ @]

\* One turn of the for_each over the results; after the last one the loop
\* comes back to the select.
Record ==
    /\ chk = "record"
    /\ \/ /\ got[at] = "ok" /\ RecordOk(at)
          /\ oks' = [oks EXCEPT ![at] = SaturatingAdd1(@)]
          /\ fails' = [fails EXCEPT ![at] = 0]
       \/ /\ got[at] = "fail" /\ RecordFail(at)
          /\ fails' = [fails EXCEPT ![at] = SaturatingAdd1(@)]
          /\ oks' = [oks EXCEPT ![at] = 0]
    /\ IF at + 1 < Len THEN at' = at + 1 /\ UNCHANGED chk
                       ELSE at' = 0 /\ chk' = "select"
    /\ UNCHANGED <<alive, got, cancelled>>

Stopped == chk = "returned" /\ UNCHANGED vars

CheckerStep == Return \/ Tick \/ (\E i \in Upstreams : ProbeEnds(i)) \/ JoinAll \/ Record

Next == CheckerStep \/ Cancel \/ (\E i \in Upstreams : Toggle(i)) \/ Stopped

Spec == Init /\ [][Next]_vars

\* The runtime polls the checker when its timer fires and when a probe ends;
\* every probe ends within its timeout.  select! polls its branches in a
\* random order, so a cancelled token cannot lose against the ticker for
\* ever.
FairSpec == Spec /\ WF_vars(CheckerStep) /\ SF_vars(Return)

-----------------------------------------------------------------------------
TypeOK ==
    /\ alive \in [Upstreams -> BOOLEAN]
    /\ chk \in {"select", "probe", "record", "returned"}
    /\ got \in [Upstreams -> {"none", "ok", "fail"}]
    /\ at \in Upstreams
    /\ ok \in [Upstreams -> 0..MaxU32]
    /\ fail \in [Upstreams -> 0..MaxU32]
    /\ oks \in [Upstreams -> 0..MaxU32]
    /\ fails \in [Upstreams -> 0..MaxU32]
    /\ is_healthy \in [Upstreams -> BOOLEAN]
    /\ up \in [Upstreams -> BOOLEAN]
    /\ cancelled \in BOOLEAN
    /\ chk = "record" => \A i \in Upstreams : got[i] # "none"

\* No transition is missed: after UnhealthyThreshold failures in a row the
\* flag is down, after HealthyThreshold successes in a row it is up, whatever
\* came before, although the counter forgets its runs at every transition
\* (ConsecutiveCounter::record).
FlagFollowsProbes ==
    \A i \in Upstreams :
        /\ fails[i] >= UnhealthyThreshold => ~up[i]
        /\ oks[i] >= HealthyThreshold => up[i]

\* No transition comes early or late: the flag the load balancer reads turns
\* exactly on the result that completes the run, so a flapping upstream that
\* never fails UnhealthyThreshold times in a row stays in the rotation.
TurnsAtThreshold ==
    [][\A i \in Upstreams :
          /\ up[i] /\ ~up'[i] => fails'[i] = UnhealthyThreshold
          /\ ~up[i] /\ up'[i] => oks'[i] = HealthyThreshold]_vars

\* As long as the checker runs, an upstream that stays down is eventually
\* out of the rotation for good, and one that stays reachable is eventually
\* back in it for good.
FlagConverges ==
    \A i \in Upstreams :
        /\ [](~cancelled) /\ <>[](~alive[i]) => <>[](~up[i])
        /\ [](~cancelled) /\ <>[](alive[i]) => <>[](up[i])

\* A cancelled checker returns, although a round of probes under way is
\* finished first.
CheckerReturns == cancelled ~> chk = "returned"
=============================================================================
