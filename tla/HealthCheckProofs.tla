------------------------- MODULE HealthCheckProofs -------------------------
(***************************************************************************)
(* Proofs about module HealthCheck, for every number of upstreams, every   *)
(* pair of thresholds and every counter width.                             *)
(***************************************************************************)
EXTENDS HealthCheck, TLAPS

\* FlagFollowsProbes is not inductive: it must be known that the counter in
\* charge of the next transition has lost nothing of the current run.  In
\* the other state the counter may have been reset and may lag behind.
RunInv ==
    \A i \in Upstreams :
        /\ (is_healthy[i] <=> up[i])
        /\ up[i] => fail[i] = fails[i] /\ fails[i] < UnhealthyThreshold
        /\ ~up[i] => ok[i] = oks[i] /\ oks[i] < HealthyThreshold

IInv == TypeOK /\ RunInv

\* The counters stay within their width.
LEMMA SaturatingType ==
    ASSUME NEW k \in 0..MaxU32
    PROVE  /\ SaturatingAdd1(k) \in 0..MaxU32
           /\ k < MaxU32 => SaturatingAdd1(k) = k + 1
  BY ThresholdAssumption DEF SaturatingAdd1

LEMMA InitInv == Init => IInv
  <1> SUFFICES ASSUME Init PROVE IInv
    OBVIOUS
  <1>1. TypeOK
    <2>1. 0 \in Upstreams /\ 0 \in 0..MaxU32
      BY ThresholdAssumption DEF Upstreams
    <2>2. /\ ok = [i \in Upstreams |-> 0] /\ fail = [i \in Upstreams |-> 0]
          /\ oks = [i \in Upstreams |-> 0] /\ fails = [i \in Upstreams |-> 0]
      BY DEF Init
    <2>3. up \in [Upstreams -> BOOLEAN] /\ is_healthy \in [Upstreams -> BOOLEAN]
      BY DEF Init
    <2>4. /\ ok \in [Upstreams -> 0..MaxU32] /\ fail \in [Upstreams -> 0..MaxU32]
          /\ oks \in [Upstreams -> 0..MaxU32] /\ fails \in [Upstreams -> 0..MaxU32]
      BY <2>1, <2>2
    <2>5. /\ got \in [Upstreams -> {"none", "ok", "fail"}]
          /\ chk \in {"select", "probe", "record", "returned"} /\ chk # "record"
          /\ alive \in [Upstreams -> BOOLEAN] /\ cancelled \in BOOLEAN
      BY DEF Init
    <2>6. at \in Upstreams
      BY <2>1 DEF Init
    <2> QED BY <2>3, <2>4, <2>5, <2>6 DEF TypeOK
  <1>2. ASSUME NEW i \in Upstreams
        PROVE  /\ up[i] /\ is_healthy[i]
               /\ fail[i] = 0 /\ fails[i] = 0
    BY DEF Init
  <1>3. RunInv
    BY <1>2, ThresholdAssumption DEF RunInv
  <1> QED BY <1>1, <1>3 DEF IInv

\* Steps that record no result keep the invariant.
LEMMA OtherSteps ==
    ASSUME IInv,
           Return \/ Tick \/ (\E i \in Upstreams : ProbeEnds(i)) \/ JoinAll \/ Cancel
           \/ (\E i \in Upstreams : Toggle(i)) \/ UNCHANGED vars
    PROVE  IInv'
  <1> USE ThresholdAssumption
  <1>1. UNCHANGED counters
    BY DEF Return, Tick, ProbeEnds, JoinAll, Cancel, Toggle, vars, counters
  <1>2. RunInv'
    BY <1>1 DEF IInv, RunInv, counters
  <1>3. TypeOK'
    <2>1. CASE Return
      BY <2>1 DEF Return, IInv, TypeOK, counters
    <2>2. CASE Tick
      BY <2>2 DEF Tick, IInv, TypeOK, counters
    <2>3. ASSUME NEW i \in Upstreams, ProbeEnds(i) PROVE TypeOK'
      BY <2>3 DEF ProbeEnds, IInv, TypeOK, counters
    <2>4. CASE JoinAll
      BY <2>4 DEF JoinAll, IInv, TypeOK, counters, Upstreams
    <2>5. CASE Cancel
      BY <2>5 DEF Cancel, IInv, TypeOK, counters
    <2>6. ASSUME NEW i \in Upstreams, Toggle(i) PROVE TypeOK'
      BY <2>6 DEF Toggle, IInv, TypeOK, counters
    <2>7. CASE UNCHANGED vars
      BY <2>7 DEF IInv, TypeOK, vars
    <2> QED BY <2>1, <2>2, <2>3, <2>4, <2>5, <2>6, <2>7
  <1> QED BY <1>2, <1>3 DEF IInv

\* What recording a result does to the upstream it belongs to, and that the
\* flag turns exactly on the result that completes a run.
LEMMA RecordStep ==
    ASSUME IInv, Record
    PROVE  /\ IInv'
           /\ \A i \in Upstreams :
                 /\ up[i] /\ ~up'[i] => fails'[i] = UnhealthyThreshold
                 /\ ~up[i] /\ up'[i] => oks'[i] = HealthyThreshold
  <1> USE ThresholdAssumption
  <1>1. /\ at \in Upstreams
        /\ ok[at] \in 0..MaxU32 /\ fail[at] \in 0..MaxU32
        /\ oks[at] \in 0..MaxU32 /\ fails[at] \in 0..MaxU32
        /\ up[at] \in BOOLEAN /\ (is_healthy[at] <=> up[at])
    BY DEF IInv, TypeOK, RunInv
  <1>2. /\ at' \in Upstreams
        /\ chk' \in {"select", "record"}
        /\ chk' = "record" => chk = "record"
        /\ alive' = alive /\ got' = got /\ cancelled' = cancelled
    BY <1>1 DEF Record, Upstreams
  <1>3. CASE got[at] = "ok"
    <2>1. /\ RecordOk(at)
          /\ oks' = [oks EXCEPT ![at] = SaturatingAdd1(oks[at])]
          /\ fails' = [fails EXCEPT ![at] = 0]
      BY <1>3 DEF Record
    <2>2. TypeOK'
      BY <1>1, <1>2, <2>1, SaturatingType DEF IInv, TypeOK, RecordOk
    <2>3. ASSUME NEW i \in Upstreams, i # at
          PROVE  /\ up'[i] = up[i] /\ is_healthy'[i] = is_healthy[i]
                 /\ ok'[i] = ok[i] /\ fail'[i] = fail[i]
                 /\ oks'[i] = oks[i] /\ fails'[i] = fails[i]
      BY <2>1, <2>3 DEF RecordOk, IInv, TypeOK
    <2>4. /\ (is_healthy'[at] <=> up'[at])
          /\ up'[at] => fail'[at] = fails'[at] /\ fails'[at] < UnhealthyThreshold
          /\ ~up'[at] => ok'[at] = oks'[at] /\ oks'[at] < HealthyThreshold
          /\ ~(up[at] /\ ~up'[at])
          /\ ~up[at] /\ up'[at] => oks'[at] = HealthyThreshold
      <3>1. /\ fail'[at] = 0 /\ fails'[at] = 0
            /\ oks'[at] = SaturatingAdd1(oks[at])
        BY <1>1, <2>1 DEF RecordOk, IInv, TypeOK
      <3>2. CASE up[at]
        BY <1>1, <2>1, <3>1, <3>2 DEF RecordOk, IInv, TypeOK
      <3>3. CASE ~up[at]
        <4>1. ok[at] = oks[at] /\ oks[at] < HealthyThreshold
          BY <1>1, <3>3 DEF IInv, RunInv
        <4>2. SaturatingAdd1(ok[at]) = oks[at] + 1 /\ SaturatingAdd1(oks[at]) = oks[at] + 1
          BY <1>1, <4>1, SaturatingType
        <4>3. CASE oks[at] + 1 >= HealthyThreshold
          <5>1. up'[at] /\ is_healthy'[at]
            BY <1>1, <2>1, <3>3, <4>2, <4>3 DEF RecordOk, IInv, TypeOK
          <5> QED BY <1>1, <3>1, <3>3, <4>1, <4>2, <4>3, <5>1
        <4>4. CASE ~(oks[at] + 1 >= HealthyThreshold)
          <5>1. ~up'[at] /\ ~is_healthy'[at] /\ ok'[at] = oks[at] + 1
            BY <1>1, <2>1, <3>3, <4>2, <4>4 DEF RecordOk, IInv, TypeOK
          <5> QED BY <1>1, <3>1, <3>3, <4>1, <4>2, <4>4, <5>1
        <4> QED BY <4>3, <4>4
      <3> QED BY <3>2, <3>3
    <2> QED BY <1>1, <2>2, <2>3, <2>4 DEF IInv, RunInv
  <1>4. CASE got[at] = "fail"
    <2>1. /\ RecordFail(at)
          /\ fails' = [fails EXCEPT ![at] = SaturatingAdd1(fails[at])]
          /\ oks' = [oks EXCEPT ![at] = 0]
      BY <1>4 DEF Record
    <2>2. TypeOK'
      BY <1>1, <1>2, <2>1, SaturatingType DEF IInv, TypeOK, RecordFail
    <2>3. ASSUME NEW i \in Upstreams, i # at
          PROVE  /\ up'[i] = up[i] /\ is_healthy'[i] = is_healthy[i]
                 /\ ok'[i] = ok[i] /\ fail'[i] = fail[i]
                 /\ oks'[i] = oks[i] /\ fails'[i] = fails[i]
      BY <2>1, <2>3 DEF RecordFail, IInv, TypeOK
    <2>4. /\ (is_healthy'[at] <=> up'[at])
          /\ up'[at] => fail'[at] = fails'[at] /\ fails'[at] < UnhealthyThreshold
          /\ ~up'[at] => ok'[at] = oks'[at] /\ oks'[at] < HealthyThreshold
          /\ ~(~up[at] /\ up'[at])
          /\ up[at] /\ ~up'[at] => fails'[at] = UnhealthyThreshold
      <3>1. /\ ok'[at] = 0 /\ oks'[at] = 0
            /\ fails'[at] = SaturatingAdd1(fails[at])
        BY <1>1, <2>1 DEF RecordFail, IInv, TypeOK
      <3>2. CASE ~up[at]
        BY <1>1, <2>1, <3>1, <3>2 DEF RecordFail, IInv, TypeOK
      <3>3. CASE up[at]
        <4>1. fail[at] = fails[at] /\ fails[at] < UnhealthyThreshold
          BY <1>1, <3>3 DEF IInv, RunInv
        <4>2. SaturatingAdd1(fail[at]) = fails[at] + 1 /\ SaturatingAdd1(fails[at]) = fails[at] + 1
          BY <1>1, <4>1, SaturatingType
        <4>3. CASE fails[at] + 1 >= UnhealthyThreshold
          <5>1. ~up'[at] /\ ~is_healthy'[at]
            BY <1>1, <2>1, <3>3, <4>2, <4>3 DEF RecordFail, IInv, TypeOK
          <5> QED BY <1>1, <3>1, <3>3, <4>1, <4>2, <4>3, <5>1
        <4>4. CASE ~(fails[at] + 1 >= UnhealthyThreshold)
          <5>1. up'[at] /\ is_healthy'[at] /\ fail'[at] = fails[at] + 1
            BY <1>1, <2>1, <3>3, <4>2, <4>4 DEF RecordFail, IInv, TypeOK
          <5> QED BY <1>1, <3>1, <3>3, <4>1, <4>2, <4>4, <5>1
        <4> QED BY <4>3, <4>4
      <3> QED BY <3>2, <3>3
    <2> QED BY <1>1, <2>2, <2>3, <2>4 DEF IInv, RunInv
  <1> QED BY <1>3, <1>4 DEF Record

LEMMA NextInv == IInv /\ [Next]_vars => IInv'
  <1> SUFFICES ASSUME IInv, [Next]_vars PROVE IInv'
    OBVIOUS
  <1>1. CASE Record
    BY <1>1, RecordStep
  <1>2. CASE ~Record
    BY <1>2, OtherSteps DEF Next, CheckerStep, Stopped
  <1> QED BY <1>1, <1>2

\* The checker's state is always well typed: counters saturate, and a result
\* is recorded only when every probe of the round has answered.
THEOREM TypeCorrect == Spec => []TypeOK
  <1>1. IInv => TypeOK
    BY DEF IInv
  <1> QED BY <1>1, InitInv, NextInv, PTL DEF Spec

\* No transition is missed, for any thresholds: a full run of failures means
\* the flag is down, a full run of successes that it is up.
THEOREM FlagCorrect == Spec => []FlagFollowsProbes
  <1>1. IInv => FlagFollowsProbes
    BY ThresholdAssumption DEF IInv, TypeOK, RunInv, FlagFollowsProbes
  <1> QED BY <1>1, InitInv, NextInv, PTL DEF Spec

\* No transition comes early or late: the flag turns only on the result that
\* completes a run of exactly the threshold's length.
THEOREM TurnsCorrect == Spec => TurnsAtThreshold
  <1> DEFINE Turn == \A i \in Upstreams :
          /\ up[i] /\ ~up'[i] => fails'[i] = UnhealthyThreshold
          /\ ~up[i] /\ up'[i] => oks'[i] = HealthyThreshold
  <1>1. ASSUME IInv, [Next]_vars PROVE [Turn]_vars
    <2>1. CASE Record
      BY <1>1, <2>1, RecordStep
    <2>2. CASE ~Record
      <3>1. UNCHANGED up
        BY <1>1, <2>2 DEF Next, CheckerStep, Stopped, Return, Tick, ProbeEnds, JoinAll, Cancel,
                          Toggle, vars, counters
      <3> QED BY <3>1
    <2> QED BY <2>1, <2>2
  <1>2. IInv /\ [Next]_vars => [Turn]_vars
    BY <1>1
  <1> QED BY <1>2, InitInv, NextInv, PTL DEF Spec, TurnsAtThreshold
=============================================================================
