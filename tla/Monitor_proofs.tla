--------------------------- MODULE Monitor_proofs ---------------------------
(***************************************************************************)
(* What the Monitor and its providers promise.  Eligibility, for any       *)
(* flip_after of at least 2, any number of client attempts and of          *)
(* integrity checks in flight: it is type correct, a provider is in        *)
(* rotation only on a chain identity that passed, and is put out for its   *)
(* data only if it was wrong at both looks of a check.  Probing, for every *)
(* interval, backoff, timeout, number of slots and length of a sweep: the  *)
(* schedule keeps its types, and no provider goes unprobed longer than the *)
(* sweep it waits for or the delay it earned.                              *)
(***************************************************************************)
EXTENDS Eligibility, Probing, TLAPS

(* Eligibility. *)

(* Traffic only ever closes the gate. *)
TrafficOnlyCloses ==
    \A t \in Attempts : at[t] \in {"rest", "waiting", "failed", "close"}

(* Past the chain check the Monitor holds a verdict that stands until its
   next check. *)
ProbedIsVerified ==
    ChainChecked /\ at["monitor"] \in {"probe", "succeeded", "failed", "open", "close"}
        => verified

(* What a check has seen, by how far it is: a divergence that is confirmed or
   about to be recorded was of wrong data. *)
SeenByPhase ==
    \A c \in Checks :
        /\ check[c] \in {"rest", "look"} => saw[c] = 0
        /\ check[c] = "confirm" => saw[c] = 1
        /\ check[c] = "record" /\ found[c] = "divergence" => saw[c] = 2

EInv == /\ TypeOK /\ TrafficOnlyCloses /\ ProbedIsVerified /\ WrongChainIsOut
        /\ SeenByPhase

(* The streak stays within its type and its sign is that of the last result,
   so a failure never decides to open the gate, nor a success to close it. *)
LEMMA StreakSteps ==
    ASSUME NEW s \in -MaxStreak..MaxStreak
    PROVE  /\ Succeeded(s) \in -MaxStreak..MaxStreak
           /\ Failed(s) \in -MaxStreak..MaxStreak
           /\ Decision(Succeeded(s)) \in {"rest", "open"}
           /\ Decision(Failed(s)) \in {"rest", "close"}
BY EligibilityAssumption DEF Succeeded, Failed, Decision, Larger, Smaller

(* A new entry satisfies the invariant (Provider::new). *)
LEMMA InitEInv == Init => EInv
<1> SUFFICES ASSUME Init PROVE EInv
  OBVIOUS
<1>1. TypeOK
  <2>1. streak \in -MaxStreak..MaxStreak
    BY EligibilityAssumption DEF Init
  <2>2. heard \in [Attempts -> BOOLEAN] /\ at \in [Recorder -> At]
    BY Zenon DEF Init, At
  <2>3. /\ check \in [Checks -> {"rest", "look", "confirm", "record"}]
        /\ found \in [Checks -> Verdict]
    BY Zenon DEF Init, Verdict
  <2>4. saw \in [Checks -> 0..2]
    BY DEF Init
  <2> QED BY <2>1, <2>2, <2>3, <2>4 DEF Init, TypeOK
<1>2. at["monitor"] = "rest" /\ TrafficOnlyCloses
  BY DEF Init, TrafficOnlyCloses, Recorder
<1>3. ProbedIsVerified /\ WrongChainIsOut
  BY <1>2 DEF Init, ProbedIsVerified, WrongChainIsOut
<1>4. SeenByPhase
  BY DEF Init, SeenByPhase
<1> QED BY <1>1, <1>2, <1>3, <1>4 DEF EInv

(* judge calls nobody's data wrong that is not: a block that an honest node
   does not have yet is late, not a divergence. *)
LEMMA LooksAreTrue ==
    ASSUME TypeOK
    PROVE  /\ Looks \subseteq Verdict
           /\ "divergence" \in Looks => data = "wrong" \/ node = "foreign"
<1>1. Looks \subseteq Verdict
  BY DEF Looks, Judge, Verdict
<1>2. ASSUME data # "wrong", node # "foreign" PROVE "divergence" \notin Looks
  <2>1. Blocks \subseteq {"same", "none", "error"} /\ data = "right"
    BY <1>2 DEF Blocks, Served, TypeOK, Node
  <2> QED BY <1>2, <2>1 DEF Looks, Judge
<1> QED BY <1>1, <1>2

(* One check's step: the others are where they were. *)
LEMMA CheckKeeps ==
    ASSUME EInv, NEW c \in Checks, CheckSteps(c)
    PROVE  UNCHANGED <<health, at, verified>> /\ TypeOK' /\ SeenByPhase'
<1>0. /\ check \in [Checks -> {"rest", "look", "confirm", "record"}]
      /\ found \in [Checks -> Verdict] /\ saw \in [Checks -> 0..2]
  BY DEF EInv, TypeOK
<1>1. UNCHANGED <<node, data, health, streak, verified, chainDue, at, heard>>
  BY DEF CheckSteps, CheckGoesOn, BeginCheck, NobodyJudged, Look, RecordIntegrity,
         gateVars, healthVars
<1>2. integrity' \in BOOLEAN
  BY DEF EInv, TypeOK, CheckSteps, CheckGoesOn, BeginCheck, NobodyJudged, Look,
         RecordIntegrity, IntegrityAfter, gateVars
<1>4. ASSUME NEW to \in {"rest", "look", "confirm", "record"}, NEW v \in Verdict,
             NEW n \in 0..2, check' = [check EXCEPT ![c] = to],
             found' = [found EXCEPT ![c] = v], saw' = [saw EXCEPT ![c] = n],
             to \in {"rest", "look"} => n = 0, to = "confirm" => n = 1,
             to = "record" /\ v = "divergence" => n = 2
      PROVE  TypeOK' /\ SeenByPhase'
  <2>1. /\ check' \in [Checks -> {"rest", "look", "confirm", "record"}]
        /\ found' \in [Checks -> Verdict] /\ saw' \in [Checks -> 0..2]
    BY <1>0, <1>4
  <2>2. /\ check'[c] = to /\ found'[c] = v /\ saw'[c] = n
        /\ \A d \in Checks \ {c} : /\ check'[d] = check[d] /\ found'[d] = found[d]
                                   /\ saw'[d] = saw[d]
    BY <1>0, <1>4
  <2>3. TypeOK'
    BY <1>1, <1>2, <2>1 DEF EInv, TypeOK
  <2>4. SeenByPhase'
    BY <1>4, <2>2 DEF EInv, SeenByPhase
  <2> QED BY <2>3, <2>4
<1>5. /\ found[c] \in Verdict /\ saw[c] \in 0..2
      /\ found = [found EXCEPT ![c] = found[c]] /\ saw = [saw EXCEPT ![c] = saw[c]]
      /\ check[c] \in {"rest", "look"} => saw[c] = 0
      /\ check[c] = "confirm" => saw[c] = 1
      /\ check[c] = "record" /\ found[c] = "divergence" => saw[c] = 2
  BY <1>0 DEF EInv, SeenByPhase
<1>6. CASE BeginCheck(c)
  BY <1>1, <1>4, <1>5, <1>6 DEF BeginCheck
<1>7. CASE EndCheck(c)
  <2>1. "unjudged" \in Verdict /\ 0 \in 0..2
    BY DEF Verdict
  <2> QED BY <1>1, <1>4, <1>7, <2>1 DEF EndCheck
<1>8. CASE Look(c)
  <2>1. PICK v \in Looks :
           /\ found' = [found EXCEPT ![c] = v]
           /\ check' = [check EXCEPT ![c] = IF v = "divergence" /\ check[c] = "look"
                                            THEN "confirm" ELSE "record"]
           /\ saw' = [saw EXCEPT ![c] = Offences(@, v)]
    BY <1>8 DEF Look
  <2>2. v \in Verdict /\ (v = "divergence" => data = "wrong" \/ node = "foreign")
    BY LooksAreTrue DEF EInv
  <2>3. check[c] \in {"look", "confirm"} /\ saw' = [saw EXCEPT ![c] = Offences(saw[c], v)]
    BY <1>8, <2>1 DEF Look
  <2>4. CASE v = "divergence"
    <3>1. CASE check[c] = "look"
      <4>1. check' = [check EXCEPT ![c] = "confirm"] /\ Offences(saw[c], v) = 1 /\ 1 \in 0..2
        BY <1>5, <2>1, <2>2, <2>4, <3>1 DEF Offences
      <4>2. saw' = [saw EXCEPT ![c] = 1]
        BY <2>3, <4>1
      <4>3. TypeOK' /\ SeenByPhase'
        BY <1>4, <2>1, <2>2, <4>1, <4>2
      <4> QED BY <1>1, <4>3
    <3>2. CASE check[c] = "confirm"
      <4>1. check' = [check EXCEPT ![c] = "record"] /\ Offences(saw[c], v) = 2 /\ 2 \in 0..2
        BY <1>5, <2>1, <2>2, <2>4, <3>2 DEF Offences
      <4>2. saw' = [saw EXCEPT ![c] = 2]
        BY <2>3, <4>1
      <4>3. TypeOK' /\ SeenByPhase'
        BY <1>4, <2>1, <2>2, <4>1, <4>2
      <4> QED BY <1>1, <4>3
    <3> QED BY <2>3, <3>1, <3>2
  <2>5. CASE v # "divergence"
    <3>1. Offences(saw[c], v) = 0 /\ 0 \in 0..2
      BY <2>5 DEF Offences
    <3>2. saw' = [saw EXCEPT ![c] = 0] /\ check' = [check EXCEPT ![c] = "record"]
      BY <2>1, <2>3, <2>5, <3>1
    <3>3. TypeOK' /\ SeenByPhase'
      BY <1>4, <2>1, <2>2, <2>5, <3>1, <3>2
    <3> QED BY <1>1, <3>3
  <2> QED BY <2>4, <2>5
<1> QED BY <1>1, <1>6, <1>7, <1>8
        DEF CheckSteps, CheckGoesOn, NobodyJudged, RecordIntegrity

(* Steps that leave the health results alone. *)
LEMMA OtherSteps ==
    ASSUME EInv,
           \/ NodeChanges \/ ScheduleProbeNow
           \/ \E c \in Checks : CheckSteps(c)
    PROVE  EInv'
<1>1. UNCHANGED <<health, at, verified>> /\ TypeOK' /\ SeenByPhase'
  <2>1. CASE NodeChanges
    BY <2>1 DEF NodeChanges, EInv, TypeOK, SeenByPhase, gateVars, healthVars, checkVars
  <2>2. CASE ScheduleProbeNow
    BY <2>2 DEF ScheduleProbeNow, EInv, TypeOK, SeenByPhase, gateVars, checkVars
  <2> QED BY <2>1, <2>2, CheckKeeps
<1> QED
  BY <1>1 DEF EInv, TrafficOnlyCloses, ProbedIsVerified, WrongChainIsOut

(* The Monitor's own steps. *)
LEMMA MonitorKeeps ==
    ASSUME EInv, MonitorSteps
    PROVE  EInv'
<1>0. "monitor" \in Recorder /\ \A t \in Attempts : t \in Recorder /\ t # "monitor"
  BY EligibilityAssumption DEF Recorder
<1>1. ASSUME NEW from, NEW to \in At, MonitorAt(from, to)
      PROVE  /\ at' \in [Recorder -> At] /\ at'["monitor"] = to /\ at["monitor"] = from
             /\ \A t \in Attempts : at'[t] = at[t]
  BY <1>0, <1>1 DEF MonitorAt, EInv, TypeOK
<1>7. Probe => heard' \in [Attempts -> BOOLEAN]
  BY DEF Probe, Answered, EInv, TypeOK
<1> USE <1>1 DEF At, EInv, TypeOK, TrafficOnlyCloses, ProbedIsVerified, WrongChainIsOut,
                 SeenByPhase, gateVars, checkVars
<1>2. ASSUME NEW round \in BOOLEAN, Sweep(round) PROVE EInv'
  BY <1>2 DEF Sweep
<1>3. CASE VerifyChain
  BY <1>3 DEF VerifyChain
<1>4. CASE Probe
  BY <1>4, <1>7 DEF Probe
<1>5. CASE QuarantineStreak
  BY <1>5, EligibilityAssumption DEF QuarantineStreak
<1>6. CASE QuarantineGate
  BY <1>6 DEF QuarantineGate
<1> QED BY <1>2, <1>3, <1>4, <1>5, <1>6 DEF MonitorSteps

(* Results recorded, by the Monitor or by traffic. *)
LEMMA RecorderKeeps ==
    ASSUME EInv, NEW r \in Recorder, RecordHealth(r) \/ SetHealth(r)
    PROVE  EInv'
<1>0. /\ "monitor" \in Recorder /\ "monitor" \notin Attempts
      /\ \A t \in Attempts : t \in Recorder /\ t # "monitor"
      /\ r # "monitor" => r \in Attempts
  BY EligibilityAssumption DEF Recorder
<1>1. ASSUME NEW to \in At, at' = [at EXCEPT ![r] = to]
      PROVE  /\ at' \in [Recorder -> At] /\ at'[r] = to
             /\ \A q \in Recorder : q # r => at'[q] = at[q]
  BY <1>0, <1>1 DEF EInv, TypeOK
<1>2. CASE RecordHealth(r)
  <2> DEFINE new == IF at[r] = "succeeded" THEN Succeeded(streak) ELSE Failed(streak)
  <2>1. new \in -MaxStreak..MaxStreak /\ Decision(new) \in {"rest", "open", "close"}
        /\ (at[r] = "failed" => Decision(new) \in {"rest", "close"})
    BY StreakSteps DEF EInv, TypeOK
  <2>2. /\ at[r] \in {"succeeded", "failed"} /\ streak' = new
        /\ at' = [at EXCEPT ![r] = Decision(new)]
        /\ UNCHANGED <<node, data, gateVars, verified, chainDue, heard, checkVars>>
    BY <1>2 DEF RecordHealth
  <2> HIDE DEF new
  <2>3. at' \in [Recorder -> At] /\ at'[r] = Decision(new)
        /\ \A q \in Recorder : q # r => at'[q] = at[q]
    BY <1>1, <2>1, <2>2 DEF At
  <2>4. TypeOK'
    BY <2>1, <2>2, <2>3 DEF EInv, TypeOK, gateVars, checkVars
  <2>5. TrafficOnlyCloses'
    BY <1>0, <2>1, <2>2, <2>3 DEF EInv, TrafficOnlyCloses
  <2>6. ProbedIsVerified' /\ WrongChainIsOut'
    BY <1>0, <2>1, <2>2, <2>3 DEF EInv, ProbedIsVerified, WrongChainIsOut, gateVars
  <2>7. SeenByPhase'
    BY <2>2 DEF EInv, SeenByPhase, checkVars
  <2> QED BY <2>4, <2>5, <2>6, <2>7 DEF EInv
<1>3. CASE SetHealth(r)
  <2>1. /\ at[r] \in {"open", "close"} /\ health' = (at[r] = "open")
        /\ at' = [at EXCEPT ![r] = "rest"]
        /\ UNCHANGED <<node, data, integrity, streak, verified, chainDue, heard,
                       checkVars>>
    BY <1>3 DEF SetHealth
  <2>2. at' \in [Recorder -> At] /\ at'[r] = "rest"
        /\ \A q \in Recorder : q # r => at'[q] = at[q]
    BY <1>1, <2>1 DEF At
  <2>3. TypeOK'
    BY <2>1, <2>2 DEF EInv, TypeOK, checkVars
  <2>4. TrafficOnlyCloses'
    BY <1>0, <2>1, <2>2 DEF EInv, TrafficOnlyCloses
  <2>5. ProbedIsVerified'
    BY <1>0, <2>1, <2>2 DEF EInv, ProbedIsVerified
  <2>6. health' => r = "monitor" /\ at["monitor"] = "open"
    BY <1>0, <2>1 DEF EInv, TrafficOnlyCloses
  <2>7. WrongChainIsOut'
    BY <2>1, <2>6 DEF EInv, ProbedIsVerified, WrongChainIsOut
  <2>8. SeenByPhase'
    BY <2>1 DEF EInv, SeenByPhase, checkVars
  <2> QED BY <2>3, <2>4, <2>5, <2>7, <2>8 DEF EInv
<1> QED BY <1>2, <1>3

(* A client's attempt. *)
LEMMA AttemptKeeps ==
    ASSUME EInv, NEW t \in Attempts, AttemptSteps(t)
    PROVE  EInv'
<1>0. t \in Recorder /\ t # "monitor" /\ "monitor" \in Recorder /\ Attempts \subseteq Recorder
  BY EligibilityAssumption DEF Recorder
<1>1. /\ heard' \in [Attempts -> BOOLEAN]
      /\ \E to \in {"rest", "waiting", "failed"} : at' = [at EXCEPT ![t] = to]
      /\ UNCHANGED <<node, data, gateVars, streak, verified, chainDue, checkVars>>
  <2>1. CASE Attempt(t)
    BY <2>1 DEF Attempt, EInv, TypeOK
  <2>2. CASE AttemptAnswered(t)
    BY <2>2 DEF AttemptAnswered, EInv, TypeOK
  <2>3. CASE AttemptFails(t)
    BY <2>3 DEF AttemptFails, EInv, TypeOK
  <2>4. CASE AttemptDropped(t)
    BY <2>4 DEF AttemptDropped, EInv, TypeOK
  <2> QED BY <2>1, <2>2, <2>3, <2>4 DEF AttemptSteps
<1>2. PICK to \in {"rest", "waiting", "failed"} : at' = [at EXCEPT ![t] = to]
  BY <1>1
<1>3. at' \in [Recorder -> At] /\ at'["monitor"] = at["monitor"]
      /\ \A u \in Attempts : at'[u] \in {to, at[u]}
  BY <1>0, <1>2 DEF EInv, TypeOK, At
<1> QED BY <1>1, <1>3 DEF EInv, TypeOK, TrafficOnlyCloses, ProbedIsVerified,
       WrongChainIsOut, SeenByPhase, gateVars, checkVars

(* Every step of the Monitor, the traffic and the checks keeps it. *)
LEMMA NextEInv == EInv /\ [Next]_vars => EInv'
<1> SUFFICES ASSUME EInv, [Next]_vars PROVE EInv'
  OBVIOUS
<1>1. CASE UNCHANGED vars
  BY <1>1 DEF vars, EInv, TypeOK, TrafficOnlyCloses, ProbedIsVerified, WrongChainIsOut,
              SeenByPhase
<1>2. CASE Next
  BY <1>2, OtherSteps, MonitorKeeps, RecorderKeeps, AttemptKeeps DEF Next
<1> QED BY <1>1, <1>2

(* The entry and its writers keep their types, however they interleave; the
   streak saturates (record_health). *)
THEOREM EligibilityTypeOK == Spec => []TypeOK
<1>1. EInv => TypeOK
  BY DEF EInv
<1> QED BY <1>1, InitEInv, NextEInv, PTL DEF Spec

(* Outside verify_chain's own quarantine, a provider whose health gate is
   open has passed its last chain check, for any number of racing attempts
   and any flip_after: traffic, whose results reach the gate late and out of
   order, can close it and never open it. *)
THEOREM NeverOnTheWrongChain == Spec => []WrongChainIsOut
<1>1. EInv => WrongChainIsOut
  BY DEF EInv
<1> QED BY <1>1, InitEInv, NextEInv, PTL DEF Spec

(* For any number of admissions' checks beside the timer's, and however the
   provider changes between the looks: record_integrity closes the integrity
   gate only on data that was wrong at both looks of the check it closes it
   for (judge, confirm). *)
THEOREM WrongAtBothLooks == Spec => []WrongDataTwice
<1>1. EInv => WrongDataTwice
  BY DEF EInv, SeenByPhase, WrongDataTwice
<1> QED BY <1>1, InitEInv, NextEInv, PTL DEF Spec
-----------------------------------------------------------------------------
(* Probing. *)

(* What a sweep may leave of the silence when the loop rests again. *)
Silence == MaxOf(MaxOf(Interval, MaxOf(Timeout, SlotWait) + RoundTime),
                 ProbeDelay(unanswered) + MaxOf(Interval, SlotWait + RoundTime))

(* next_probe was set by the last probe, if it has not passed or been moved
   to the present since. *)
DelayEarned == wait > 0 => wait + gap <= ProbeDelay(unanswered)

(* In each phase of the sweep: how long the provider was left alone, counting
   what is left until the timer's next deadline.  The timer runs beside the
   sweep, so the wait for the next one is the longer of the two and not their
   sum.  After its slot, either the provider was probed by the sweep or put
   off by an admission (Fresh), or it was skipped with some of its delay left
   when the sweep began (Skipped). *)
Fresh(most) == gap <= most /\ (tick > 0 => tick + gap <= Interval)

Skipped(most) == /\ gap <= ProbeDelay(unanswered) + most
                 /\ tick > 0 => tick + gap <= ProbeDelay(unanswered) + Interval

SilenceInPhase ==
    /\ phase = "rest" => gap + tick <= Silence
    /\ phase = "reference" => gap <= Silence + spent /\ spent <= RefTime
    /\ phase = "queued" =>
          /\ spent <= SlotWait /\ since = spent
          /\ due => wait = 0 /\ gap <= Silence + RefTime + spent
          /\ ~due => Fresh(spent) \/ Skipped(spent)
    /\ phase = "probing" =>
          /\ gap <= since /\ gap = spent /\ spent <= Timeout /\ wait = 0 /\ Fresh(spent)
    /\ phase = "others" =>
          /\ spent <= RoundTime
          /\ Fresh(MaxOf(Timeout, SlotWait) + spent) \/ Skipped(SlotWait + spent)

(* Only a provider in the queue is due. *)
DueIsQueued == due => phase = "queued"

BInv == ProbingTypeOK /\ DelayEarned /\ DueIsQueued /\ SilenceInPhase
-----------------------------------------------------------------------------
(* The delay is a number, and the cap holds. *)
LEMMA DelayCapped ==
    ASSUME NEW n \in Nat
    PROVE  ProbeDelay(n) \in Int /\ ProbeDelay(n) <= MaxBackoff
<1>1. Left(n, BackoffAfter) \in Nat
  BY ProbingAssumption DEF Left
<1>2. 2^Left(n, BackoffAfter) \in Int
  BY <1>1
<1>3. Interval * 2^Left(n, BackoffAfter) \in Int
  BY <1>2, ProbingAssumption
<1> QED BY <1>3, ProbingAssumption DEF ProbeDelay, MinOf

(* The wait for a slot is a number. *)
LEMMA SlotWaitIsNat == SlotWait \in Nat
<1>1. Ahead \div Slots \in Nat
  BY ProbingAssumption
<1>2. \A x, y \in Nat : x * y \in Nat
  OBVIOUS
<1> QED BY <1>1, <1>2, ProbingAssumption DEF SlotWait

(* The first sweep is due at once. *)
LEMMA InitBInv == ProbingInit => BInv
<1> SUFFICES ASSUME ProbingInit PROVE BInv
  OBVIOUS
<1>1. ProbingTypeOK
  <2>1. Interval \in Nat /\ MaxBackoff \in Nat /\ MaxUnanswered \in Nat
    BY ProbingAssumption
  <2>2. admitted \in BOOLEAN /\ due \in BOOLEAN
    BY DEF ProbingInit
  <2>3. phase = "rest" /\ tick = 0 /\ wait = 0 /\ spent = 0 /\ since = 0
        /\ unanswered = 0 /\ gap = 0
    BY DEF ProbingInit
  <2> QED BY <2>1, <2>2, <2>3 DEF ProbingTypeOK
<1>2. 0 <= Silence
  <2> DEFINE D == ProbeDelay(unanswered)
  <2>1. D \in Int
    BY <1>1, DelayCapped DEF ProbingTypeOK
  <2> HIDE DEF D
  <2> QED BY <2>1, SlotWaitIsNat, ProbingAssumption DEF Silence, MaxOf, D
<1> QED BY <1>1, <1>2 DEF ProbingInit, BInv, DelayEarned, DueIsQueued, SilenceInPhase

(* Each step of the sweep and of the clock keeps the bounds.  A step that
   leaves the streak alone leaves the delay alone. *)
LEMMA NextBInv == BInv /\ [ProbingNext]_probingVars => BInv'
<1> SUFFICES ASSUME BInv, [ProbingNext]_probingVars PROVE BInv'
  OBVIOUS
<1> DEFINE D == ProbeDelay(unanswered)
<1>0. /\ BackoffAfter \in Nat /\ Interval \in Nat \ {0} /\ MaxBackoff \in Nat
      /\ Timeout \in Nat /\ RefTime \in Nat /\ RoundTime \in Nat /\ MaxUnanswered \in Nat
      /\ MaxUnanswered > 0 /\ SlotWait \in Nat
  BY ProbingAssumption, SlotWaitIsNat
<1>1. D \in Int /\ D <= MaxBackoff
  BY DelayCapped DEF BInv, ProbingTypeOK
<1>2. ASSUME unanswered' = unanswered PROVE D' = D
  BY <1>2
<1>b. due \in BOOLEAN /\ admitted \in BOOLEAN /\ (due => phase = "queued")
  BY DEF BInv, ProbingTypeOK, DueIsQueued
<1>3. CASE TimePasses
  <2>1. unanswered' = unanswered /\ D' = D
    BY <1>2, <1>3 DEF TimePasses
  <2> HIDE DEF D
  <2>2. DueIsQueued' /\ due' = due /\ admitted' = admitted /\ phase' = phase
    BY <1>3, <1>b DEF TimePasses, DueIsQueued
  <2>3. DelayEarned' /\ tick' \in 0..Interval /\ wait' \in 0..MaxBackoff
        /\ (wait = 0 => wait' = 0)
    BY <1>0, <1>1, <1>3, <2>1 DEF TimePasses, BInv, ProbingTypeOK, DelayEarned, Left, D
  <2>4. ProbingTypeOK'
    BY <1>3, <1>b, <2>1, <2>2, <2>3 DEF TimePasses, BInv, ProbingTypeOK
  <2>5. tick' = Left(tick, 1) /\ gap' = gap + 1 /\ gap \in Nat /\ tick \in Nat /\ spent \in Nat
        /\ since \in Nat
    BY <1>0, <1>3 DEF TimePasses, BInv, ProbingTypeOK
  <2>6. CASE phase = "rest"
    BY <1>0, <1>1, <1>3, <2>1, <2>2, <2>4, <2>5, <2>6, <2>3
       DEF TimePasses, BInv, SilenceInPhase, Silence, MaxOf, Left, D
  <2>7. CASE phase = "reference"
    BY <1>0, <1>1, <1>3, <2>1, <2>2, <2>4, <2>5, <2>7, <2>3
       DEF TimePasses, Longest, BInv, SilenceInPhase, Silence, MaxOf, Left, D
  <2>8. CASE phase = "queued"
    <3>1. spent' = spent + 1 /\ since' = since + 1 /\ spent < SlotWait
      BY <1>3, <2>8 DEF TimePasses, Longest
    <3>2. due => gap' <= Silence' + RefTime + spent'
      BY <1>0, <1>1, <2>1, <2>5, <2>8, <3>1 DEF BInv, SilenceInPhase, Silence, MaxOf, D
    <3>3. ~due => Fresh(spent)' \/ Skipped(spent)'
      BY <1>0, <1>1, <2>1, <2>5, <2>8, <3>1
         DEF BInv, SilenceInPhase, Fresh, Skipped, Left, D
    <3>4. SilenceInPhase'
      BY <1>0, <2>2, <2>3, <2>5, <2>8, <3>1, <3>2, <3>3 DEF BInv, SilenceInPhase
    <3> QED BY <2>2, <2>3, <2>4, <3>4 DEF BInv
  <2>9. CASE phase = "probing"
    BY <1>0, <1>1, <1>3, <2>1, <2>2, <2>3, <2>4, <2>5, <2>9
       DEF TimePasses, Longest, BInv, SilenceInPhase, Fresh, Left
  <2>10. CASE phase = "others"
    BY <1>0, <1>1, <1>3, <2>1, <2>2, <2>3, <2>4, <2>5, <2>10
       DEF TimePasses, Longest, BInv, SilenceInPhase, Fresh, Skipped, MaxOf, Left, D
  <2> QED BY <2>6, <2>7, <2>8, <2>9, <2>10 DEF BInv, ProbingTypeOK
<1>4. CASE Tick
  <2>1. unanswered' = unanswered /\ D' = D
    BY <1>2, <1>4 DEF Tick
  <2> QED BY <1>0, <1>1, <1>4, <1>b, <2>1
          DEF Tick, BInv, ProbingTypeOK, DelayEarned, DueIsQueued, SilenceInPhase, Silence,
              MaxOf
<1>5. CASE ProbeAll
  <2>1. unanswered' = unanswered /\ D' = D
    BY <1>2, <1>5 DEF ProbeAll
  <2>2. ProbingTypeOK' /\ DueIsQueued' /\ DelayEarned'
    BY <1>5, <1>b, <2>1 DEF ProbeAll, BInv, ProbingTypeOK, DueIsQueued, DelayEarned
  <2>8. gap <= Silence + RefTime /\ gap \in Nat /\ wait \in Nat /\ tick \in 0..Interval
    BY <1>0, <1>1, <1>5
       DEF ProbeAll, BInv, ProbingTypeOK, SilenceInPhase, Silence, MaxOf
  <2>9. due' <=> wait = 0
    BY <1>5, Zenon DEF ProbeAll
  <2>3. /\ phase' = "queued" /\ (due' <=> wait = 0) /\ spent' = 0 /\ since' = 0
        /\ UNCHANGED <<tick, wait, unanswered, gap>>
        /\ gap <= Silence + RefTime /\ gap \in Nat /\ wait \in Nat /\ tick \in 0..Interval
    BY <1>5, <2>8, <2>9 DEF ProbeAll
  <2>4. ~due' => Skipped(spent)'
    BY <1>0, <1>1, <2>1, <2>3 DEF BInv, DelayEarned, Skipped
  <2>5. Silence' = Silence
    BY <2>1 DEF Silence
  <2>6. Silence \in Int
    BY <1>0, <1>1 DEF Silence, MaxOf
  <2>7. SilenceInPhase'
    BY <1>0, <2>3, <2>4, <2>5, <2>6 DEF SilenceInPhase
  <2> QED BY <2>2, <2>7 DEF BInv
<1>6. CASE SlotOpens
  <2>1. unanswered' = unanswered /\ D' = D
    BY <1>2, <1>6 DEF SlotOpens
  <2>2. CASE due
    <3>1. /\ phase = "queued" /\ phase' = "probing" /\ gap' = 0 /\ spent' = 0 /\ since \in Nat
          /\ due' = FALSE /\ admitted' = FALSE /\ wait = 0 /\ UNCHANGED <<tick, wait, since>>
          /\ tick \in 0..Interval
      BY <1>6, <1>b, <2>2 DEF SlotOpens, BInv, ProbingTypeOK, SilenceInPhase
    <3>2. SilenceInPhase' /\ DelayEarned' /\ DueIsQueued'
      BY <1>0, <3>1 DEF SilenceInPhase, DelayEarned, DueIsQueued, Fresh
    <3>3. ProbingTypeOK'
      BY <1>0, <2>1, <3>1 DEF BInv, ProbingTypeOK
    <3> QED BY <3>2, <3>3 DEF BInv
  <2>3. CASE ~due
    <3>1. /\ phase = "queued" /\ phase' = "others" /\ gap' = gap /\ spent' = 0 /\ spent \in Nat
          /\ due' = FALSE /\ admitted' = admitted /\ UNCHANGED <<tick, wait, since>>
          /\ tick \in 0..Interval /\ gap \in Nat /\ spent <= SlotWait
          /\ Fresh(spent) \/ Skipped(spent)
      BY <1>6, <1>b, <2>3 DEF SlotOpens, BInv, ProbingTypeOK, SilenceInPhase
    <3>2. Fresh(MaxOf(Timeout, SlotWait) + spent)' \/ Skipped(SlotWait + spent)'
      BY <1>0, <1>1, <2>1, <3>1 DEF Fresh, Skipped, MaxOf
    <3>3. SilenceInPhase' /\ DelayEarned' /\ DueIsQueued'
      BY <1>0, <2>1, <3>1, <3>2 DEF BInv, SilenceInPhase, DelayEarned, DueIsQueued
    <3>4. ProbingTypeOK'
      BY <1>b, <2>1, <3>1 DEF BInv, ProbingTypeOK
    <3> QED BY <3>3, <3>4 DEF BInv
  <2> QED BY <2>2, <2>3
<1>7. CASE ProbeAnswered
  <2>1. /\ phase = "probing" /\ phase' = "others" /\ spent' = 0 /\ unanswered' = 0
        /\ UNCHANGED <<tick, wait, since, due, gap, admitted>> /\ wait = 0
        /\ gap <= Timeout /\ gap \in Nat /\ tick \in 0..Interval /\ ~due
        /\ (tick > 0 => tick + gap <= Interval)
    BY <1>0, <1>7, <1>b DEF ProbeAnswered, BInv, ProbingTypeOK, SilenceInPhase, Fresh
  <2>2. SilenceInPhase' /\ DelayEarned' /\ DueIsQueued'
    BY <1>0, <2>1 DEF SilenceInPhase, DelayEarned, DueIsQueued, Fresh, MaxOf
  <2>3. ProbingTypeOK'
    BY <1>0, <1>b, <2>1 DEF BInv, ProbingTypeOK
  <2> QED BY <2>2, <2>3 DEF BInv
<1>8. CASE RecordUnansweredProbe
  <2> DEFINE E == ProbeDelay(unanswered')
  <2>1. /\ unanswered' \in 0..MaxUnanswered /\ wait' = Left(E, since)
        /\ phase' = "others" /\ spent' = 0
        /\ UNCHANGED <<tick, since, due, gap, admitted>> /\ ~due
    BY <1>0, <1>8, <1>b DEF RecordUnansweredProbe, BInv, ProbingTypeOK, MinOf
  <2>2. E \in Int /\ E <= MaxBackoff
    BY <2>1, <1>0, DelayCapped
  <2>3. /\ gap <= since /\ gap <= Timeout /\ (tick > 0 => tick + gap <= Interval)
        /\ since \in Nat /\ gap \in Nat /\ tick \in 0..Interval
    BY <1>0, <1>8 DEF RecordUnansweredProbe, BInv, ProbingTypeOK, SilenceInPhase, Fresh
  <2> HIDE DEF E
  <2>4. wait' \in 0..MaxBackoff /\ (wait' > 0 => wait' + gap' <= E)
    BY <1>0, <2>1, <2>2, <2>3 DEF Left
  <2>5. ProbingTypeOK' /\ DelayEarned' /\ DueIsQueued'
    BY <1>b, <2>1, <2>4 DEF BInv, ProbingTypeOK, DelayEarned, DueIsQueued, E
  <2>6. SilenceInPhase'
    BY <1>0, <2>1, <2>3 DEF SilenceInPhase, Fresh, MaxOf
  <2> QED BY <2>5, <2>6 DEF BInv
<1>9. CASE RoundEnds
  <2>1. unanswered' = unanswered /\ D' = D
    BY <1>2, <1>9 DEF RoundEnds
  <2> QED BY <1>0, <1>1, <1>9, <1>b, <2>1
          DEF RoundEnds, BInv, ProbingTypeOK, DelayEarned, DueIsQueued, SilenceInPhase,
              Silence, Fresh, Skipped, MaxOf
<1>10. CASE ProbeNow
  <2>1. unanswered' = unanswered /\ D' = D
    BY <1>2, <1>10 DEF ProbeNow
  <2>5. /\ wait' = 0 /\ due' = FALSE /\ admitted' = TRUE /\ gap' \in {0, gap}
        /\ UNCHANGED <<phase, tick, spent, since, unanswered>>
    BY <1>10 DEF ProbeNow
  <2>6. due' \in BOOLEAN /\ admitted' \in BOOLEAN /\ DueIsQueued'
    BY <2>5 DEF DueIsQueued
  <2>7. wait' \in 0..MaxBackoff /\ gap' \in Nat /\ DelayEarned'
    BY <1>0, <2>5 DEF BInv, ProbingTypeOK, DelayEarned
  <2>2. ProbingTypeOK' /\ DelayEarned' /\ DueIsQueued'
    BY <2>5, <2>6, <2>7 DEF BInv, ProbingTypeOK
  <2>3. CASE due
    <3>1. /\ phase = "queued" /\ phase' = phase /\ ~due' /\ gap' = 0 /\ UNCHANGED <<tick, spent, since>>
          /\ tick \in 0..Interval /\ spent \in Nat /\ spent <= SlotWait /\ since = spent
      BY <1>10, <1>b, <2>3 DEF ProbeNow, BInv, ProbingTypeOK, SilenceInPhase
    <3>2. SilenceInPhase'
      BY <1>0, <3>1 DEF SilenceInPhase, Fresh
    <3> QED BY <2>2, <3>2 DEF BInv
  <2>4. CASE ~due
    <3>1. ~due' /\ wait' = 0 /\ UNCHANGED <<phase, tick, spent, since, gap, unanswered>>
      BY <1>10, <2>4 DEF ProbeNow
    <3>2. Silence' = Silence
      BY <3>1 DEF Silence
    <3>3. SilenceInPhase'
      BY <2>1, <2>4, <3>1, <3>2 DEF BInv, SilenceInPhase, Fresh, Skipped
    <3> QED BY <2>2, <3>3 DEF BInv
  <2> QED BY <2>3, <2>4
<1>11. CASE UNCHANGED probingVars
  <2>1. unanswered' = unanswered /\ D' = D
    BY <1>2, <1>11 DEF probingVars
  <2> QED BY <1>11, <2>1
          DEF probingVars, BInv, ProbingTypeOK, DelayEarned, DueIsQueued, SilenceInPhase,
              Silence, Fresh, Skipped
<1> QED BY <1>3, <1>4, <1>5, <1>6, <1>7, <1>8, <1>9, <1>10, <1>11 DEF ProbingNext

(* BInv is an invariant of the schedule. *)
LEMMA BInvHolds == ProbingSpec => []BInv
<1> QED BY InitBInv, NextBInv, PTL DEF ProbingSpec

(* The schedule keeps its types, and next_probe is never further off than
   max_probe_backoff (probe_delay, reschedule_unanswered). *)
THEOREM ProbingKeepsTypes == ProbingSpec => []ProbingTypeOK
<1>1. BInv => ProbingTypeOK
  BY DEF BInv
<1> QED BY <1>1, BInvHolds, PTL

(* However late sweeps run and however long the line for the slots is, no
   provider waits longer for its next probe than the first sweep after its own
   or the delay it earned and one sweep more, an admission during the wait for
   a slot apart (probe_all, probe_delay, reschedule_unanswered). *)
THEOREM SilenceIsBounded == ProbingSpec => []SilenceBounded
<1>1. BInv => SilenceBounded
  <2> SUFFICES ASSUME BInv PROVE SilenceBounded
    OBVIOUS
  <2> DEFINE D == ProbeDelay(unanswered)
  <2>1. D \in Int
    BY DelayCapped DEF BInv, ProbingTypeOK
  <2>2. gap <= Silence + RefTime + SlotWait
    <3> HIDE DEF D
    <3> QED BY <2>1, ProbingAssumption, SlotWaitIsNat
            DEF BInv, ProbingTypeOK, SilenceInPhase, Silence, Fresh, Skipped, MaxOf, D
  <2> QED BY <2>2 DEF SilenceBounded, Silence
<1> QED BY <1>1, BInvHolds, PTL
=============================================================================
