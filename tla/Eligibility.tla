---------------------------- MODULE Eligibility ----------------------------
(***************************************************************************)
(* Whether one provider is in rotation (crates/lb/src/pool.rs), and the    *)
(* threads that decide it at the same time: the Monitor's sweeps (monitor  *)
(* .rs), failing client traffic (proxy.rs) and integrity checks, the       *)
(* timer's and the one made at a tunnel's admission (integrity.rs).        *)
(*                                                                         *)
(* Each action is one atomic operation on the entry, or one await.  When a *)
(* probe is due, and when a chain round is, is left open (see Probing for  *)
(* the schedule).                                                          *)
(***************************************************************************)
EXTENDS Integers

CONSTANTS
    FlipAfter,      \* health.flip_after
    MaxStreak,      \* where the streak saturates (i64::MAX)
    ChainChecked,   \* health.chain_id is configured
    Attempts,       \* client attempts that may be in flight
    Admissions      \* integrity checks at admissions that may be in progress

ASSUME EligibilityAssumption ==
    /\ FlipAfter \in Nat /\ FlipAfter >= 2
    /\ MaxStreak \in Nat /\ MaxStreak >= FlipAfter
    /\ ChainChecked \in BOOLEAN
    /\ "monitor" \notin Attempts

VARIABLES
    node,       \* how the provider behaves just now
    data,       \* whether what it serves is the chain's
    health,     \* Gate::Health
    integrity,  \* Gate::Integrity
    streak,     \* health_streak
    verified,   \* chain_verified
    chainDue,   \* chain_check_due
    at,         \* where each recorder of health results is
    heard,      \* the provider answered since the attempt started
    check,      \* where each integrity check is
    found,      \* its finding
    saw         \* history: its divergences so far on data that was wrong

gateVars    == <<health, integrity>>
healthVars  == <<streak, verified, chainDue, at, heard>>
checkVars   == <<check, found, saw>>
vars == <<node, data, health, integrity, streak, verified, chainDue, at, heard,
          check, found, saw>>

Recorder == {"monitor"} \cup Attempts
Checks   == {"timer"} \cup Admissions
Node     == {"up", "flaky", "behind", "foreign", "silent"}
Verdict  == {"match", "divergence", "unjudged"}   \* Stale and Unknown: unjudged
At       == {"rest", "chainid", "wrong", "quarantine", "probe", "succeeded",
             "failed", "open", "close", "waiting"}

eligible == health /\ integrity

(* A new entry: no probe has passed, and nothing is held against its data. *)
Init ==
    /\ node \in Node /\ data \in {"right", "wrong"}
    /\ health = FALSE /\ integrity = TRUE
    /\ streak = 0 /\ verified = FALSE /\ chainDue = TRUE
    /\ at = [r \in Recorder |-> "rest"]
    /\ heard = [t \in Attempts |-> FALSE]
    /\ check = [c \in Checks |-> "rest"] /\ found = [c \in Checks |-> "unjudged"]
    /\ saw = [c \in Checks |-> 0]

(* The provider's machine, its network and its data. *)
NodeChanges ==
    /\ node' \in Node /\ data' \in {"right", "wrong"}
    /\ UNCHANGED <<gateVars, healthVars, checkVars>>

(***************************************************************************)
(* record_health: the streak moves in one atomic update, and the gate in   *)
(* another, decided by the streak this result made.                        *)
(***************************************************************************)
Larger(x, y) == IF x > y THEN x ELSE y
Smaller(x, y) == IF x < y THEN x ELSE y

(* Variant for the checks: the streak of failures does not saturate. *)
FailedUnbounded(s) == Smaller(s, 0) - 1

Succeeded(s) == Smaller(Larger(s, 0) + 1, MaxStreak)
Failed(s) == Larger(Smaller(s, 0) - 1, -MaxStreak)

(* Where the recorder goes once its result made the streak s. *)
Decision(s) == IF s >= FlipAfter THEN "open"
               ELSE IF s <= -FlipAfter THEN "close" ELSE "rest"

RecordHealth(r) ==
    /\ at[r] \in {"succeeded", "failed"}
    /\ LET new == IF at[r] = "succeeded" THEN Succeeded(streak) ELSE Failed(streak)
       IN /\ streak' = new
          /\ at' = [at EXCEPT ![r] = Decision(new)]
    /\ UNCHANGED <<node, data, gateVars, verified, chainDue, heard, checkVars>>

SetHealth(r) ==
    /\ at[r] \in {"open", "close"}
    /\ health' = (at[r] = "open")
    /\ at' = [at EXCEPT ![r] = "rest"]
    /\ UNCHANGED <<node, data, integrity, streak, verified, chainDue, heard,
                   checkVars>>

(***************************************************************************)
(* The Monitor: one task, one provider at a time through chain check,      *)
(* probe and result.                                                       *)
(***************************************************************************)
MonitorAt(from, to) == at["monitor"] = from /\ at' = [at EXCEPT !["monitor"] = to]

(* Variant for the checks: only a provider that asked is checked. *)
SweepAskedOnly(chainRound) ==
    /\ MonitorAt("rest", IF ~ChainChecked THEN "probe"
                         ELSE IF chainDue THEN "chainid"
                         ELSE IF verified THEN "probe" ELSE "rest")
    /\ chainDue' = (chainDue /\ ~ChainChecked)
    /\ UNCHANGED <<node, data, gateVars, streak, verified, heard, checkVars>>

(* chain_cleared: a request for a check is taken either way. *)
Sweep(chainRound) ==
    /\ MonitorAt("rest", IF ~ChainChecked THEN "probe"
                         ELSE IF chainRound \/ chainDue THEN "chainid"
                         ELSE IF verified THEN "probe" ELSE "rest")
    /\ chainDue' = (chainDue /\ ~ChainChecked)
    /\ UNCHANGED <<node, data, gateVars, streak, verified, heard, checkVars>>

(* Variant for the checks: the wrong chain stops the probes and nothing more. *)
VerifyChainOnly ==
    /\ \/ node = "silent" /\ verified' = verified
          /\ MonitorAt("chainid", IF verified THEN "probe" ELSE "rest")
       \/ node = "foreign" /\ verified' = FALSE /\ MonitorAt("chainid", "rest")
       \/ node \notin {"silent", "foreign"} /\ verified' = TRUE
          /\ MonitorAt("chainid", "probe")
    /\ UNCHANGED <<node, data, gateVars, streak, chainDue, heard, checkVars>>

(* verify_chain: an unanswered check leaves the verdict as it was. *)
VerifyChain ==
    /\ \/ node = "silent" /\ verified' = verified
          /\ MonitorAt("chainid", IF verified THEN "probe" ELSE "rest")
       \/ node = "foreign" /\ verified' = FALSE /\ MonitorAt("chainid", "wrong")
       \/ node \notin {"silent", "foreign"} /\ verified' = TRUE
          /\ MonitorAt("chainid", "probe")
    /\ UNCHANGED <<node, data, gateVars, streak, chainDue, heard, checkVars>>

(* quarantine: the streak, then the gate, without waiting for a run. *)
QuarantineStreak ==
    /\ MonitorAt("wrong", "quarantine")
    /\ streak' = 0
    /\ UNCHANGED <<node, data, gateVars, verified, chainDue, heard, checkVars>>

QuarantineGate ==
    /\ MonitorAt("quarantine", "rest")
    /\ health' = FALSE
    /\ UNCHANGED <<node, data, integrity, streak, verified, chainDue, heard, checkVars>>

Answered == heard' = [t \in Attempts |-> at[t] = "waiting"]

(* Variant for the checks: an unanswered probe is no result. *)
ProbeUnanswered ==
    /\ \/ node = "silent" /\ MonitorAt("probe", "rest") /\ UNCHANGED heard
       \/ node \in {"behind", "foreign"} /\ MonitorAt("probe", "failed") /\ Answered
       \/ node # "silent" /\ MonitorAt("probe", "succeeded") /\ Answered
    /\ UNCHANGED <<node, data, gateVars, streak, verified, chainDue, checkVars>>

(* probe: a lag beyond the tolerance is a failure, when the reference's
   height is known. *)
Probe ==
    /\ \/ node = "silent" /\ MonitorAt("probe", "failed") /\ UNCHANGED heard
       \/ node \in {"behind", "foreign"} /\ MonitorAt("probe", "failed") /\ Answered
       \/ node # "silent" /\ MonitorAt("probe", "succeeded") /\ Answered
    /\ UNCHANGED <<node, data, gateVars, streak, verified, chainDue, checkVars>>

(* An admitted tunnel asks for a chain check (schedule_probe_now). *)
ScheduleProbeNow ==
    /\ chainDue' = TRUE
    /\ UNCHANGED <<node, data, gateVars, streak, verified, at, heard, checkVars>>

(***************************************************************************)
(* Client traffic (forward_with_failover): an answer earns no credit, and  *)
(* a timeout on a provider heard of meanwhile costs none.                  *)
(***************************************************************************)
Attempt(t) ==
    /\ at[t] = "rest" /\ eligible
    /\ at' = [at EXCEPT ![t] = "waiting"]
    /\ UNCHANGED <<node, data, gateVars, streak, verified, chainDue, heard, checkVars>>

AttemptAnswered(t) ==
    /\ at[t] = "waiting" /\ node # "silent"
    /\ at' = [at EXCEPT ![t] = "rest"]
    /\ \/ heard' = [u \in Attempts |-> u # t /\ at[u] = "waiting"]
       \/ heard' = [heard EXCEPT ![t] = FALSE]     \* over the size cap
    /\ UNCHANGED <<node, data, gateVars, streak, verified, chainDue, checkVars>>

AttemptFails(t) ==
    /\ at[t] = "waiting" /\ node \in {"silent", "flaky"}
    /\ \/ at' = [at EXCEPT ![t] = "failed"]
       \/ heard[t] /\ at' = [at EXCEPT ![t] = "rest"]
    /\ heard' = [heard EXCEPT ![t] = FALSE]
    /\ UNCHANGED <<node, data, gateVars, streak, verified, chainDue, checkVars>>

(* The client hangs up: its request is dropped and nothing is recorded. *)
AttemptDropped(t) ==
    /\ at[t] = "waiting"
    /\ at' = [at EXCEPT ![t] = "rest"] /\ heard' = [heard EXCEPT ![t] = FALSE]
    /\ UNCHANGED <<node, data, gateVars, streak, verified, chainDue, checkVars>>

(***************************************************************************)
(* Integrity checks (round_over over this provider).                       *)
(***************************************************************************)

(* ask: what its read of the block at the reference's finalized height may
   bring.  The answer is capped, so one that is too large is wrong data. *)
Served == IF data = "right" THEN {"same"} ELSE {"another", "none", "too large"}

Blocks == CASE node = "silent"  -> {"error"}
            [] node = "foreign" -> {"another", "none"}
            [] node = "behind"  -> Served \cup {"none"}
            [] node = "flaky"   -> Served \cup {"error"}
            [] node = "up"      -> Served

(* judge, by the block alone as the entity check is off: a block older than
   the head its own probes reported is refused, not late. *)
Judge(block, probed) ==
    IF block = "error" \/ (block = "none" /\ ~probed) THEN "unjudged"
    ELSE IF block = "same" THEN "match"
    ELSE "divergence"

(* A look's verdicts.  An honest node has every block up to its head. *)
Looks == {Judge(b, FALSE) : b \in Blocks}
         \cup {Judge(b, TRUE) : b \in Blocks \ (IF data = "right" /\ node # "foreign"
                                                THEN {"none"} ELSE {})}

(* The timer's rounds are one at a time; an admission's check is one of its
   own, beside them, over the same provider. *)
BeginCheck(c) ==
    /\ check[c] = "rest" /\ health
    /\ check' = [check EXCEPT ![c] = "look"]
    /\ UNCHANGED <<node, data, gateVars, healthVars, found, saw>>

EndCheck(c) == /\ check' = [check EXCEPT ![c] = "rest"]
               /\ found' = [found EXCEPT ![c] = "unjudged"] /\ saw' = [saw EXCEPT ![c] = 0]

(* The reference could not be read: nobody is judged. *)
NobodyJudged(c) ==
    /\ check[c] = "look"
    /\ EndCheck(c)
    /\ UNCHANGED <<node, data, gateVars, healthVars>>

(* History: a look with the verdict v, after n divergences that were true. *)
Offences(n, v) == IF v = "divergence" /\ (data = "wrong" \/ node = "foreign")
                  THEN n + 1 ELSE 0

(* Variant for the checks: one look is a finding. *)
LookOnce(c) ==
    /\ check[c] = "look"
    /\ \E v \in Looks : /\ found' = [found EXCEPT ![c] = v]
                        /\ saw' = [saw EXCEPT ![c] = Offences(@, v)]
    /\ check' = [check EXCEPT ![c] = "record"]
    /\ UNCHANGED <<node, data, gateVars, healthVars>>

(* A divergence from one look is looked at again, and the second look is the
   finding, whatever it says. *)
Look(c) ==
    /\ check[c] \in {"look", "confirm"}
    /\ \E v \in Looks :
          /\ found' = [found EXCEPT ![c] = v]
          /\ check' = [check EXCEPT ![c] = IF v = "divergence" /\ check[c] = "look"
                                           THEN "confirm" ELSE "record"]
          /\ saw' = [saw EXCEPT ![c] = Offences(@, v)]
    /\ UNCHANGED <<node, data, gateVars, healthVars>>

(* record_integrity: the gate after a finding.  The verdict stored beside it
   is shown and decides nothing. *)
IntegrityAfter(finding) == CASE finding = "match"      -> TRUE
                             [] finding = "divergence" -> FALSE
                             [] OTHER                  -> integrity

RecordIntegrity(c) ==
    /\ check[c] = "record"
    /\ integrity' = IntegrityAfter(found[c])
    /\ EndCheck(c)
    /\ UNCHANGED <<node, data, health, healthVars>>

-----------------------------------------------------------------------------
MonitorSteps == \/ Sweep(TRUE) \/ Sweep(FALSE) \/ VerifyChain \/ Probe
                \/ QuarantineStreak \/ QuarantineGate

AttemptSteps(t) == \/ Attempt(t) \/ AttemptAnswered(t) \/ AttemptFails(t)
                   \/ AttemptDropped(t)

(* What a check that has begun does. *)
CheckGoesOn(c) == NobodyJudged(c) \/ Look(c) \/ RecordIntegrity(c)

CheckSteps(c) == BeginCheck(c) \/ CheckGoesOn(c)

Next ==
    \/ NodeChanges \/ MonitorSteps \/ ScheduleProbeNow
    \/ \E r \in Recorder : RecordHealth(r) \/ SetHealth(r)
    \/ \E t \in Attempts : AttemptSteps(t)
    \/ \E c \in Checks : CheckSteps(c)

Spec == Init /\ [][Next]_vars

(* The Monitor's interval timers fire and every call it makes times out; a
   chain round comes whenever its interval has passed; a thread that made
   the streak goes on to the gate; the timer's checks begin and every check
   ends, and the reference is readable again and again.  Nothing makes an
   admission happen. *)
Fairness ==
    /\ WF_vars(MonitorSteps) /\ SF_vars(Sweep(TRUE))
    /\ \A r \in Recorder : WF_vars(RecordHealth(r) \/ SetHealth(r))
    /\ WF_vars(CheckSteps("timer")) /\ SF_vars(Look("timer"))
    /\ \A c \in Admissions : WF_vars(CheckGoesOn(c))

FairSpec == Spec /\ Fairness
-----------------------------------------------------------------------------
(* Types of the entry and of those who write it. *)
TypeOK ==
    /\ node \in Node /\ data \in {"right", "wrong"}
    /\ health \in BOOLEAN /\ integrity \in BOOLEAN
    /\ streak \in -MaxStreak..MaxStreak
    /\ verified \in BOOLEAN /\ chainDue \in BOOLEAN
    /\ at \in [Recorder -> At] /\ heard \in [Attempts -> BOOLEAN]
    /\ check \in [Checks -> {"rest", "look", "confirm", "record"}]
    /\ found \in [Checks -> Verdict] /\ saw \in [Checks -> 0..2]

(* A provider is never let into rotation on a chain identity it has not
   passed: whatever traffic does to the streak meanwhile, once verify_chain
   has found the wrong chain and quarantined, the gate is closed and stays so
   until a check passes (docs/PROXY.md: "a node on the wrong chain never
   serves a single request"). *)
WrongChainIsOut ==
    ChainChecked /\ at["monitor"] \notin {"wrong", "quarantine"} /\ health => verified

(* A provider is put out for its data only if it really served data that is
   not the chain's at both looks of one check: to be late, silent or restarted
   at either of them is not held against it, and neither is what another check
   finds at the same time (judge, confirm: "one wrong read is not a verdict"). *)
WrongDataTwice ==
    \A c \in Checks : check[c] = "record" /\ found[c] = "divergence" => saw[c] = 2

(* The health gate changes only after FlipAfter results in a row agree, the
   chain verdict apart (docs/PROXY.md; record_health). *)
FlipNeedsRun ==
    [][health' # health /\ at["monitor"] # "quarantine" =>
          IF health' THEN streak >= FlipAfter ELSE streak <= -FlipAfter]_vars

(* A provider that stops answering for good, or is switched to another chain
   for good, leaves the rotation for good, whatever order the probes' and the
   traffic's results reach the gate in (record_health, quarantine). *)
DeadLeaves ==
    /\ <>[](node = "silent") => <>[]~health
    /\ ChainChecked /\ <>[](node = "foreign") => <>[]~health

(* A provider that answers, and answers right, from some time on is back in
   rotation for good, from any state it was found in: out by a streak, on the
   wrong chain or for wrong data (docs/PROXY.md: "Recovery is automatic"). *)
GoodReturns ==
    <>[](node = "up" /\ data = "right") => <>[]eligible
=============================================================================
