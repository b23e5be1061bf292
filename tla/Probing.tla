------------------------------ MODULE Probing ------------------------------
(***************************************************************************)
(* When the Monitor probes one provider (crates/lb/src/monitor.rs): the    *)
(* interval timer, the reference read at the head of a sweep, the wait for *)
(* one of the slots probes run in, the backoff of unanswered probes, and   *)
(* the probe asked for when a tunnel is admitted (schedule_probe_now).  No *)
(* chain identity is configured here, so every provider due is probed.     *)
(*                                                                         *)
(* Times are whole units, kept relative to the present: `wait' is how far  *)
(* next_probe lies ahead, `tick' how far the timer's next deadline does.   *)
(***************************************************************************)
EXTENDS Integers

CONSTANTS
    BackoffAfter,   \* health.flip_after
    Interval,       \* health.probe_interval
    MaxBackoff,     \* health.max_probe_backoff
    Timeout,        \* health.probe_timeout, the longest a probe takes
    RefTime,        \* the longest the reference takes to answer
    Slots,          \* CONCURRENT_PROBES
    Ahead,          \* members before this one in the pool's list
    RoundTime,      \* the longest the sweep takes for the members after it
    MaxUnanswered   \* bound: depth of the unanswered streak

ASSUME ProbingAssumption ==
    /\ BackoffAfter \in Nat /\ Interval \in Nat \ {0} /\ MaxBackoff \in Nat
    /\ Timeout \in Nat /\ RefTime \in Nat /\ RoundTime \in Nat /\ MaxUnanswered \in Nat
    /\ Slots \in Nat \ {0} /\ Ahead \in Nat
    \* past this depth the delay is the cap already
    /\ MaxUnanswered > BackoffAfter
    /\ Interval * 2^(MaxUnanswered - BackoffAfter) >= MaxBackoff

VARIABLES
    phase,      \* "rest", "reference", "queued", "probing" or "others"
    tick,       \* until the timer's next deadline, 0 when it has passed
    wait,       \* until next_probe, 0 when it has passed
    spent,      \* since this phase began
    since,      \* since the `now' of probe_all
    due,        \* queued: next_probe is not after that `now'
    unanswered, \* unanswered_probe_streak
    gap,        \* history: since this provider's last probe began or was put off
    admitted    \* history: a tunnel was admitted and no probe begun since

probingVars == <<phase, tick, wait, spent, since, due, unanswered, gap, admitted>>

Left(t, passed) == IF t > passed THEN t - passed ELSE 0

MinOf(x, y) == IF x < y THEN x ELSE y

(* Variant for the checks: no cap. *)
ProbeDelayUncapped(failures) == Interval * 2^Left(failures, BackoffAfter)

(* probe_delay: doubled for each failure past flip_after, and capped. *)
ProbeDelay(failures) == MinOf(Interval * 2^Left(failures, BackoffAfter), MaxBackoff)

(* The first tick of an interval timer is at once, and so is the first probe
   of an entry. *)
ProbingInit ==
    /\ phase = "rest" /\ tick = 0 /\ wait = 0 /\ spent = 0 /\ since = 0
    /\ due = FALSE /\ unanswered = 0 /\ gap = 0 /\ admitted = FALSE

(* Probes start in the order of the list, each slot a new one within every
   Timeout: as many times Timeout as the members ahead fill the slots. *)
SlotWait == Timeout * (Ahead \div Slots)

Longest == CASE phase = "reference" -> RefTime
             [] phase = "queued"    -> SlotWait
             [] phase = "probing"   -> Timeout
             [] OTHER               -> RoundTime

TimePasses ==
    /\ IF phase = "rest" THEN tick > 0 ELSE spent < Longest
    /\ tick' = Left(tick, 1) /\ wait' = Left(wait, 1)
    /\ spent' = IF phase = "rest" THEN 0 ELSE spent + 1
    /\ since' = IF phase \in {"queued", "probing", "others"} THEN since + 1 ELSE 0
    /\ gap' = gap + 1
    /\ UNCHANGED <<phase, due, unanswered, admitted>>

(* The timer fires.  MissedTickBehavior::Delay: after a late tick the next
   deadline is a full interval away. *)
Tick ==
    /\ phase = "rest" /\ tick = 0
    /\ phase' = "reference" /\ spent' = 0
    /\ tick' = Interval
    /\ UNCHANGED <<wait, since, due, unanswered, gap, admitted>>

(* probe_all, the reference answered or given up on: `now' is taken here, and
   what is due against it is settled unless next_probe is moved. *)
ProbeAll ==
    /\ phase = "reference"
    /\ phase' = "queued" /\ due' = (wait = 0)
    /\ spent' = 0 /\ since' = 0
    /\ UNCHANGED <<tick, wait, unanswered, gap, admitted>>

(* for_each_concurrent comes to this provider: probed, or passed over. *)
SlotOpens ==
    /\ phase = "queued"
    /\ phase' = IF due THEN "probing" ELSE "others"
    /\ gap' = IF due THEN 0 ELSE gap
    /\ admitted' = (admitted /\ ~due)
    /\ spent' = 0 /\ due' = FALSE
    /\ UNCHANGED <<tick, wait, since, unanswered>>

ProbeAnswered ==
    /\ phase = "probing"
    /\ phase' = "others" /\ spent' = 0
    /\ unanswered' = 0
    /\ UNCHANGED <<tick, wait, since, due, gap, admitted>>

(* Variant for the checks: the delay is added to a next_probe that has passed,
   counted from the end of the probe. *)
RecordUnansweredProbeLate ==
    /\ phase = "probing"
    /\ phase' = "others" /\ spent' = 0
    /\ unanswered' = MinOf(unanswered + 1, MaxUnanswered)
    /\ wait' = wait + ProbeDelay(unanswered')
    /\ UNCHANGED <<tick, since, due, gap, admitted>>

(* record_unanswered_probe and reschedule_unanswered: next_probe is stored,
   whatever it was. *)
RecordUnansweredProbe ==
    /\ phase = "probing"
    /\ phase' = "others" /\ spent' = 0
    /\ unanswered' = MinOf(unanswered + 1, MaxUnanswered)
    /\ wait' = Left(ProbeDelay(unanswered'), since)
    /\ UNCHANGED <<tick, since, due, gap, admitted>>

RoundEnds ==
    /\ phase = "others"
    /\ phase' = "rest" /\ spent' = 0 /\ since' = 0
    /\ UNCHANGED <<tick, wait, due, unanswered, gap, admitted>>

(* schedule_probe_now, on the admission callback's thread: next_probe is the
   present.  For a sweep whose `now' has passed that is too late: a provider
   that was due and waits for its slot is put off to the next one. *)
ProbeNow ==
    /\ wait' = 0 /\ admitted' = TRUE
    /\ due' = FALSE /\ gap' = IF due THEN 0 ELSE gap
    /\ UNCHANGED <<phase, tick, spent, since, unanswered>>

ProbingNext ==
    \/ TimePasses \/ Tick \/ ProbeAll \/ SlotOpens \/ ProbeAnswered
    \/ RecordUnansweredProbe \/ RoundEnds \/ ProbeNow

ProbingSpec == ProbingInit /\ [][ProbingNext]_probingVars
-----------------------------------------------------------------------------
(* Types of the schedule; next_probe is never further off than the cap. *)
ProbingTypeOK ==
    /\ phase \in {"rest", "reference", "queued", "probing", "others"}
    /\ tick \in 0..Interval /\ wait \in 0..MaxBackoff
    /\ spent \in Nat /\ since \in Nat
    /\ due \in BOOLEAN /\ unanswered \in 0..MaxUnanswered
    /\ gap \in Nat /\ admitted \in BOOLEAN

MaxOf(x, y) == IF x > y THEN x ELSE y

(* However late the sweeps run and however many members are before it, a
   provider is probed again by the first sweep after its own, or within the
   delay its unanswered probes have earned and one sweep more, each time plus
   one read of the reference and the wait for a slot: no slip of the schedule
   adds up.  A tunnel admitted during the wait for a slot starts the count
   anew (probe_all, probe_delay, reschedule_unanswered, schedule_probe_now;
   docs/PROXY.md: "Quarantined providers keep being probed"). *)
SilenceBounded ==
    LET next  == MaxOf(Interval, MaxOf(Timeout, SlotWait) + RoundTime)
        later == ProbeDelay(unanswered) + MaxOf(Interval, SlotWait + RoundTime)
    IN gap <= MaxOf(next, later) + RefTime + SlotWait

(* A tunnel was admitted and its provider not probed since: it does not wait
   (schedule_probe_now; docs/MARKETPLACE.md: "an admitted tunnel ends the
   wait"). *)
AdmittedEndsWait == admitted => wait = 0
=============================================================================
