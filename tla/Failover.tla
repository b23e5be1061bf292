------------------------------ MODULE Failover ------------------------------
(***************************************************************************)
(* A client request through the proxy (crates/lb/src/proxy.rs): providers  *)
(* are selected round robin over the members of the pool (pool.rs), with   *)
(* one cursor that all requests share, and an attempt that brings no       *)
(* answer moves the request on, within a retry budget and one deadline.    *)
(*                                                                         *)
(* The atomic steps are the ones the code has: a load of the member list,  *)
(* a fetch_add on the cursor, one read of a provider's eligibility byte.   *)
(* Between any two of them other requests select, agreements begin and     *)
(* end, and the Monitor and the integrity rounds (Eligibility) change the  *)
(* gates.                                                                  *)
(***************************************************************************)
EXTENDS Integers, Sequences, FiniteSets, Functions

CONSTANTS
    Entry,       \* pool entries: a provider accepted again is a new entry
    Static,      \* the members the configuration names, in its order
    Request,     \* client requests
    MaxAttempts, \* 1 + proxy.max_retries
    CursorSize,  \* the cursor's word: it wraps here
    MaxFlips     \* bound: gate changes that no attempt of these requests made

ASSUME FailoverAssumption ==
    /\ Static \in Seq(Entry) /\ IsInjective(Static)
    /\ IsFiniteSet(Request)
    /\ MaxAttempts \in Nat \ {0} /\ CursorSize \in Nat \ {0} /\ MaxFlips \in Nat

VARIABLES
    members,   \* Pool.members: replaced whole at every change
    gone,      \* entries that were removed
    eligible,  \* entries whose eligibility byte has both gates
    flips,     \* gate changes so far
    cursor,    \* Pool.cursor
    pc,        \* where each request is
    snapshot,  \* the member list its selection loaded
    lap,       \* positions its selection may still sample
    at,        \* the position it looks at
    attempts,  \* attempts made
    late,      \* its deadline had passed when a provider was found
    served,    \* answers relayed (the entries' served_total, summed)
    failures,  \* the entries' transport_failures, summed
    outcomes,  \* LbOutcomes
    steady,    \* history: members eligible ever since the selection began
    holders,   \* history: who held an entry at its removal
    last,      \* history: the provider it attempted last
    quiet,     \* history: nothing but its own steps since it arrived
    refused, oversized, cancelled  \* history: ends that no counter is for

pool == <<members, gone, eligible, flips>>
counts == <<served, failures, outcomes, refused, oversized, cancelled>>
vars == <<members, gone, eligible, flips, cursor, pc, snapshot, lap, at, attempts,
          late, served, failures, outcomes, steady, holders, last, quiet, refused, oversized,
          cancelled>>

Init ==
    /\ members = Static /\ gone = {} /\ eligible \in SUBSET Range(Static) /\ flips = 0
    /\ cursor = 0
    /\ pc = [r \in Request |-> "idle"]
    /\ snapshot = [r \in Request |-> <<>>]
    /\ lap = [r \in Request |-> 0] /\ at = [r \in Request |-> 0]
    /\ attempts = [r \in Request |-> 0] /\ late = [r \in Request |-> FALSE]
    /\ served = 0 /\ failures = 0
    /\ outcomes = [no_healthy_provider |-> 0, timed_out |-> 0, no_provider_answered |-> 0]
    /\ steady = [r \in Request |-> {}] /\ holders = [e \in Entry |-> {}]
    /\ last = [r \in Request |-> {}] /\ quiet = [r \in Request |-> FALSE]
    /\ refused = 0 /\ oversized = 0 /\ cancelled = 0

(* The provider a request looks at. *)
Current(r) == snapshot[r][at[r]]

Looking(r) == pc[r] \in {"advance", "look", "scan"}

(* What a selection that has begun may still return, and what an attempt
   is on. *)
Holds(r, e) == \/ Looking(r) /\ \E i \in DOMAIN snapshot[r] : snapshot[r][i] = e
               \/ pc[r] = "attempt" /\ Current(r) = e

(* The selection is over. *)
Drop(r) == /\ lap' = [lap EXCEPT ![r] = 0] /\ steady' = [steady EXCEPT ![r] = {}]

(* The request is answered, and its state goes. *)
End(r) ==
    /\ pc' = [pc EXCEPT ![r] = "done"]
    /\ snapshot' = [snapshot EXCEPT ![r] = <<>>] /\ at' = [at EXCEPT ![r] = 0]
    /\ late' = [late EXCEPT ![r] = FALSE] /\ Drop(r)
    /\ last' = [last EXCEPT ![r] = {}] /\ quiet' = [quiet EXCEPT ![r] = FALSE]

(***************************************************************************)
(* The pool.                                                               *)
(***************************************************************************)
Add(e) ==
    /\ e \notin gone /\ \A i \in DOMAIN members : members[i] # e
    /\ members' = Append(members, e)
    /\ quiet' = [r \in Request |-> FALSE]
    /\ UNCHANGED <<gone, eligible, flips, cursor, pc, snapshot, lap, at, attempts, late,
                   counts, steady, holders, last>>

(* reconcile_agreements: the entry leaves, and its count is read for the
   closing write. *)
Remove(e) ==
    /\ \E i \in DOMAIN members :
        /\ members[i] = e /\ i > Len(Static)
        /\ members' = SubSeq(members, 1, i - 1) \o SubSeq(members, i + 1, Len(members))
    /\ gone' = gone \cup {e}
    /\ holders' = [holders EXCEPT ![e] = {r \in Request : Holds(r, e)}]
    /\ quiet' = [r \in Request |-> FALSE]
    /\ UNCHANGED <<eligible, flips, cursor, pc, snapshot, lap, at, attempts, late, counts,
                   steady, last>>

(* A gate of an entry opens or closes: probes, rounds, other traffic. *)
Flip(e) ==
    /\ flips < MaxFlips
    /\ flips' = flips + 1
    /\ eligible' = IF e \in eligible THEN eligible \ {e} ELSE eligible \cup {e}
    /\ steady' = [r \in Request |-> steady[r] \ {e}]
    /\ quiet' = [r \in Request |-> FALSE]
    /\ UNCHANGED <<members, gone, cursor, pc, snapshot, lap, at, attempts, late, counts,
                   holders, last>>

(***************************************************************************)
(* The request arrives: handle and check_request.                          *)
(***************************************************************************)

(* What the checks see of a POST to the root path: how its upload ended,
   its first byte that is not blank, and whether it holds a name of the
   denylist anywhere. *)
Body == [upload : {"whole", "over max_request_size", "broken"},
         starts : {"{", "[", "other"}, names : SUBSET {"denied"}]

Denied(body) == "denied" \in body.names

LooksLikeJson(starts) == starts \in {"{", "["}

(* The answer of a refusal, or "forward". *)
CheckRequest(body) ==
    IF body.upload # "whole" THEN body.upload
    ELSE IF ~LooksLikeJson(body.starts) THEN "not a request"
    ELSE IF Denied(body) THEN "method denied"
    ELSE "forward"

Pass(r) ==
    /\ pc[r] = "idle"
    /\ pc' = [pc EXCEPT ![r] = "select"] /\ quiet' = [quiet EXCEPT ![r] = TRUE]
    /\ UNCHANGED <<pool, cursor, snapshot, lap, at, attempts, late, counts, steady,
                   holders, last>>

(* Answered at once, and no provider's. *)
Refuse(r) ==
    /\ pc[r] = "idle"
    /\ End(r) /\ refused' = refused + 1
    /\ UNCHANGED <<pool, cursor, attempts, served, failures, outcomes, oversized, cancelled,
                   holders>>

Checked == {CheckRequest(body) : body \in Body}

Arrive(r) == \E check \in Checked : IF check = "forward" THEN Pass(r) ELSE Refuse(r)

(***************************************************************************)
(* next_eligible.                                                          *)
(***************************************************************************)

(* Variant for the checks: the members are loaded once per request. *)
LoadOnce(r) ==
    /\ pc[r] = "select" /\ attempts[r] < MaxAttempts
    /\ LET seen == IF attempts[r] = 0 THEN members ELSE snapshot[r]
       IN /\ snapshot' = [snapshot EXCEPT ![r] = seen]
          /\ lap' = [lap EXCEPT ![r] = Len(seen)]
          /\ pc' = [pc EXCEPT ![r] = IF seen = <<>> THEN "none" ELSE "advance"]
          /\ steady' = [steady EXCEPT ![r] = eligible \cap Range(seen)]
    /\ at' = [at EXCEPT ![r] = 0]
    /\ UNCHANGED <<pool, cursor, attempts, late, counts, holders, last, quiet>>

Load(r) ==
    /\ pc[r] = "select" /\ attempts[r] < MaxAttempts
    /\ snapshot' = [snapshot EXCEPT ![r] = members]
    /\ lap' = [lap EXCEPT ![r] = Len(members)]
    /\ pc' = [pc EXCEPT ![r] = IF members = <<>> THEN "none" ELSE "advance"]
    /\ steady' = [steady EXCEPT ![r] = eligible \cap Range(members)]
    /\ at' = [at EXCEPT ![r] = 0]
    /\ UNCHANGED <<pool, cursor, attempts, late, counts, holders, last, quiet>>

(* The position the cursor means in a selection's own list. *)
Position(r) == (cursor % Len(snapshot[r])) + 1

(* What another selection's step on the cursor, or its wrap, stirs up. *)
Stirred(r) == [q \in Request |-> quiet[q] /\ q = r /\ cursor + 1 < CursorSize]

(* Variant for the checks: the cursor stays on a provider that is eligible. *)
AdvanceOnMiss(r) ==
    /\ pc[r] = "advance"
    /\ at' = [at EXCEPT ![r] = Position(r)]
    /\ cursor' = IF snapshot[r][Position(r)] \in eligible
                 THEN cursor ELSE (cursor + 1) % CursorSize
    /\ lap' = [lap EXCEPT ![r] = @ - 1]
    /\ pc' = [pc EXCEPT ![r] = "look"] /\ quiet' = Stirred(r)
    /\ UNCHANGED <<pool, snapshot, attempts, late, counts, steady, holders, last>>

(* Variant for the checks: the cursor is not reduced to the list. *)
AdvancePlain(r) ==
    /\ pc[r] = "advance"
    /\ at' = [at EXCEPT ![r] = cursor + 1]
    /\ cursor' = (cursor + 1) % CursorSize
    /\ lap' = [lap EXCEPT ![r] = @ - 1]
    /\ pc' = [pc EXCEPT ![r] = "look"] /\ quiet' = Stirred(r)
    /\ UNCHANGED <<pool, snapshot, attempts, late, counts, steady, holders, last>>

(* fetch_add: the position is this selection's, the cursor everybody's. *)
Advance(r) ==
    /\ pc[r] = "advance"
    /\ at' = [at EXCEPT ![r] = Position(r)]
    /\ cursor' = (cursor + 1) % CursorSize
    /\ lap' = [lap EXCEPT ![r] = @ - 1]
    /\ pc' = [pc EXCEPT ![r] = "look"] /\ quiet' = Stirred(r)
    /\ UNCHANGED <<pool, snapshot, attempts, late, counts, steady, holders, last>>

(* This one: an attempt on it begins. *)
LookHit(r) ==
    /\ pc[r] \in {"look", "scan"} /\ Current(r) \in eligible
    /\ pc' = [pc EXCEPT ![r] = "attempt"]
    /\ attempts' = [attempts EXCEPT ![r] = @ + 1]
    /\ UNCHANGED <<pool, cursor, snapshot, lap, at, late, counts, steady, holders, last,
                   quiet>>

(* Or no time is left for one: the loop ends. *)
LookLate(r) ==
    /\ pc[r] \in {"look", "scan"} /\ Current(r) \in eligible
    /\ pc' = [pc EXCEPT ![r] = "spent"] /\ late' = [late EXCEPT ![r] = TRUE]
    /\ Drop(r)
    /\ UNCHANGED <<pool, cursor, snapshot, at, attempts, counts, holders, last, quiet>>

(* Variant for the checks: one lap, and no scan after it. *)
LookMissLapOnly(r) ==
    /\ pc[r] = "look" /\ Current(r) \notin eligible
    /\ pc' = [pc EXCEPT ![r] = IF lap[r] > 0 THEN "advance" ELSE "none"]
    /\ UNCHANGED <<pool, cursor, snapshot, lap, at, attempts, late, counts, steady,
                   holders, last, quiet>>

(* Not this one: on with the lap, and after it a scan of the list in its
   own order. *)
LookMiss(r) ==
    /\ pc[r] = "look" /\ Current(r) \notin eligible
    /\ pc' = [pc EXCEPT ![r] = IF lap[r] > 0 THEN "advance" ELSE "scan"]
    /\ at' = [at EXCEPT ![r] = IF lap[r] > 0 THEN @ ELSE 1]
    /\ UNCHANGED <<pool, cursor, snapshot, lap, attempts, late, counts, steady, holders,
                   last, quiet>>

(* Variant for the checks: the scan starts over until somebody is eligible. *)
ScanForever(r) ==
    /\ pc[r] = "scan" /\ Current(r) \notin eligible
    /\ at' = [at EXCEPT ![r] = IF @ = Len(snapshot[r]) THEN 1 ELSE @ + 1]
    /\ UNCHANGED <<pool, cursor, pc, snapshot, lap, attempts, late, counts, steady,
                   holders, last, quiet>>

ScanMiss(r) ==
    /\ pc[r] = "scan" /\ Current(r) \notin eligible
    /\ IF at[r] = Len(snapshot[r])
       THEN pc' = [pc EXCEPT ![r] = "none"] /\ UNCHANGED at
       ELSE at' = [at EXCEPT ![r] = @ + 1] /\ UNCHANGED pc
    /\ UNCHANGED <<pool, cursor, snapshot, lap, attempts, late, counts, steady, holders,
                   last, quiet>>

(***************************************************************************)
(* forward_with_failover.                                                  *)
(***************************************************************************)

(* Nobody is eligible, at the first selection or at a later one. *)
NoHealthy(r) ==
    /\ pc[r] = "none"
    /\ outcomes' = [outcomes EXCEPT !.no_healthy_provider = @ + 1]
    /\ End(r)
    /\ UNCHANGED <<pool, cursor, attempts, served, failures, refused, oversized, cancelled,
                   holders>>

(* What an attempt sees of a provider's answer: how the send ended, the
   status, whether the length it declares is over max_response_size, how
   reading the body ended, and how the body begins and if it is JSON-RPC. *)
Response == [send : {"sent", "error", "timeout"},
             status : {"2xx", "400", "another"}, declared : {"fits", "over"},
             read : {"whole", "over", "error", "timeout"},
             starts : {"{", "[", "other"}, jsonrpc : BOOLEAN]

Failure(error) == IF error = "timeout" THEN "TimedOut" ELSE "NoAnswer"

(* Parsed only when short, and an object or a batch of them. *)
IsJsonRpcResponse(answer) == LooksLikeJson(answer.starts) /\ answer.jsonrpc

(* attempt: a 400 is the node's own answer only with a JSON-RPC body. *)
Outcome(answer) ==
    IF answer.send # "sent" THEN Failure(answer.send)
    ELSE IF answer.status = "another" THEN "NoAnswer"
    ELSE IF "over" \in {answer.declared, answer.read} THEN "TooLarge"
    ELSE IF answer.read # "whole" THEN Failure(answer.read)
    ELSE IF ~LooksLikeJson(answer.starts) THEN "NoAnswer"
    ELSE IF answer.status = "400" /\ ~IsJsonRpcResponse(answer) THEN "NoAnswer"
    ELSE "Answer"

(* Outcome::Answer: the provider's answer, an error of its own included. *)
Answer(r) ==
    /\ pc[r] = "attempt"
    /\ served' = served + 1
    /\ End(r)
    /\ UNCHANGED <<pool, cursor, attempts, failures, outcomes, refused, oversized, cancelled,
                   holders>>

(* Outcome::TooLarge: final, and nobody's counter. *)
TooLarge(r) ==
    /\ pc[r] = "attempt"
    /\ End(r) /\ oversized' = oversized + 1
    /\ UNCHANGED <<pool, cursor, attempts, served, failures, outcomes, refused, cancelled,
                   holders>>

(* Variant for the checks: an attempt that does not tick its provider is not
   counted either. *)
NoAnswerTicked(r) ==
    /\ pc[r] = "attempt"
    /\ \E ticked \in BOOLEAN :
         LET down == IF ticked THEN {Current(r)} ELSE {} IN
         /\ failures' = IF ticked THEN failures + 1 ELSE failures
         /\ eligible' = eligible \ down
         /\ steady' = [q \in Request |-> IF q = r THEN {} ELSE steady[q] \ down]
    /\ pc' = [pc EXCEPT ![r] = IF attempts[r] < MaxAttempts THEN "select" ELSE "spent"]
    /\ lap' = [lap EXCEPT ![r] = 0] /\ last' = [last EXCEPT ![r] = {Current(r)}]
    /\ quiet' = [q \in Request |-> quiet[q] /\ (q = r \/ eligible' = eligible)]
    /\ UNCHANGED <<members, gone, flips, cursor, snapshot, at, attempts, late, served,
                   outcomes, refused, oversized, cancelled, holders>>

(* Outcome::NoAnswer and Outcome::TimedOut: counted on the entry and, if
   the entry was silent throughout, ticked, which may close its gate. *)
NoAnswer(r) ==
    /\ pc[r] = "attempt"
    /\ failures' = failures + 1
    /\ \E ticked \in BOOLEAN :
         LET down == IF ticked THEN {Current(r)} ELSE {} IN
         /\ eligible' = eligible \ down
         /\ steady' = [q \in Request |-> IF q = r THEN {} ELSE steady[q] \ down]
    /\ pc' = [pc EXCEPT ![r] = IF attempts[r] < MaxAttempts THEN "select" ELSE "spent"]
    /\ lap' = [lap EXCEPT ![r] = 0] /\ last' = [last EXCEPT ![r] = {Current(r)}]
    /\ quiet' = [q \in Request |-> quiet[q] /\ (q = r \/ eligible' = eligible)]
    /\ UNCHANGED <<members, gone, flips, cursor, snapshot, at, attempts, late, served,
                   outcomes, refused, oversized, cancelled, holders>>

Outcomes == {Outcome(answer) : answer \in Response}

(* The match on what the attempt came to. *)
Attempted(r) ==
    \E outcome \in Outcomes :
        CASE outcome = "Answer"   -> Answer(r)
          [] outcome = "TooLarge" -> TooLarge(r)
          [] OTHER                -> NoAnswer(r)

(* The client goes away during an attempt, the one await of the handler: its
   future is dropped there, and nothing after the await runs. *)
Hangup(r) ==
    /\ pc[r] = "attempt"
    /\ End(r) /\ cancelled' = cancelled + 1
    /\ UNCHANGED <<pool, cursor, attempts, served, failures, outcomes, refused, oversized,
                   holders>>

(* After the loop: out of time, or out of attempts. *)
Spent(r) ==
    /\ pc[r] = "spent"
    /\ \/ outcomes' = [outcomes EXCEPT !.timed_out = @ + 1]
       \/ ~late[r] /\ outcomes' = [outcomes EXCEPT !.no_provider_answered = @ + 1]
    /\ End(r)
    /\ UNCHANGED <<pool, cursor, attempts, served, failures, refused, oversized, cancelled,
                   holders>>

(* The steps the request's own task takes. *)
Step(r) ==
    \/ Load(r) \/ Advance(r) \/ LookHit(r) \/ LookLate(r) \/ LookMiss(r) \/ ScanMiss(r)
    \/ NoHealthy(r) \/ Attempted(r) \/ Spent(r)

Next ==
    \/ \E e \in Entry : Add(e) \/ Remove(e) \/ Flip(e)
    \/ \E r \in Request : Arrive(r) \/ Hangup(r) \/ Step(r)

Spec == Init /\ [][Next]_vars

(* The runtime polls every task that can run, and an attempt has a timeout. *)
FairSpec == Spec /\ \A r \in Request : WF_vars(Step(r))
-----------------------------------------------------------------------------
Ended == {r \in Request : pc[r] = "done"}

(* Types; a selection looks at a position its own list has. *)
TypeOK ==
    /\ members \in Seq(Entry) /\ IsInjective(members)
    /\ gone \subseteq Entry /\ eligible \subseteq Entry /\ flips \in Nat
    /\ cursor \in 0..(CursorSize - 1)
    /\ pc \in [Request -> {"idle", "select", "advance", "look", "scan", "none",
                           "attempt", "spent", "done"}]
    /\ snapshot \in [Request -> Seq(Entry)]
    /\ lap \in [Request -> Nat] /\ at \in [Request -> Nat]
    /\ \A r \in Request : at[r] <= Len(snapshot[r])
    /\ attempts \in [Request -> 0..MaxAttempts] /\ late \in [Request -> BOOLEAN]
    /\ served \in Nat /\ failures \in Nat
    /\ outcomes \in [no_healthy_provider: Nat, timed_out: Nat, no_provider_answered: Nat]

(* next_eligible returns None only if no member of its list was eligible
   from its first step to its last: however far other requests moved the
   cursor during the lap, and also when it wraps (next_eligible: "the lap
   above may have sampled the same index twice and missed an eligible
   provider"). *)
NoneMeansNone == \A r \in Request : pc[r] = "none" => steady[r] = {}

(* An entry that left the pool is only ever held by the requests that held
   it when it left, so the count its closing write leaves out is at most
   theirs (Pool::remove: "Once this returns, no new selection can pick it;
   a selection already holding it finishes with it"). *)
GoneHeldByHolders ==
    \A e \in gone, r \in Request : Holds(r, e) => r \in holders[e]

(* A request that fails over with nobody else at the cursor moves on: it is
   not sent again to the provider that just failed it while another member
   is eligible throughout. *)
FailoverMovesOn ==
    \A r \in Request :
        (pc[r] = "attempt" /\ quiet[r] /\ Current(r) \in last[r])
            => steady[r] \subseteq last[r]

Total(f) == FoldFunction(+, 0, f)

(* Every request that got an answer is in exactly one place: answered by an
   entry, in one of the three outcomes the statistics show, or among the
   refusals and oversized answers that no counter is for; and every attempt
   that came to something is an answer, a failure or an oversized answer.
   What is missing from the counters is one to one what clients abandoned
   during an attempt, and what is still in flight. *)
EveryEndCounted ==
    /\ Cardinality(Ended) = served + Total(outcomes) + refused + oversized + cancelled
    /\ Total(attempts) = served + failures + oversized + cancelled
                         + Cardinality({r \in Request : pc[r] = "attempt"})

(* LbOutcomes says of no_healthy_provider that it counts requests for which
   "No provider was eligible when the request arrived": none that an
   eligible provider was found for before. *)
NobodyOnArrival ==
    [][\A r \in Request :
         pc[r] = "none" /\ outcomes'.no_healthy_provider > outcomes.no_healthy_provider
         /\ pc'[r] = "done" => attempts[r] = 0]_vars

(* A request that passed the checks is answered. *)
RequestEnds == \A r \in Request : pc[r] = "select" ~> pc[r] = "done"
=============================================================================
